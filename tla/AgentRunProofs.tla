--------------------------- MODULE AgentRunProofs ---------------------------
(***************************************************************************)
(* Theorems about AgentRun: for every number of fallbacks, retries,        *)
(* iterations and follow-ups, the request, the loop and the user's stream  *)
(* keep together.  The invariant has two layers: RequestInv is about the   *)
(* request, the breaker and the stream alone, and every step of the loop   *)
(* finds it; LoopInv relates them to the state of the loop.                *)
(***************************************************************************)
EXTENDS AgentRun, SequenceTheorems, TLAPS

\* The sets of the fields; they stay opaque where a field is merely replaced.
RequestStages == {"none", "attempt", "primary", "next", "fallback", "returned"}
Attempts == 0..Retries + 1
Sames == 0..SameErrors
Providers == 0..Fallbacks
Lasts == Errors \union {NoReply}
Streamings == {"none", "think", "text"}
Replies == Good \union Errors \union {NoReply}

RequestRecord ==
  [stage : RequestStages, streaming : BOOLEAN, walled : BOOLEAN, persistent : BOOLEAN,
   attempt : Attempts, same : Sames, bare : BOOLEAN, who : Providers, outer : BOOLEAN,
   inner : BOOLEAN, last : Lasts, streamed : Streamings, reply : Replies]

Breakers == [failures : 0..Threshold, state : {"closed", "open", "cooled"}]
Views == [segment : Seq(Good \union Errors), stream : {"none", "open", "resuming", "final"}]

\* Nothing but the text of malformed tool calls, which may be followed by another attempt.
Repeatable(segment) == \A i \in 1..Len(segment) : segment[i] = "badtools"
OneAttempt(segment) == \A i \in 1..Len(segment) - 1 : segment[i] = "badtools"

\* The two flags for "something was streamed" know of the last call, and are
\* lowered before another one is made.
Flags(r) ==
  /\ r.outer => r.inner
  /\ r.inner => r.streamed # "none"
  /\ ~r.streaming => r.streamed = "none"
  /\ r.stage \in {"attempt", "primary", "fallback"} => ~r.outer
  /\ r.stage \in {"primary", "fallback"} => ~r.inner
  /\ r.stage = "next" /\ r.inner => r.outer

\* An identical error is counted below the limit while the request is in flight,
\* and an answer that came back to a streaming request was streamed.
Course(r) ==
  /\ r.stage # "returned" => r.same < SameErrors
  /\ r.stage = "returned" /\ r.streaming /\ r.reply \in {"answer", "length"} => r.streamed = "text"

\* NoEarlySurrender, of a request.
Honest(r) ==
  r.stage = "returned" /\ r.reply \in Errors /\ r.streamed = "none" /\ ~r.walled =>
    /\ r.reply \in Transient =>
         \/ r.bare
         \/ IF r.persistent THEN r.same = SameErrors ELSE r.attempt = Retries + 1
    /\ r.reply \in Fallbackable => r.who = Fallbacks

\* A call is made into a segment that it may go on with.
Segments(r, v) ==
  /\ OneAttempt(v.segment)
  /\ r.stage \in {"attempt", "primary", "fallback"} => Repeatable(v.segment)
  /\ r.stage = "next" /\ ~r.inner => Repeatable(v.segment)
  /\ r.stage = "returned" /\ r.reply = "badtools" => Repeatable(v.segment)

RequestShape ==
  /\ request \in RequestRecord /\ breaker \in Breakers /\ images \in BOOLEAN /\ view \in Views

RequestInv ==
  /\ RequestShape
  /\ Flags(request) /\ Course(request) /\ Honest(request)
  /\ Segments(request, view)
  /\ BreakerConsistent

-----------------------------------------------------------------------------
(* The operators of ModelRequest. *)

LEMMA ConstantTypes ==
  /\ Fallbacks \in Nat /\ Retries \in Nat
  /\ Threshold \in Nat /\ Threshold > 0 /\ SameErrors \in Nat /\ SameErrors > 0
  BY RequestAssumption

LEMMA FieldTypes ==
  /\ {"none", "attempt", "primary", "next", "fallback", "returned"} \subseteq RequestStages
  /\ 0 \in Attempts /\ 1 \in Attempts /\ 0 \in Sames /\ 0 \in Providers
  /\ "none" \in Streamings /\ NoReply \in Lasts /\ NoReply \in Replies
  /\ Good \subseteq Replies /\ Errors \subseteq Replies /\ Errors \subseteq Lasts
  BY ConstantTypes DEF RequestStages, Attempts, Sames, Providers, Streamings, Lasts, Replies

LEMMA NoRequestType ==
  /\ NoRequest \in RequestRecord /\ NoRequest.stage = "none" /\ ~NoRequest.streaming
  /\ ~NoRequest.outer /\ ~NoRequest.inner /\ NoRequest.streamed = "none" /\ NoRequest.same = 0
  /\ Flags(NoRequest) /\ Course(NoRequest) /\ Honest(NoRequest)
  <1>1. NoRequest \in RequestRecord
    BY FieldTypes DEF NoRequest, RequestRecord
  <1> QED
    BY <1>1, ConstantTypes DEF NoRequest, Flags, Course, Honest

LEMMA StartedType ==
  ASSUME NEW streaming \in BOOLEAN, NEW walled \in BOOLEAN, NEW persistent \in BOOLEAN
  PROVE  /\ Started(streaming, walled, persistent) \in RequestRecord
         /\ Started(streaming, walled, persistent).stage = "attempt"
         /\ Started(streaming, walled, persistent).streaming = streaming
         /\ Flags(Started(streaming, walled, persistent))
         /\ Course(Started(streaming, walled, persistent))
         /\ Honest(Started(streaming, walled, persistent))
  <1> DEFINE s == Started(streaming, walled, persistent)
  <1>1. s \in RequestRecord
    BY NoRequestType, FieldTypes DEF Started, RequestRecord
  <1>2. /\ s.stage = "attempt" /\ s.streaming = streaming
    BY NoRequestType DEF Started, RequestRecord
  <1>3. /\ s.outer = NoRequest.outer /\ s.inner = NoRequest.inner
        /\ s.streamed = NoRequest.streamed /\ s.same = NoRequest.same
    BY NoRequestType DEF Started, RequestRecord
  <1>4. ~s.outer /\ ~s.inner /\ s.streamed = "none" /\ s.same < SameErrors
    BY <1>3, NoRequestType, ConstantTypes
  <1> HIDE DEF s
  <1>5. Flags(s)
    BY <1>2, <1>4 DEF Flags
  <1>6. Course(s)
    BY <1>2, <1>4 DEF Course
  <1>7. Honest(s)
    BY <1>2 DEF Honest
  <1> QED
    BY <1>1, <1>2, <1>5, <1>6, <1>7 DEF s

LEMMA EmptySegment ==
  ASSUME NEW s, s = <<>>
  PROVE  Repeatable(s) /\ OneAttempt(s)
  BY DEF Repeatable, OneAttempt

LEMMA EndedType ==
  ASSUME NEW v, NEW resuming \in BOOLEAN
  PROVE  /\ Ended(v, resuming) \in Views
         /\ Ended(v, resuming).segment = <<>>
         /\ Repeatable(Ended(v, resuming).segment) /\ OneAttempt(Ended(v, resuming).segment)
  BY DEF Ended, Views, Repeatable, OneAttempt

\* What a call shows: a new text at the end of the segment, or nothing.
LEMMA ShownType ==
  ASSUME NEW v \in Views, NEW kind \in Good \union Errors, NEW streamed
  PROVE  /\ Shown(v, kind, streamed) \in Views
         /\ streamed # "text" => Shown(v, kind, streamed) = v
         /\ Repeatable(v.segment) => OneAttempt(Shown(v, kind, streamed).segment)
         /\ Repeatable(v.segment) /\ kind = "badtools" => Repeatable(Shown(v, kind, streamed).segment)
  <1>1. CASE streamed # "text"
    BY <1>1 DEF Shown, Repeatable, OneAttempt, Views
  <1>2. CASE streamed = "text"
    <2> DEFINE s == Append(v.segment, kind)
    <2>1. v.segment \in Seq(Good \union Errors)
      BY DEF Views
    <2>2. /\ s \in Seq(Good \union Errors) /\ Len(s) = Len(v.segment) + 1
          /\ \A i \in 1..Len(v.segment) : s[i] = v.segment[i]
          /\ s[Len(v.segment) + 1] = kind
      BY <2>1
    <2>3. Shown(v, kind, streamed) = [segment |-> s, stream |-> "open"]
      BY <1>2 DEF Shown
    <2> HIDE DEF s
    <2>4. Len(v.segment) \in Nat
      BY <2>1
    <2> QED
      BY <2>2, <2>3, <2>4, <1>2 DEF Repeatable, OneAttempt, Views
  <1> QED
    BY <1>1, <1>2

LEMMA HeardType ==
  ASSUME NEW r \in RequestRecord, NEW streamed \in Streamings,
         ~r.streaming => streamed = "none", ~r.outer, ~r.inner
  PROVE  /\ Heard(r, streamed) \in RequestRecord
         /\ Heard(r, streamed).outer = (streamed # "none")
         /\ Heard(r, streamed).inner = (streamed # "none")
         /\ Heard(r, streamed).streamed = streamed
         /\ \A f \in {"stage", "streaming", "walled", "persistent", "attempt", "same", "bare", "who",
                      "last", "reply"} : Heard(r, streamed)[f] = r[f]
  BY DEF Heard, RequestRecord

LEMMA ReturnedType ==
  ASSUME NEW r \in RequestRecord, NEW kind \in Good \union Errors
  PROVE  /\ Returned(r, kind) \in RequestRecord
         /\ Returned(r, kind).stage = "returned" /\ Returned(r, kind).reply = kind
         /\ \A f \in {"streaming", "persistent", "attempt", "same", "bare", "who",
                      "outer", "inner", "last", "streamed"} : Returned(r, kind)[f] = r[f]
  BY FieldTypes DEF Returned, RequestRecord

LEMMA ClearType ==
  ASSUME NEW r \in RequestRecord
  PROVE  /\ [r EXCEPT !.outer = FALSE] \in RequestRecord
         /\ [r EXCEPT !.outer = FALSE].outer = FALSE
         /\ \A f \in {"stage", "streaming", "walled", "persistent", "attempt", "same", "bare", "who",
                      "inner", "last", "streamed", "reply"} : [r EXCEPT !.outer = FALSE][f] = r[f]
  BY DEF RequestRecord

LEMMA RepeatableIsOne ==
  ASSUME NEW v \in Views, Repeatable(v.segment)
  PROVE  OneAttempt(v.segment)
  BY DEF Repeatable, OneAttempt, Views

\* How an attempt's error is dealt with: a request that goes on may do so, and
\* one that comes back with the error had nothing left to try.
LEMMA ConcludeInv ==
  ASSUME NEW r \in RequestRecord, NEW v \in Views, NEW kind \in Errors, images \in BOOLEAN,
         r.outer => r.inner, r.inner => r.streamed # "none", ~r.streaming => r.streamed = "none",
         r.same < SameErrors, OneAttempt(v.segment), ~r.outer => Repeatable(v.segment),
         kind \in Fallbackable => r.who = Fallbacks \/ r.streamed # "none",
         Conclude(r, v, kind)
  PROVE  /\ request' \in RequestRecord /\ view' \in Views
         /\ Flags(request') /\ Course(request') /\ Honest(request') /\ Segments(request', view')
         /\ request'.streaming = r.streaming /\ request'.stage \in {"attempt", "returned"}
         /\ request'.stage = "returned" => request'.reply = kind
         /\ view' = v \/ view'.segment = <<>>
  <1> DEFINE stalled == r.outer /\ kind = "timeout"
             clear == [r EXCEPT !.outer = FALSE]
  <1>k. kind \in Good \union Errors /\ kind \notin Good
    BY DEF Good, Errors, Failures
  <1>1. CASE r.bare \/ (r.outer /\ ~stalled)
    <2>1. request' = Returned(r, kind) /\ view' = v
      BY <1>1 DEF Conclude
    <2>2. /\ request' \in RequestRecord /\ request'.stage = "returned" /\ request'.reply = kind
          /\ request'.streaming = r.streaming /\ request'.outer = r.outer
          /\ request'.inner = r.inner /\ request'.streamed = r.streamed /\ request'.bare = r.bare
          /\ request'.who = r.who
      BY <2>1, <1>k, ReturnedType
    <2>3. Flags(request') /\ Course(request') /\ Segments(request', view')
      BY <2>1, <2>2, <1>k DEF Flags, Course, Segments, Good
    <2>4. Honest(request')
      BY <2>2, <1>1 DEF Honest
    <2> QED
      BY <2>1, <2>2, <2>3, <2>4
  <1>2. CASE ~(r.bare \/ (r.outer /\ ~stalled))
    <2>1. clear \in RequestRecord /\ clear.outer = FALSE
      BY ClearType
    <2>2. /\ clear.streaming = r.streaming /\ clear.streamed = r.streamed /\ clear.inner = r.inner
          /\ clear.same = r.same /\ clear.attempt = r.attempt /\ clear.persistent = r.persistent
          /\ clear.who = r.who
      BY ClearType
    <2>3. /\ view' = IF stalled THEN Ended(v, TRUE) ELSE v
          /\ \/ kind \notin Transient /\ images
                /\ request' = [clear EXCEPT !.stage = "attempt", !.bare = TRUE]
             \/ kind \notin Transient /\ request' = Returned(clear, kind)
             \/ \E same \in SameInRow(r) :
                  \/ Exhausted(r, same) /\ request' = [Returned(clear, kind) EXCEPT !.same = same]
                  \/ ~Exhausted(r, same)
                     /\ request' = [clear EXCEPT !.stage = "attempt", !.same = same,
                                                 !.attempt = IF r.persistent THEN @ ELSE @ + 1]
      BY <1>2, Zenon DEF Conclude
    <2>4. /\ view' \in Views /\ Repeatable(view'.segment) /\ OneAttempt(view'.segment)
          /\ view' = v \/ view'.segment = <<>>
      BY <2>3, <1>2, EndedType, RepeatableIsOne
    <2> HIDE DEF clear, stalled
    <2>5. CASE kind \notin Transient /\ request' = [clear EXCEPT !.stage = "attempt", !.bare = TRUE]
      <3>1. request' \in RequestRecord
        BY <2>5, <2>1, FieldTypes DEF RequestRecord
      <3>2. /\ request'.stage = "attempt" /\ request'.streaming = clear.streaming
            /\ request'.streamed = clear.streamed /\ request'.inner = clear.inner
            /\ request'.same = clear.same /\ request'.outer = clear.outer
        BY <2>5, <2>1 DEF RequestRecord
      <3>3. Flags(request') /\ Course(request') /\ Honest(request') /\ Segments(request', view')
        BY <3>2, <2>1, <2>2, <2>4 DEF Flags, Course, Honest, Segments
      <3> QED
        BY <3>1, <3>2, <3>3, <2>2, <2>4
    <2>6. CASE kind \notin Transient /\ request' = Returned(clear, kind)
      <3>1. /\ request' \in RequestRecord /\ request'.stage = "returned" /\ request'.reply = kind
            /\ request'.streaming = clear.streaming /\ request'.outer = clear.outer
            /\ request'.inner = clear.inner /\ request'.streamed = clear.streamed
            /\ request'.who = clear.who
        BY <2>6, <2>1, <1>k, ReturnedType
      <3>2. Flags(request') /\ Course(request') /\ Segments(request', view')
        BY <3>1, <2>1, <2>2, <2>4, <1>k DEF Flags, Course, Segments, Good
      <3>3. Honest(request')
        BY <3>1, <2>2, <2>6 DEF Honest
      <3> QED
        BY <3>1, <3>2, <3>3, <2>2, <2>4
    <2>7. ASSUME NEW same \in SameInRow(r)
          PROVE  /\ same \in Nat /\ same <= SameErrors /\ same \in Sames
                 /\ ~r.persistent => same < SameErrors
      <3>1. r.same \in Nat
        BY DEF RequestRecord, Sames
      <3>2. same = 0 \/ same = 1 \/ same = r.same + 1
        BY <2>7 DEF SameInRow
      <3>3. ~r.persistent => same = 0
        BY <2>7 DEF SameInRow
      <3> QED
        BY <3>1, <3>2, <3>3, ConstantTypes DEF Sames
    <2>8. ASSUME NEW same \in SameInRow(r), Exhausted(r, same),
                 request' = [Returned(clear, kind) EXCEPT !.same = same]
          PROVE  request' \in RequestRecord /\ Flags(request') /\ Course(request')
                 /\ Honest(request') /\ Segments(request', view') /\ request'.reply = kind
                 /\ request'.streaming = r.streaming /\ request'.stage = "returned"
      <3> DEFINE done == Returned(clear, kind)
      <3>1. /\ done \in RequestRecord /\ done.stage = "returned" /\ done.reply = kind
            /\ done.streaming = r.streaming /\ done.outer = FALSE /\ done.who = r.who
            /\ done.inner = r.inner /\ done.streamed = r.streamed
            /\ done.persistent = r.persistent /\ done.attempt = r.attempt
        BY <2>1, <2>2, <1>k, ReturnedType
      <3> HIDE DEF done
      <3>2. request' \in RequestRecord
        BY <2>8, <2>7, <3>1 DEF done, RequestRecord
      <3>3. /\ request'.same = same /\ request'.stage = done.stage /\ request'.reply = done.reply
            /\ request'.streaming = done.streaming /\ request'.outer = done.outer
            /\ request'.who = done.who /\ request'.inner = done.inner
            /\ request'.streamed = done.streamed /\ request'.persistent = done.persistent
            /\ request'.attempt = done.attempt
        BY <2>8, <3>1 DEF done, RequestRecord
      <3>4. Flags(request') /\ Course(request') /\ Segments(request', view')
        BY <3>1, <3>3, <2>4, <1>k DEF Flags, Course, Segments, Good
      <3>5. r.attempt \in Nat /\ r.attempt <= Retries + 1
        BY ConstantTypes DEF RequestRecord, Attempts
      <3>6. IF r.persistent THEN same = SameErrors ELSE r.attempt = Retries + 1
        BY <2>8, <2>7, <3>5, ConstantTypes DEF Exhausted
      <3>7. Honest(request')
        BY <3>1, <3>3, <3>6 DEF Honest
      <3> QED
        BY <3>1, <3>2, <3>3, <3>4, <3>7
    <2>9. ASSUME NEW same \in SameInRow(r), ~Exhausted(r, same),
                 request' = [clear EXCEPT !.stage = "attempt", !.same = same,
                                          !.attempt = IF r.persistent THEN @ ELSE @ + 1]
          PROVE  request' \in RequestRecord /\ Flags(request') /\ Course(request')
                 /\ Honest(request') /\ Segments(request', view')
                 /\ request'.streaming = r.streaming /\ request'.stage = "attempt"
      <3> DEFINE next == IF r.persistent THEN clear.attempt ELSE clear.attempt + 1
      <3>1. r.attempt \in Nat /\ r.attempt <= Retries + 1
        BY ConstantTypes DEF RequestRecord, Attempts
      <3>2. next \in Attempts /\ same < SameErrors
        BY <3>1, <2>2, <2>7, <2>9, ConstantTypes DEF Exhausted, Attempts
      <3>3. request' = [clear EXCEPT !.stage = "attempt", !.same = same, !.attempt = next]
        BY <2>9
      <3> HIDE DEF next
      <3>4. request' \in RequestRecord
        BY <3>2, <3>3, <2>1, <2>7, FieldTypes DEF RequestRecord
      <3>5. /\ request'.stage = "attempt" /\ request'.same = same /\ request'.outer = clear.outer
            /\ request'.inner = clear.inner /\ request'.streamed = clear.streamed
            /\ request'.streaming = clear.streaming
        BY <3>3, <2>1 DEF RequestRecord
      <3>6. Flags(request') /\ Course(request') /\ Honest(request') /\ Segments(request', view')
        BY <3>2, <3>5, <2>1, <2>2, <2>4 DEF Flags, Course, Honest, Segments
      <3> QED
        BY <3>4, <3>5, <3>6, <2>2
    <2> QED
      BY <2>3, <2>4, <2>5, <2>6, <2>8, <2>9
  <1> QED
    BY <1>1, <1>2

LEMMA StreamsType ==
  ASSUME NEW kind, NEW streamed \in Streams(kind)
  PROVE  /\ streamed \in Streamings
         /\ ~request.streaming => streamed = "none"
         /\ request.streaming /\ kind \in {"answer", "length"} => streamed = "text"
  BY DEF Streams, Streamings

\* A breaker whose state and count agree.
Agrees(b) == b \in Breakers /\ (b.state # "closed" <=> b.failures >= Threshold)

LEMMA BreakerSteps ==
  ASSUME NEW b, Agrees(b)
  PROVE  /\ Agrees(Succeeded(b)) /\ Agrees(Failed(b))
         /\ b.state = "open" => Agrees([b EXCEPT !.state = "cooled"])
  <1>0. b \in Breakers /\ b.failures \in Nat
    BY ConstantTypes DEF Agrees, Breakers
  <1>1. Agrees(Succeeded(b))
    BY ConstantTypes DEF Agrees, Breakers, Succeeded, Closed
  <1>2. Agrees(Failed(b))
    <2>1. CASE b.failures + 1 >= Threshold
      BY <2>1, ConstantTypes DEF Agrees, Breakers, Failed
    <2>2. CASE ~(b.failures + 1 >= Threshold)
      BY <2>2, <1>0, ConstantTypes DEF Agrees, Breakers, Failed
    <2> QED
      BY <2>1, <2>2
  <1>3. ASSUME b.state = "open" PROVE Agrees([b EXCEPT !.state = "cooled"])
    BY <1>0, <1>3 DEF Agrees, Breakers
  <1> QED
    BY <1>1, <1>2, <1>3

LEMMA BreakerAgrees == breaker \in Breakers /\ BreakerConsistent <=> Agrees(breaker)
  BY DEF BreakerConsistent, Agrees

LEMMA BreakerAgreesNext ==
  ASSUME Agrees(breaker')
  PROVE  breaker' \in Breakers /\ BreakerConsistent'
  BY DEF BreakerConsistent, Agrees

-----------------------------------------------------------------------------
(* The steps of a request. *)

\* What a step of the request in flight leaves, whose responses may be of kinds.
RequestKept(kinds) ==
  /\ RequestInv'
  /\ request'.streaming = request.streaming /\ request'.stage # "none"
  /\ request'.stage = "returned" => request'.reply \in kinds \union Errors
  /\ ~request.streaming /\ view.segment = <<>> => view'.segment = <<>>

LEMMA AttemptStep ==
  ASSUME NEW kinds, RequestInv, Attempt
  PROVE  RequestKept(kinds)
  <1> DEFINE stage == IF Fallbacks = 0 \/ breaker.state # "open" THEN "primary" ELSE "next"
  <1>0. request \in RequestRecord /\ view \in Views
    BY DEF RequestInv, RequestShape
  <1>1. /\ request.stage = "attempt"
        /\ request' = [request EXCEPT !.inner = FALSE, !.last = NoReply, !.streamed = "none",
                                      !.who = 0, !.stage = stage]
        /\ UNCHANGED <<breaker, images, view>>
    BY DEF Attempt
  <1>2. stage \in RequestStages /\ stage \in {"primary", "next"}
    BY FieldTypes
  <1> HIDE DEF stage
  <1>3. request' \in RequestRecord
    BY <1>0, <1>1, <1>2, FieldTypes DEF RequestRecord
  <1>4. /\ request'.stage = stage /\ request'.inner = FALSE /\ request'.streamed = "none"
        /\ request'.outer = request.outer /\ request'.same = request.same
        /\ request'.streaming = request.streaming
    BY <1>0, <1>1 DEF RequestRecord
  <1>5. Flags(request') /\ Course(request') /\ Honest(request') /\ Segments(request', view')
    BY <1>1, <1>2, <1>4 DEF RequestInv, Flags, Course, Honest, Segments
  <1>6. RequestShape' /\ BreakerConsistent'
    BY <1>1, <1>3 DEF RequestInv, RequestShape, BreakerConsistent
  <1> QED
    BY <1>1, <1>2, <1>4, <1>5, <1>6 DEF RequestKept, RequestInv

LEMMA PrimarySucceedsStep ==
  ASSUME NEW kinds, NEW kind \in kinds \union Failures, NEW streamed \in Streams(kind),
         RequestInv, PrimarySucceeds(kind, streamed)
  PROVE  RequestKept(kinds)
  <1> DEFINE h == Heard(request, streamed)
  <1>0. request \in RequestRecord /\ view \in Views /\ images \in BOOLEAN /\ kind \in Good
        /\ request.stage = "primary" /\ kind \in kinds /\ kind \notin Errors
    BY DEF RequestInv, RequestShape, PrimarySucceeds, Good, Failures, Errors
  <1>1. streamed \in Streamings /\ (~request.streaming => streamed = "none")
        /\ (request.streaming /\ kind \in {"answer", "length"} => streamed = "text")
    BY StreamsType
  <1>2. ~request.outer /\ ~request.inner /\ Repeatable(view.segment)
    BY <1>0 DEF RequestInv, Flags, Segments
  <1>3. /\ h \in RequestRecord /\ h.outer = (streamed # "none") /\ h.inner = (streamed # "none")
        /\ h.streamed = streamed /\ h.streaming = request.streaming
    BY <1>0, <1>1, <1>2, HeardType
  <1>4. /\ request' = Returned(h, kind) /\ view' = Shown(view, kind, streamed)
        /\ images' = (images /\ ~(request.bare /\ kind \in Good))
        /\ breaker' = breaker \/ breaker' = Succeeded(breaker)
    BY DEF PrimarySucceeds, StripImages
  <1> HIDE DEF h
  <1>5. /\ request' \in RequestRecord /\ request'.stage = "returned" /\ request'.reply = kind
        /\ request'.streaming = h.streaming /\ request'.outer = h.outer
        /\ request'.inner = h.inner /\ request'.streamed = h.streamed
    BY <1>0, <1>3, <1>4, ReturnedType
  <1>6. Flags(request') /\ Course(request') /\ Honest(request')
    BY <1>0, <1>1, <1>3, <1>5 DEF Flags, Course, Honest
  <1>7. view' \in Views /\ Segments(request', view')
    BY <1>0, <1>2, <1>4, <1>5, ShownType DEF Segments
  <1>8. breaker' \in Breakers /\ BreakerConsistent'
    BY <1>4, BreakerAgrees, BreakerSteps, BreakerAgreesNext DEF RequestInv, RequestShape
  <1>9. images' \in BOOLEAN
    BY <1>0, <1>4
  <1>10. ~request.streaming /\ view.segment = <<>> => view'.segment = <<>>
    BY <1>0, <1>1, <1>4, ShownType
  <1> QED
    BY <1>0, <1>3, <1>5, <1>6, <1>7, <1>8, <1>9, <1>10 DEF RequestKept, RequestInv, RequestShape

LEMMA FallbackReturnsStep ==
  ASSUME NEW kinds, NEW kind \in (kinds \intersect Good) \union Failures, NEW streamed \in Streams(kind),
         RequestInv, FallbackReturns(kind, streamed)
  PROVE  RequestKept(kinds)
  <1> DEFINE h == Heard(request, streamed)
  <1>0. request \in RequestRecord /\ view \in Views /\ images \in BOOLEAN
        /\ request.stage = "fallback" /\ kind \in Good \union Errors
    BY DEF RequestInv, RequestShape, FallbackReturns, Errors
  <1>1. streamed \in Streamings /\ (~request.streaming => streamed = "none")
        /\ (request.streaming /\ kind \in {"answer", "length"} => streamed = "text")
    BY StreamsType
  <1>2. ~request.outer /\ ~request.inner /\ Repeatable(view.segment) /\ request.same < SameErrors
    BY <1>0 DEF RequestInv, Flags, Segments, Course
  <1>3. /\ h \in RequestRecord /\ h.outer = (streamed # "none") /\ h.inner = (streamed # "none")
        /\ h.streamed = streamed /\ h.streaming = request.streaming /\ h.same = request.same
    BY <1>0, <1>1, <1>2, HeardType
  <1>4. /\ request' = IF kind \in Good THEN Returned(h, kind) ELSE [h EXCEPT !.stage = "next", !.last = kind]
        /\ view' = Shown(view, kind, streamed)
        /\ images' = (images /\ ~(request.bare /\ kind \in Good)) /\ UNCHANGED breaker
    BY DEF FallbackReturns, StripImages
  <1> HIDE DEF h
  <1>5. view' \in Views /\ OneAttempt(view'.segment)
        /\ (streamed = "none" => view' = view)
        /\ (kind = "badtools" => Repeatable(view'.segment))
    BY <1>0, <1>2, <1>4, ShownType
  <1>6. /\ request' \in RequestRecord /\ Flags(request') /\ Course(request') /\ Honest(request')
        /\ Segments(request', view') /\ request'.streaming = request.streaming
        /\ request'.stage # "none" /\ (request'.stage = "returned" => request'.reply \in kinds)
    <2>1. CASE kind \in Good
      <3>1. /\ request' \in RequestRecord /\ request'.stage = "returned" /\ request'.reply = kind
            /\ request'.streaming = h.streaming /\ request'.outer = h.outer
            /\ request'.inner = h.inner /\ request'.streamed = h.streamed
        BY <2>1, <1>0, <1>3, <1>4, ReturnedType
      <3>2. kind \in kinds /\ kind \notin Errors
        BY <2>1 DEF Good, Failures, Errors
      <3> QED
        BY <3>1, <3>2, <1>1, <1>3, <1>5 DEF Flags, Course, Honest, Segments
    <2>2. CASE kind \notin Good
      <3>1. kind \in Lasts
        BY <2>2, <1>0, FieldTypes
      <3>2. request' = [h EXCEPT !.stage = "next", !.last = kind]
        BY <2>2, <1>4
      <3>3. request' \in RequestRecord
        BY <3>1, <3>2, <1>3, FieldTypes DEF RequestRecord
      <3>4. /\ request'.stage = "next" /\ request'.streaming = h.streaming /\ request'.outer = h.outer
            /\ request'.inner = h.inner /\ request'.streamed = h.streamed /\ request'.same = h.same
        BY <3>2, <1>3 DEF RequestRecord
      <3>5. Flags(request') /\ Course(request') /\ Honest(request')
        BY <3>4, <1>1, <1>2, <1>3 DEF Flags, Course, Honest
      <3>6. Segments(request', view')
        BY <3>4, <1>2, <1>3, <1>5 DEF Segments
      <3> QED
        BY <3>3, <3>4, <3>5, <3>6, <1>3
    <2> QED
      BY <2>1, <2>2
  <1>7. images' \in BOOLEAN /\ breaker' \in Breakers /\ BreakerConsistent'
    BY <1>0, <1>4 DEF RequestInv, RequestShape, BreakerConsistent
  <1>8. ~request.streaming /\ view.segment = <<>> => view'.segment = <<>>
    BY <1>1, <1>5
  <1> QED
    BY <1>5, <1>6, <1>7, <1>8 DEF RequestKept, RequestInv, RequestShape

LEMMA PrimaryFailsStep ==
  ASSUME NEW kinds, NEW kind \in kinds \union Failures, NEW streamed \in Streams(kind),
         RequestInv, PrimaryFails(kind, streamed)
  PROVE  RequestKept(kinds)
  <1> DEFINE h == Heard(request, streamed)
             v == Shown(view, kind, streamed)
             stalled == h.inner /\ kind = "timeout"
             clear == IF stalled THEN [h EXCEPT !.inner = FALSE, !.outer = FALSE] ELSE h
  <1>0. request \in RequestRecord /\ view \in Views /\ images \in BOOLEAN
        /\ request.stage = "primary" /\ kind \in Errors /\ kind \in Good \union Errors
        /\ images' = images
    BY DEF RequestInv, RequestShape, PrimaryFails
  <1>1. streamed \in Streamings /\ (~request.streaming => streamed = "none")
    BY StreamsType
  <1>2. ~request.outer /\ ~request.inner /\ Repeatable(view.segment) /\ request.same < SameErrors
    BY <1>0 DEF RequestInv, Flags, Segments, Course
  <1>3. /\ h \in RequestRecord /\ h.outer = (streamed # "none") /\ h.inner = (streamed # "none")
        /\ h.streamed = streamed /\ h.streaming = request.streaming /\ h.same = request.same
        /\ h.who = request.who
    BY <1>0, <1>1, <1>2, HeardType
  <1>4. v \in Views /\ OneAttempt(v.segment) /\ (streamed = "none" => v = view)
    BY <1>0, <1>2, ShownType, RepeatableIsOne
  <1>5. \/ /\ Fallbacks = 0 \/ (h.inner /\ ~stalled) \/ kind \notin Fallbackable
           /\ Conclude(h, v, kind) /\ UNCHANGED breaker
        \/ /\ ~(h.inner /\ ~stalled)
           /\ breaker' = Failed(breaker)
           /\ request' = [clear EXCEPT !.stage = "next"]
           /\ view' = IF stalled THEN Ended(v, TRUE) ELSE v
    BY DEF PrimaryFails
  <1> HIDE DEF h, v
  <1>6. CASE /\ Fallbacks = 0 \/ (h.inner /\ ~stalled) \/ kind \notin Fallbackable
             /\ Conclude(h, v, kind) /\ UNCHANGED breaker
    <2>1. kind \in Fallbackable => h.who = Fallbacks \/ h.streamed # "none"
      BY <1>0, <1>3, <1>6 DEF RequestRecord, Providers
    <2>2. /\ request' \in RequestRecord /\ view' \in Views
          /\ Flags(request') /\ Course(request') /\ Honest(request') /\ Segments(request', view')
          /\ request'.streaming = h.streaming /\ request'.stage \in {"attempt", "returned"}
          /\ request'.stage = "returned" => request'.reply = kind
          /\ view' = v \/ view'.segment = <<>>
      BY <1>0, <1>1, <1>2, <1>3, <1>4, <1>6, <2>1, ConcludeInv
    <2>3. RequestShape' /\ BreakerConsistent'
      BY <1>0, <1>6, <2>2 DEF RequestInv, RequestShape, BreakerConsistent
    <2> QED
      BY <1>0, <1>1, <1>3, <1>4, <2>2, <2>3 DEF RequestKept, RequestInv
  <1>7. CASE /\ ~(h.inner /\ ~stalled)
             /\ breaker' = Failed(breaker)
             /\ request' = [clear EXCEPT !.stage = "next"]
             /\ view' = IF stalled THEN Ended(v, TRUE) ELSE v
    <2>1. /\ clear \in RequestRecord /\ clear.streaming = h.streaming
          /\ clear.streamed = streamed /\ clear.same = h.same
          /\ clear.inner = FALSE /\ clear.outer = FALSE
      <3>1. CASE stalled
        <4>1. clear = [h EXCEPT !.inner = FALSE, !.outer = FALSE]
          BY <3>1
        <4> HIDE DEF clear
        <4> QED
          BY <4>1, <1>3 DEF RequestRecord
      <3>2. CASE ~stalled
        BY <3>2, <1>3, <1>7
      <3> QED
        BY <3>1, <3>2
    <2> HIDE DEF clear
    <2>2. request' \in RequestRecord
      BY <1>7, <2>1, FieldTypes DEF RequestRecord
    <2>3. /\ request'.stage = "next" /\ request'.streaming = clear.streaming
          /\ request'.outer = clear.outer /\ request'.inner = clear.inner
          /\ request'.streamed = clear.streamed /\ request'.same = clear.same
      BY <1>7, <2>1 DEF RequestRecord
    <2>4. /\ view' \in Views /\ Repeatable(view'.segment) /\ OneAttempt(view'.segment)
          /\ (view' = view \/ view'.segment = <<>>)
      BY <1>0, <1>2, <1>3, <1>4, <1>7, EndedType, RepeatableIsOne
    <2>5. Flags(request') /\ Course(request') /\ Honest(request') /\ Segments(request', view')
      BY <1>1, <1>2, <1>3, <2>1, <2>3, <2>4 DEF Flags, Course, Honest, Segments
    <2>6. breaker' \in Breakers /\ BreakerConsistent'
      BY <1>7, BreakerAgrees, BreakerSteps, BreakerAgreesNext DEF RequestInv, RequestShape
    <2> QED
      BY <1>0, <1>3, <2>1, <2>2, <2>3, <2>4, <2>5, <2>6 DEF RequestKept, RequestInv, RequestShape
  <1> QED
    BY <1>5, <1>6, <1>7

LEMMA GiveUpStep ==
  ASSUME NEW kinds, RequestInv, GiveUp
  PROVE  RequestKept(kinds)
  <1> DEFINE kind == IF request.last = NoReply THEN "synthetic" ELSE request.last
  <1>0. request \in RequestRecord /\ view \in Views /\ images \in BOOLEAN /\ request.stage = "next"
    BY DEF RequestInv, RequestShape, GiveUp
  <1>1. kind \in Errors
    BY <1>0 DEF RequestRecord, Lasts, Errors
  <1>2. /\ request.who = Fallbacks \/ (request.inner /\ request.last # "timeout")
        /\ Conclude(request, view, kind) /\ UNCHANGED <<breaker, images>>
    BY DEF GiveUp
  <1>3. /\ request.outer => request.inner
        /\ request.inner => request.streamed # "none" /\ request.outer
        /\ ~request.streaming => request.streamed = "none"
        /\ request.same < SameErrors
        /\ OneAttempt(view.segment) /\ (~request.outer => Repeatable(view.segment))
    BY <1>0 DEF RequestInv, Flags, Course, Segments
  <1> HIDE DEF kind
  <1>4. /\ request' \in RequestRecord /\ view' \in Views
        /\ Flags(request') /\ Course(request') /\ Honest(request') /\ Segments(request', view')
        /\ request'.streaming = request.streaming /\ request'.stage \in {"attempt", "returned"}
        /\ request'.stage = "returned" => request'.reply = kind
        /\ view' = view \/ view'.segment = <<>>
    BY <1>0, <1>1, <1>2, <1>3, ConcludeInv
  <1>5. RequestShape' /\ BreakerConsistent'
    BY <1>2, <1>4 DEF RequestInv, RequestShape, BreakerConsistent
  <1> QED
    BY <1>1, <1>4, <1>5 DEF RequestKept, RequestInv

LEMMA CallRaisesStep ==
  ASSUME NEW kinds, RequestInv, CallRaises
  PROVE  RequestKept(kinds)
  <1>0. request \in RequestRecord /\ view \in Views /\ images \in BOOLEAN
        /\ request.stage \in {"primary", "fallback"}
    BY DEF RequestInv, RequestShape, CallRaises
  <1>1. PICK kind \in {"outage", "fatal"} :
          Conclude(request, view, kind) /\ UNCHANGED <<breaker, images>>
    BY DEF CallRaises
  <1>2. kind \in Errors /\ kind \notin Fallbackable
    BY DEF Errors, Failures, Fallbackable
  <1>3. /\ request.outer => request.inner
        /\ request.inner => request.streamed # "none"
        /\ ~request.streaming => request.streamed = "none"
        /\ request.same < SameErrors
        /\ OneAttempt(view.segment) /\ Repeatable(view.segment)
    BY <1>0 DEF RequestInv, Flags, Course, Segments
  <1>4. /\ request' \in RequestRecord /\ view' \in Views
        /\ Flags(request') /\ Course(request') /\ Honest(request') /\ Segments(request', view')
        /\ request'.streaming = request.streaming /\ request'.stage \in {"attempt", "returned"}
        /\ request'.stage = "returned" => request'.reply = kind
        /\ view' = view \/ view'.segment = <<>>
    BY <1>0, <1>1, <1>2, <1>3, ConcludeInv
  <1>5. RequestShape' /\ BreakerConsistent'
    BY <1>1, <1>4 DEF RequestInv, RequestShape, BreakerConsistent
  <1> QED
    BY <1>2, <1>4, <1>5 DEF RequestKept, RequestInv

LEMMA NextFallbackStep ==
  ASSUME NEW kinds, NEW created \in BOOLEAN, RequestInv, NextFallback(created)
  PROVE  RequestKept(kinds)
  <1> DEFINE stalled == request.inner /\ request.last = "timeout"
             stage == IF created THEN "fallback" ELSE "next"
             outer == request.outer /\ ~stalled
  <1>0. request \in RequestRecord /\ view \in Views /\ request.stage = "next"
        /\ request.who < Fallbacks
    BY DEF RequestInv, RequestShape, NextFallback
  <1>1. /\ request.inner => stalled
        /\ request' = [request EXCEPT !.who = @ + 1, !.stage = stage, !.inner = FALSE, !.outer = @ /\ ~stalled]
        /\ view' = IF stalled THEN Ended(view, TRUE) ELSE view
        /\ UNCHANGED <<breaker, images>>
    BY DEF NextFallback
  <1>2. /\ request.outer => request.inner
        /\ ~request.streaming => request.streamed = "none"
        /\ request.same < SameErrors
        /\ OneAttempt(view.segment) /\ (~request.inner => Repeatable(view.segment))
    BY <1>0 DEF RequestInv, Flags, Course, Segments
  <1>3. ~outer
    BY <1>1, <1>2
  <1>4. request' = [request EXCEPT !.who = request.who + 1, !.stage = stage, !.inner = FALSE, !.outer = outer]
    BY <1>1, <1>0 DEF RequestRecord
  <1>5. stage \in {"fallback", "next"} /\ stage \in RequestStages /\ request.who + 1 \in Providers
        /\ outer \in BOOLEAN
    BY <1>0, ConstantTypes, FieldTypes DEF RequestRecord, Providers
  <1> DEFINE who == request.who + 1
  <1>6. view' \in Views /\ Repeatable(view'.segment) /\ OneAttempt(view'.segment)
        /\ (view' = view \/ view'.segment = <<>>)
    BY <1>0, <1>1, <1>2, EndedType
  <1> HIDE DEF stage, outer, stalled, who
  <1>7. request' \in RequestRecord
    <2>1. request' = [request EXCEPT !.who = who, !.stage = stage, !.inner = FALSE, !.outer = outer]
      BY <1>4 DEF who
    <2>2. who \in Providers
      BY <1>5 DEF who
    <2> QED
      BY <1>0, <1>5, <2>1, <2>2 DEF RequestRecord
  <1>8. /\ request'.stage = stage /\ request'.inner = FALSE /\ request'.outer = outer
        /\ request'.streamed = request.streamed /\ request'.streaming = request.streaming
        /\ request'.same = request.same
    BY <1>0, <1>4 DEF RequestRecord
  <1>9. Flags(request') /\ Course(request') /\ Honest(request') /\ Segments(request', view')
    BY <1>2, <1>3, <1>5, <1>6, <1>8 DEF Flags, Course, Honest, Segments
  <1>10. RequestShape' /\ BreakerConsistent'
    BY <1>1, <1>6, <1>7 DEF RequestInv, RequestShape, BreakerConsistent
  <1> QED
    BY <1>5, <1>6, <1>8, <1>9, <1>10 DEF RequestKept, RequestInv

LEMMA WallTimeoutStep ==
  ASSUME NEW kinds, RequestInv, WallTimeout
  PROVE  RequestKept(kinds)
  <1>0. request \in RequestRecord /\ request.walled /\ request.stage \notin {"none", "returned"}
    BY DEF RequestInv, RequestShape, WallTimeout
  <1>1. /\ request' = [request EXCEPT !.stage = "returned", !.reply = "timeout"]
        /\ UNCHANGED <<breaker, images, view>>
    BY DEF WallTimeout
  <1>2. "timeout" \in Errors /\ "timeout" \in Replies
    BY FieldTypes DEF Errors, Failures
  <1>3. request' \in RequestRecord
    BY <1>0, <1>1, <1>2, FieldTypes DEF RequestRecord
  <1>4. /\ request'.stage = "returned" /\ request'.reply = "timeout"
        /\ request'.walled = request.walled /\ request'.streaming = request.streaming
        /\ request'.outer = request.outer /\ request'.inner = request.inner
        /\ request'.streamed = request.streamed
    BY <1>0, <1>1 DEF RequestRecord
  <1>5. Flags(request') /\ Course(request') /\ Honest(request') /\ Segments(request', view')
    BY <1>0, <1>1, <1>4 DEF RequestInv, Flags, Course, Honest, Segments
  <1>6. RequestShape' /\ BreakerConsistent'
    BY <1>1, <1>3 DEF RequestInv, RequestShape, BreakerConsistent
  <1> QED
    BY <1>1, <1>2, <1>4, <1>5, <1>6 DEF RequestKept, RequestInv

\* Every step of a request keeps what the request promises.
LEMMA RequestStepInv ==
  ASSUME NEW kinds, kinds \subseteq Good, RequestInv, RequestStep(kinds)
  PROVE  RequestKept(kinds)
  <1>1. ASSUME NEW kind \in kinds \union Failures, NEW streamed \in Streams(kind),
               FallbackReturns(kind, streamed)
        PROVE  RequestKept(kinds)
    BY <1>1, FallbackReturnsStep
  <1>2. ASSUME NEW kind \in kinds \union Failures, NEW streamed \in Streams(kind),
               PrimarySucceeds(kind, streamed)
        PROVE  RequestKept(kinds)
    BY <1>2, PrimarySucceedsStep
  <1>3. ASSUME NEW kind \in kinds \union Failures, NEW streamed \in Streams(kind),
               PrimaryFails(kind, streamed)
        PROVE  RequestKept(kinds)
    BY <1>3, PrimaryFailsStep
  <1>4. ASSUME NEW created \in BOOLEAN, NextFallback(created)
        PROVE  RequestKept(kinds)
    BY <1>4, NextFallbackStep
  <1> QED
    BY <1>1, <1>2, <1>3, <1>4, AttemptStep, GiveUpStep, CallRaisesStep, WallTimeoutStep
       DEF RequestStep

\* The requests of the other sessions touch nothing but the breaker.
LEMMA OthersStep ==
  ASSUME RequestInv, Others
  PROVE  RequestInv' /\ UNCHANGED <<request, images, view>>
  <1>1. UNCHANGED <<request, images, view>> /\ Agrees(breaker')
    BY BreakerAgrees, BreakerSteps
       DEF RequestInv, RequestShape, Others, OthersSucceed, OthersFail, CoolDown
  <1> QED
    BY <1>1, BreakerAgreesNext DEF RequestInv, RequestShape, Flags, Course, Honest, Segments

-----------------------------------------------------------------------------
(* The loop. *)

RunStages == {"ask", "tools", "failed", "emptied"} \union Purposes \union Ends
Iterations == 0..MaxIterations
LengthCounts == 0..MaxLengths
CycleCounts == 0..MaxCycles
FollowUpCounts == 0..MaxFollowUps

RunRecord ==
  [stage : RunStages, streaming : BOOLEAN, persistent : BOOLEAN, finalize : BOOLEAN,
   iteration : Iterations, empties : Iterations, lengths : LengthCounts, cycles : CycleCounts,
   followUps : FollowUpCounts]

\* An empty response and the iteration it takes are counted together, but for
\* the last one, whose iteration goes on with a request for a text.
Counted(r) ==
  /\ r.stage \in {"main", "again", "untooled", "finalize", "tools", "failed", "emptied"} =>
       r.iteration < MaxIterations
  /\ r.stage \in {"ask", "tools", "budget", "main", "again", "untooled"} => r.empties <= r.iteration
  /\ r.stage \in {"finalize", "failed", "emptied"} => r.empties <= r.iteration + 1

LoopShape ==
  /\ run \in RunRecord /\ Counted(run)
  /\ pending \in Nat /\ pending <= run.followUps
  /\ goal \in BOOLEAN /\ unread \in BOOLEAN /\ lost \subseteq Purposes
  /\ (request.stage = "none") <=> (run.stage \notin Purposes)

\* A request streams if it is one of the loop of a streaming turn, and only such
\* a one has tools.
Asked ==
  /\ request.streaming <=> (run.streaming /\ run.stage \in {"main", "again"})
  /\ request.stage = "returned" /\ request.reply \in {"tools", "badtools"} =>
       run.stage \in {"main", "again"}

\* Between requests the stream has no open text.
Stream ==
  /\ ~run.streaming => view.segment = <<>>
  /\ run.stage \notin {"main", "again", "untooled", "cancelled"} => view.segment = <<>>
  /\ run.streaming /\ run.stage \in ({"failed", "emptied"} \union Ends) \ {"cancelled", "continued"} =>
       view.stream = "final"

LoopInv ==
  /\ LoopShape /\ Asked /\ Stream
  /\ run.finalize /\ unread => run.stage = "ask"
  /\ StreamShowsAnswer

Inv == RequestInv /\ LoopInv

LEMMA RunConstants ==
  /\ MaxIterations \in Nat /\ MaxIterations > 0 /\ MaxEmpties \in Nat
  /\ MaxLengths \in Nat /\ MaxCycles \in Nat /\ MaxFollowUps \in Nat
  BY RunAssumption

LEMMA RunFields ==
  /\ {"ask", "tools", "failed", "emptied"} \union Purposes \union Ends \subseteq RunStages
  /\ 0 \in Iterations /\ 0 \in LengthCounts /\ 0 \in CycleCounts /\ 0 \in FollowUpCounts
  BY RunConstants DEF RunStages, Iterations, LengthCounts, CycleCounts, FollowUpCounts

LEMMA EndStreamType ==
  ASSUME NEW resuming \in BOOLEAN, Inv, EndStream(resuming)
  PROVE  /\ view' \in Views /\ view'.segment = <<>>
         /\ run.streaming => view'.stream = IF resuming THEN "resuming" ELSE "final"
  <1>1. view \in Views /\ (~run.streaming => view.segment = <<>>)
    BY DEF Inv, RequestInv, RequestShape, LoopInv, Stream
  <1> QED
    BY <1>1 DEF EndStream, Ended, Views

\* The loop goes on with another iteration.
LEMMA ContinueStep ==
  ASSUME Inv, NEW r \in RunRecord, Continue(r), UNCHANGED <<breaker, images>>,
         r.streaming = run.streaming, r.followUps = run.followUps,
         r.iteration < MaxIterations, r.empties <= r.iteration + 1,
         view' \in Views, view'.segment = <<>>,
         pending' \in Nat, pending' <= run.followUps, goal' \in BOOLEAN, unread' \in BOOLEAN,
         lost' \subseteq Purposes, run.streaming => lost' \subseteq {"untooled", "finalize"}
  PROVE  Inv'
  <1> DEFINE next == r.iteration + 1
  <1>1. run' = [r EXCEPT !.stage = "ask", !.iteration = next] /\ request' = NoRequest
    BY DEF Continue, RunRecord
  <1>2. next \in Iterations /\ r.empties <= next
    BY RunConstants DEF RunRecord, Iterations
  <1> HIDE DEF next
  <1>3. run' \in RunRecord
    BY <1>1, <1>2, RunFields DEF RunRecord
  <1>4. /\ run'.stage = "ask" /\ run'.iteration = next /\ run'.empties = r.empties
        /\ run'.streaming = run.streaming /\ run'.followUps = run.followUps
    BY <1>1 DEF RunRecord
  <1>5. LoopShape'
    BY <1>1, <1>2, <1>3, <1>4, NoRequestType DEF LoopShape, Counted, Purposes
  <1>6. Asked' /\ Stream'
    BY <1>1, <1>4, NoRequestType DEF Asked, Stream, Ends
  <1>7. LoopInv'
    BY <1>4, <1>5, <1>6 DEF LoopInv, StreamShowsAnswer
  <1>8. RequestInv'
    BY <1>1, NoRequestType, EndedType
       DEF Inv, RequestInv, RequestShape, Segments, OneAttempt, BreakerConsistent
  <1> QED
    BY <1>7, <1>8 DEF Inv

\* The loop is done with its request.
LEMMA DoneStep ==
  ASSUME Inv, NEW reason \in {"tools", "failed", "emptied"} \union Ends, Done(run, reason),
         UNCHANGED <<breaker, images>>,
         reason \in {"tools", "failed", "emptied"} => run.iteration < MaxIterations,
         reason = "tools" => run.empties <= run.iteration,
         reason \in {"failed", "emptied"} => run.empties <= run.iteration + 1,
         view' \in Views, OneAttempt(view'.segment),
         ~run.streaming \/ reason # "cancelled" => view'.segment = <<>>,
         run.streaming /\ reason \notin {"tools", "cancelled", "continued"} => view'.stream = "final",
         pending' \in Nat, pending' <= run.followUps, goal' \in BOOLEAN, unread' \in BOOLEAN,
         run.finalize => ~unread',
         lost' \subseteq Purposes, run.streaming => lost' \subseteq {"untooled", "finalize"}
  PROVE  Inv'
  <1>0. run \in RunRecord
    BY DEF Inv, LoopInv, LoopShape
  <1>1. run' = [run EXCEPT !.stage = reason] /\ request' = NoRequest
    BY DEF Done
  <1>2. reason \in RunStages /\ reason \notin Purposes /\ reason # "ask"
    BY RunFields DEF Ends, Purposes
  <1>3. run' \in RunRecord
    BY <1>0, <1>1, <1>2 DEF RunRecord
  <1>4. /\ run'.stage = reason /\ run'.iteration = run.iteration /\ run'.empties = run.empties
        /\ run'.streaming = run.streaming /\ run'.followUps = run.followUps
        /\ run'.finalize = run.finalize
    BY <1>0, <1>1 DEF RunRecord
  <1>5. LoopShape'
    BY <1>1, <1>2, <1>3, <1>4, NoRequestType DEF LoopShape, Counted, Ends
  <1>6. Asked' /\ Stream'
    BY <1>1, <1>4, NoRequestType DEF Asked, Stream, Ends
  <1>7. LoopInv'
    BY <1>2, <1>4, <1>5, <1>6 DEF LoopInv, StreamShowsAnswer
  <1>8. RequestInv'
    BY <1>1, NoRequestType
       DEF Inv, RequestInv, RequestShape, Segments, BreakerConsistent
  <1> QED
    BY <1>7, <1>8 DEF Inv

\* The loop sends another request.
LEMMA RequestSent ==
  ASSUME Inv, NEW r \in RunRecord, NEW purpose \in Purposes, Request(r, purpose),
         UNCHANGED <<breaker, images, goal, lost>>, pending' \in Nat, pending' <= run.followUps,
         r.streaming = run.streaming, r.followUps = run.followUps,
         purpose # "budget" => r.iteration < MaxIterations,
         purpose # "finalize" => r.empties <= r.iteration, r.empties <= r.iteration + 1,
         view' \in Views, Repeatable(view'.segment),
         ~run.streaming \/ purpose \in {"finalize", "budget"} => view'.segment = <<>>
  PROVE  Inv'
  <1> DEFINE looped == purpose \in {"main", "again"}
  <1>1. /\ request' = Started(looped /\ r.streaming, looped /\ ~r.streaming, r.persistent)
        /\ run' = [r EXCEPT !.stage = purpose] /\ unread' = FALSE
    BY DEF Request
  <1>2. r.streaming \in BOOLEAN /\ r.persistent \in BOOLEAN
    BY DEF RunRecord
  <1>3. /\ request' \in RequestRecord /\ request'.stage = "attempt"
        /\ request'.streaming = (looped /\ r.streaming)
        /\ Flags(request') /\ Course(request') /\ Honest(request')
    <2>1. (looped /\ r.streaming) \in BOOLEAN /\ (looped /\ ~r.streaming) \in BOOLEAN
      OBVIOUS
    <2> QED
      BY <1>1, <1>2, <2>1, StartedType
  <1>4. run' \in RunRecord
    BY <1>1, RunFields DEF RunRecord
  <1>5. /\ run'.stage = purpose /\ run'.iteration = r.iteration /\ run'.empties = r.empties
        /\ run'.streaming = run.streaming /\ run'.followUps = run.followUps
    BY <1>1 DEF RunRecord
  <1>6. LoopShape'
    BY <1>1, <1>3, <1>4, <1>5 DEF Inv, LoopInv, LoopShape, Counted, Purposes
  <1>7. Asked' /\ Stream'
    BY <1>3, <1>5 DEF Asked, Stream, Purposes, Ends
  <1>8. LoopInv'
    BY <1>1, <1>5, <1>6, <1>7 DEF Inv, LoopInv, StreamShowsAnswer
  <1>9. RequestInv'
    BY <1>3, RepeatableIsOne DEF Inv, RequestInv, RequestShape, Segments, BreakerConsistent
  <1> QED
    BY <1>8, <1>9 DEF Inv

\* What every step of the loop finds.
LEMMA LoopFacts ==
  ASSUME Inv
  PROVE  /\ run \in RunRecord /\ view \in Views /\ OneAttempt(view.segment)
         /\ run.iteration \in Nat /\ run.empties \in Nat /\ run.lengths \in Nat /\ run.cycles \in Nat
         /\ run.cycles <= MaxCycles /\ run.lengths <= MaxLengths
         /\ run.streaming \in BOOLEAN /\ run.followUps \in Nat
         /\ Counted(run) /\ pending \in Nat /\ pending <= run.followUps
         /\ goal \in BOOLEAN /\ unread \in BOOLEAN /\ lost \subseteq Purposes
         /\ (run.streaming => lost \subseteq {"untooled", "finalize"})
         /\ Stream /\ Asked
         /\ (run.finalize /\ run.stage # "ask" => ~unread)
         /\ (Answered => run.stage \in Purposes)
  <1>1. run \in RunRecord
    BY DEF Inv, LoopInv, LoopShape
  <1>2. /\ run.iteration \in Nat /\ run.empties \in Nat /\ run.lengths \in Nat /\ run.cycles \in Nat
        /\ run.cycles <= MaxCycles /\ run.lengths <= MaxLengths
        /\ run.streaming \in BOOLEAN /\ run.followUps \in Nat
    BY <1>1, RunConstants DEF RunRecord, Iterations, LengthCounts, CycleCounts, FollowUpCounts
  <1> QED
    BY <1>1, <1>2 DEF Inv, LoopInv, LoopShape, RequestInv, RequestShape, Segments, Answered,
                      StreamShowsAnswer

\* The run with its counters moved on, within their limits.
LEMMA MovedOn ==
  ASSUME NEW r \in RunRecord, NEW e \in Iterations, NEW l \in LengthCounts, NEW c \in CycleCounts,
         NEW q, q = [r EXCEPT !.empties = e, !.lengths = l, !.cycles = c]
  PROVE  /\ q \in RunRecord /\ q.streaming = r.streaming /\ q.followUps = r.followUps
         /\ q.iteration = r.iteration /\ q.empties = e
  <1>1. q \in RunRecord
    BY DEF RunRecord
  <1> QED
    BY <1>1 DEF RunRecord

LEMMA DrainedType ==
  ASSUME NEW r \in RunRecord, run \in RunRecord, r.cycles = run.cycles, Drains
  PROVE  LET q == [r EXCEPT !.cycles = @ + 1]
         IN  /\ q \in RunRecord /\ q.streaming = r.streaming /\ q.followUps = r.followUps
             /\ q.iteration = r.iteration /\ q.empties = r.empties
  <1> DEFINE c == r.cycles + 1
  <1>1. c \in CycleCounts
    BY RunConstants DEF Drains, RunRecord, CycleCounts
  <1>2. [r EXCEPT !.cycles = @ + 1] = [r EXCEPT !.cycles = c]
    BY DEF RunRecord
  <1> HIDE DEF c
  <1>3. [r EXCEPT !.cycles = c] \in RunRecord
    BY <1>1 DEF RunRecord
  <1> QED
    BY <1>2, <1>3 DEF RunRecord

LEMMA AskStep ==
  ASSUME Inv, Ask
  PROVE  Inv'
  <1>1. run.stage = "ask" /\ run.iteration < MaxIterations /\ Request(run, "main")
        /\ UNCHANGED <<breaker, images, view, pending, goal, lost>>
    BY DEF Ask
  <1>2. view.segment = <<>> /\ run.empties <= run.iteration
    BY <1>1, LoopFacts DEF Stream, Counted
  <1>3. view' \in Views /\ Repeatable(view'.segment) /\ view'.segment = <<>>
    BY <1>1, <1>2, LoopFacts, EmptySegment
  <1>4. "main" \in Purposes /\ run.empties <= run.iteration + 1
    BY <1>2, LoopFacts DEF Purposes
  <1> QED
    BY <1>1, <1>2, <1>3, <1>4, LoopFacts, RequestSent

LEMMA MalformedStep ==
  ASSUME Inv, Malformed
  PROVE  Inv'
  <1> DEFINE purpose == IF run.stage = "main" THEN "again" ELSE "untooled"
  <1>1. request.stage = "returned" /\ request.reply = "badtools" /\ Request(run, purpose)
        /\ UNCHANGED <<breaker, images, view, pending, goal, lost>>
    BY DEF Malformed, Answered
  <1>2. run.stage \in {"main", "again"}
    BY <1>1, LoopFacts DEF Asked
  <1>3. run.iteration < MaxIterations /\ run.empties <= run.iteration /\ run.empties <= run.iteration + 1
    BY <1>2, LoopFacts DEF Counted
  <1>4. view' \in Views /\ Repeatable(view'.segment)
        /\ (~run.streaming => view'.segment = <<>>)
    BY <1>1, LoopFacts DEF Inv, RequestInv, Segments, Stream
  <1>5. purpose \in Purposes /\ purpose \notin {"finalize", "budget"}
    BY DEF Purposes
  <1> HIDE DEF purpose
  <1> QED
    BY <1>1, <1>3, <1>4, <1>5, LoopFacts, RequestSent

LEMMA CallToolsStep ==
  ASSUME Inv, CallTools
  PROVE  Inv'
  <1>1. request.stage = "returned" /\ request.reply = "tools" /\ EndStream(TRUE)
        /\ Done(run, "tools") /\ UNCHANGED <<breaker, images, pending, goal, unread, lost>>
    BY DEF CallTools, Answered, Done
  <1>2. run.stage \in {"main", "again"}
    BY <1>1, LoopFacts DEF Asked
  <1>3. run.iteration < MaxIterations /\ run.empties <= run.iteration /\ (run.finalize => ~unread')
    BY <1>1, <1>2, LoopFacts DEF Counted
  <1>4. view' \in Views /\ view'.segment = <<>> /\ OneAttempt(view'.segment)
    BY <1>1, EndStreamType, EmptySegment
  <1> QED
    BY <1>1, <1>3, <1>4, LoopFacts, DoneStep

LEMMA ToolsDoneStep ==
  ASSUME Inv, ToolsDone
  PROVE  Inv'
  <1> DEFINE r == [run EXCEPT !.empties = 0, !.lengths = 0]
  <1>1. /\ run.stage = "tools" /\ goal' \in BOOLEAN /\ UNCHANGED <<breaker, images, view, lost>>
        /\ \/ Drains /\ Drain /\ Continue([r EXCEPT !.cycles = @ + 1])
           \/ NoDrain /\ Continue(r)
    BY DEF ToolsDone
  <1>2. run.iteration < MaxIterations /\ view.segment = <<>> /\ run.iteration \in Nat
    BY <1>1, LoopFacts DEF Counted, Stream
  <1>3. /\ r \in RunRecord /\ r.streaming = run.streaming /\ r.followUps = run.followUps
        /\ r.iteration = run.iteration /\ r.empties = 0 /\ r.cycles = run.cycles
    <2>1. r \in RunRecord
      BY LoopFacts, RunFields DEF RunRecord
    <2> QED
      BY <2>1, LoopFacts DEF RunRecord
  <1> HIDE DEF r
  <1>4. CASE Drains /\ Drain /\ Continue([r EXCEPT !.cycles = @ + 1])
    <2> DEFINE q == [r EXCEPT !.cycles = @ + 1]
    <2>1. /\ q \in RunRecord /\ q.streaming = r.streaming /\ q.followUps = r.followUps
          /\ q.iteration = r.iteration /\ q.empties = r.empties
      BY <1>3, <1>4, LoopFacts, DrainedType
    <2>2. pending' = 0 /\ unread' = TRUE /\ Continue(q)
      BY <1>4 DEF Drain
    <2> HIDE DEF q
    <2> QED
      BY <1>1, <1>2, <1>3, <2>1, <2>2, LoopFacts, ContinueStep
  <1>5. CASE NoDrain /\ Continue(r)
    BY <1>1, <1>2, <1>3, <1>5, LoopFacts, ContinueStep DEF NoDrain
  <1> QED
    BY <1>1, <1>4, <1>5

LEMMA EmptyAnswerStep ==
  ASSUME Inv, EmptyAnswer
  PROVE  Inv'
  <1> DEFINE e == run.empties + 1
             r == [run EXCEPT !.empties = e]
  <1>1. /\ Answered /\ run.stage \in {"main", "again", "untooled"} /\ EndStream(FALSE)
        /\ UNCHANGED <<breaker, images, pending, goal, lost>>
        /\ \/ Continue([run EXCEPT !.empties = @ + 1]) /\ UNCHANGED unread
           \/ Request([run EXCEPT !.empties = @ + 1], "finalize")
    BY DEF EmptyAnswer
  <1>2. [run EXCEPT !.empties = @ + 1] = r
    BY LoopFacts DEF RunRecord
  <1>3. run.iteration < MaxIterations /\ run.empties <= run.iteration /\ e \in Iterations
        /\ e <= run.iteration + 1
    BY <1>1, LoopFacts, RunConstants DEF Counted, Iterations
  <1> HIDE DEF e
  <1>4. /\ r \in RunRecord /\ r.streaming = run.streaming /\ r.followUps = run.followUps
        /\ r.iteration = run.iteration /\ r.empties = e
    <2>1. r \in RunRecord
      BY <1>3, LoopFacts DEF RunRecord
    <2> QED
      BY <2>1, LoopFacts DEF RunRecord
  <1> HIDE DEF r
  <1>5. view' \in Views /\ view'.segment = <<>> /\ Repeatable(view'.segment)
    BY <1>1, EndStreamType, EmptySegment
  <1>6. CASE Continue(r) /\ UNCHANGED unread
    BY <1>1, <1>3, <1>4, <1>5, <1>6, LoopFacts, ContinueStep
  <1>7. CASE Request(r, "finalize")
    <2>1. "finalize" \in Purposes
      BY DEF Purposes
    <2> QED
      BY <1>1, <1>3, <1>4, <1>5, <1>7, <2>1, LoopFacts, RequestSent
  <1> QED
    BY <1>1, <1>2, <1>6, <1>7

\* What an iteration that ends with an answer has counted.
LEMMA Iterating ==
  ASSUME Inv, Answered, run.stage # "budget"
  PROVE  run.iteration < MaxIterations /\ run.empties <= run.iteration + 1
  BY LoopFacts DEF Counted, Purposes

\* A part of the answer is lost only if its request did not stream.
LEMMA LostType ==
  ASSUME Inv, NEW isReply \in BOOLEAN, Answered, request.reply \in {"answer", "length"},
         run.stage # "budget", Lost(isReply)
  PROVE  lost' \subseteq Purposes /\ (run.streaming => lost' \subseteq {"untooled", "finalize"})
  <1>1. run.stage \in Purposes /\ request.stage = "returned"
    BY LoopFacts DEF Answered
  <1>2. CASE run.streaming /\ run.stage \in {"main", "again"}
    <2>1. request.streamed = "text"
      BY <1>1, <1>2, LoopFacts DEF Asked, Inv, RequestInv, Course
    <2> QED
      BY <1>2, <2>1, LoopFacts DEF Lost
  <1>3. CASE ~(run.streaming /\ run.stage \in {"main", "again"})
    BY <1>1, <1>3, LoopFacts DEF Lost, Purposes
  <1> QED
    BY <1>2, <1>3

LEMMA TruncatedStep ==
  ASSUME Inv, Truncated
  PROVE  Inv'
  <1> DEFINE l == run.lengths + 1
             r == [run EXCEPT !.lengths = l]
  <1>1. /\ Answered /\ request.reply = "length" /\ run.lengths < MaxLengths /\ run.stage # "budget"
        /\ EndStream(TRUE) /\ Lost(FALSE) /\ Continue([run EXCEPT !.lengths = @ + 1])
        /\ UNCHANGED <<breaker, images, pending, goal, unread>>
    BY DEF Truncated, Truncates
  <1>2. [run EXCEPT !.lengths = @ + 1] = r
    BY LoopFacts DEF RunRecord
  <1>3. l \in LengthCounts
    BY <1>1, LoopFacts, RunConstants DEF LengthCounts
  <1> HIDE DEF l
  <1>4. /\ r \in RunRecord /\ r.streaming = run.streaming /\ r.followUps = run.followUps
        /\ r.iteration = run.iteration /\ r.empties = run.empties
    <2>1. r \in RunRecord
      BY <1>3, LoopFacts DEF RunRecord
    <2> QED
      BY <2>1, LoopFacts DEF RunRecord
  <1>5. Continue(r)
    BY <1>1, <1>2
  <1> HIDE DEF r
  <1> QED
    BY <1>1, <1>4, <1>5, Iterating, LostType, EndStreamType, LoopFacts, ContinueStep

\* A drain and another iteration.
LEMMA DrainAndContinue ==
  ASSUME Inv, Drains, Drain, Continue(Drained), UNCHANGED <<breaker, images, goal>>,
         run.iteration < MaxIterations, run.empties <= run.iteration + 1,
         view' \in Views, view'.segment = <<>>,
         lost' \subseteq Purposes, run.streaming => lost' \subseteq {"untooled", "finalize"}
  PROVE  Inv'
  <1>1. /\ Drained \in RunRecord /\ Drained.streaming = run.streaming
        /\ Drained.followUps = run.followUps
        /\ Drained.iteration = run.iteration /\ Drained.empties = run.empties
    BY LoopFacts, DrainedType DEF Drained
  <1>2. pending' = 0 /\ unread' = TRUE
    BY DEF Drain
  <1> QED
    BY <1>1, <1>2, LoopFacts, ContinueStep

LEMMA AnswerStep ==
  ASSUME Inv, Answer
  PROVE  Inv'
  <1>1. /\ Answered /\ request.reply \in {"answer", "length"} /\ run.stage # "budget"
        /\ UNCHANGED <<breaker, images, goal>>
        /\ \/ Drains /\ Drain /\ Continue(Drained) /\ Lost(FALSE) /\ EndStream(TRUE)
           \/ NoDrain /\ Continue(run) /\ Lost(FALSE) /\ EndStream(TRUE)
           \/ NoDrain /\ Done(run, "completed") /\ Lost(TRUE) /\ EndStream(FALSE)
    BY DEF Answer
  <1>2. run.iteration < MaxIterations /\ run.empties <= run.iteration + 1
    BY <1>1, Iterating
  <1>3. lost' \subseteq Purposes /\ (run.streaming => lost' \subseteq {"untooled", "finalize"})
    BY <1>1, LostType
  <1>4. CASE Drains /\ Drain /\ Continue(Drained) /\ EndStream(TRUE)
    BY <1>1, <1>2, <1>3, <1>4, EndStreamType, DrainAndContinue
  <1>5. CASE NoDrain /\ Continue(run) /\ EndStream(TRUE)
    BY <1>1, <1>2, <1>3, <1>5, EndStreamType, LoopFacts, ContinueStep DEF NoDrain
  <1>6. CASE NoDrain /\ Done(run, "completed") /\ EndStream(FALSE)
    <2>1. "completed" \in Ends /\ run.stage # "ask"
      BY <1>1, LoopFacts DEF Ends, Purposes
    <2>2. /\ view' \in Views /\ view'.segment = <<>> /\ OneAttempt(view'.segment)
          /\ (run.streaming => view'.stream = "final")
      BY <1>6, EndStreamType, EmptySegment
    <2> QED
      BY <1>1, <1>2, <1>3, <1>6, <2>1, <2>2, LoopFacts, DoneStep DEF NoDrain
  <1> QED
    BY <1>1, <1>4, <1>5, <1>6

LEMMA NoAnswerStep ==
  ASSUME Inv, NoAnswer
  PROVE  Inv'
  <1> DEFINE reason == IF request.reply = "empty" THEN "emptied" ELSE "failed"
  <1>1. /\ Answered /\ run.stage # "budget" /\ UNCHANGED <<breaker, images, goal, lost>>
        /\ \/ Drains /\ Drain /\ Continue(Drained) /\ EndStream(TRUE)
           \/ NoDrain /\ EndStream(FALSE) /\ Done(run, reason)
    BY DEF NoAnswer
  <1>2. run.iteration < MaxIterations /\ run.empties <= run.iteration + 1
    BY <1>1, Iterating
  <1>3. CASE Drains /\ Drain /\ Continue(Drained) /\ EndStream(TRUE)
    BY <1>1, <1>2, <1>3, EndStreamType, LoopFacts, DrainAndContinue
  <1>4. CASE NoDrain /\ EndStream(FALSE) /\ Done(run, reason)
    <2>1. reason \in {"emptied", "failed"} /\ run.stage # "ask"
      BY <1>1, LoopFacts DEF Purposes
    <2>2. /\ view' \in Views /\ view'.segment = <<>> /\ OneAttempt(view'.segment)
          /\ (run.streaming => view'.stream = "final")
      BY <1>4, EndStreamType, EmptySegment
    <2> HIDE DEF reason
    <2> QED
      BY <1>1, <1>2, <1>4, <2>1, <2>2, LoopFacts, DoneStep DEF NoDrain
  <1> QED
    BY <1>1, <1>3, <1>4

LEMMA NoAnswerEndsStep ==
  ASSUME Inv, NoAnswerEnds
  PROVE  Inv'
  <1> DEFINE reason == IF run.stage = "failed" THEN "error" ELSE "empty_final_response"
  <1>1. /\ run.stage \in {"failed", "emptied"} /\ UNCHANGED <<breaker, images, view, goal>>
        /\ \/ Drains /\ Drain /\ Continue(Drained) /\ UNCHANGED lost
           \/ /\ NoDrain /\ Done(run, reason)
              /\ lost' = lost \/ lost' = lost \union {"finalize"}
    BY DEF NoAnswerEnds
  <1>2. /\ run.iteration < MaxIterations /\ run.empties <= run.iteration + 1
        /\ view'.segment = <<>> /\ OneAttempt(view'.segment) /\ view' \in Views
        /\ (run.streaming => view'.stream = "final")
    BY <1>1, LoopFacts DEF Counted, Stream
  <1>3. CASE Drains /\ Drain /\ Continue(Drained) /\ UNCHANGED lost
    BY <1>1, <1>2, <1>3, LoopFacts, DrainAndContinue
  <1>4. CASE /\ NoDrain /\ Done(run, reason)
             /\ lost' = lost \/ lost' = lost \union {"finalize"}
    <2>1. reason \in Ends /\ reason \notin {"tools", "failed", "emptied"} /\ run.stage # "ask"
      BY <1>1 DEF Ends
    <2>2. lost' \subseteq Purposes /\ (run.streaming => lost' \subseteq {"untooled", "finalize"})
      BY <1>4, LoopFacts DEF Purposes
    <2> HIDE DEF reason
    <2> QED
      BY <1>1, <1>2, <1>4, <2>1, <2>2, LoopFacts, DoneStep DEF NoDrain
  <1> QED
    BY <1>1, <1>3, <1>4

\* The last word ends the run, from the last iteration or after the last request.
LEMMA LastWordStep ==
  ASSUME Inv, LastWord(view), run.stage \in {"ask", "budget"}, UNCHANGED <<breaker, images, goal, lost>>,
         pending' \in Nat, pending' <= run.followUps, unread' \in BOOLEAN, run.finalize => ~unread'
  PROVE  Inv'
  <1>1. view \in Views /\ view.segment = <<>>
    BY LoopFacts DEF Stream
  <1>2. /\ view' \in Views /\ view'.segment = <<>> /\ OneAttempt(view'.segment)
        /\ \/ Done(run, "continued")
           \/ Done(run, "max_iterations") /\ (run.streaming => view'.stream = "final")
    <2>1. CASE goal
      BY <2>1, <1>1, EmptySegment DEF LastWord
    <2>2. CASE ~goal
      <3>1. /\ view' = IF run.streaming THEN Ended(view, FALSE) ELSE view
            /\ Done(run, "max_iterations")
        BY <2>2 DEF LastWord
      <3>2. Ended(view, FALSE).stream = "final"
        BY DEF Ended
      <3> QED
        BY <3>1, <3>2, <1>1, EndedType, EmptySegment
    <2> QED
      BY <2>1, <2>2
  <1>3. {"continued", "max_iterations"} \subseteq Ends
    BY DEF Ends
  <1>4. CASE Done(run, "continued")
    BY <1>2, <1>3, <1>4, LoopFacts, DoneStep
  <1>5. CASE Done(run, "max_iterations") /\ (run.streaming => view'.stream = "final")
    BY <1>2, <1>3, <1>5, LoopFacts, DoneStep
  <1> QED
    BY <1>2, <1>4, <1>5

LEMMA BudgetStep ==
  ASSUME Inv, Budget
  PROVE  Inv'
  <1>1. /\ run.stage = "ask" /\ pending' = (IF Drains THEN 0 ELSE pending)
        /\ UNCHANGED <<breaker, images, goal, lost>>
        /\ \/ Request(run, "budget") /\ UNCHANGED view
           \/ ~run.finalize /\ unread' = (unread \/ Drains) /\ LastWord(view)
    BY DEF Budget
  <1>2. pending' \in Nat /\ pending' <= run.followUps
    BY <1>1, LoopFacts
  <1>3. CASE Request(run, "budget") /\ UNCHANGED view
    <2>1. /\ view.segment = <<>> /\ run.empties <= run.iteration
          /\ run.empties <= run.iteration + 1
      BY <1>1, LoopFacts DEF Stream, Counted
    <2>2. view' \in Views /\ view'.segment = <<>> /\ Repeatable(view'.segment)
      BY <1>3, <2>1, LoopFacts, EmptySegment
    <2>3. "budget" \in Purposes
      BY DEF Purposes
    <2> QED
      BY <1>1, <1>2, <1>3, <2>1, <2>2, <2>3, LoopFacts, RequestSent
  <1>4. CASE ~run.finalize /\ unread' = (unread \/ Drains) /\ LastWord(view)
    <2>1. unread' \in BOOLEAN
      <3>1. CASE unread \/ Drains
        BY <1>4, <3>1
      <3>2. CASE ~(unread \/ Drains)
        BY <1>4, <3>2
      <3> QED
        BY <3>1, <3>2
    <2> QED
      BY <1>1, <1>2, <1>4, <2>1, LastWordStep
  <1> QED
    BY <1>1, <1>3, <1>4

LEMMA BudgetAnsweredStep ==
  ASSUME Inv, BudgetAnswered
  PROVE  Inv'
  <1>1. run.stage = "budget" /\ LastWord(view) /\ UNCHANGED <<breaker, images, pending, goal, unread, lost>>
    BY DEF BudgetAnswered
  <1> QED
    BY <1>1, LoopFacts, LastWordStep

LEMMA CancelStep ==
  ASSUME Inv, Cancel
  PROVE  Inv'
  <1>1. /\ run.stage \in Purposes \union {"tools"} /\ Done(run, "cancelled")
        /\ UNCHANGED <<breaker, images, view, pending, goal, unread, lost>>
    BY DEF Cancel
  <1>2. "cancelled" \in Ends /\ run.stage # "ask"
    BY <1>1 DEF Ends, Purposes
  <1>3. view' \in Views /\ OneAttempt(view'.segment) /\ (~run.streaming => view'.segment = <<>>)
    BY <1>1, LoopFacts DEF Stream
  <1> QED
    BY <1>1, <1>2, <1>3, LoopFacts, DoneStep

LEMMA RequestingStep ==
  ASSUME Inv, Requesting
  PROVE  Inv'
  <1> DEFINE kinds == IF run.stage \in {"main", "again"} THEN Good ELSE {"answer", "length", "empty"}
  <1>1. /\ run.stage \in Purposes /\ RequestStep(kinds)
        /\ UNCHANGED <<run, pending, goal, unread, lost>>
    BY DEF Requesting
  <1>2. kinds \subseteq Good
    BY DEF Good
  <1>3. run.stage \notin {"main", "again"} => kinds \intersect {"tools", "badtools"} = {}
    OBVIOUS
  <1> HIDE DEF kinds
  <1>4. RequestKept(kinds)
    BY <1>1, <1>2, RequestStepInv DEF Inv
  <1>5. LoopShape'
    BY <1>1, <1>4 DEF Inv, LoopInv, LoopShape, Counted, RequestKept
  <1>6. Asked'
    BY <1>1, <1>3, <1>4, LoopFacts DEF Asked, RequestKept, Errors, Failures
  <1>7. Stream'
    BY <1>1, <1>4, LoopFacts DEF Asked, Stream, RequestKept, Purposes, Ends
  <1> QED
    BY <1>1, <1>4, <1>5, <1>6, <1>7 DEF Inv, LoopInv, StreamShowsAnswer, RequestKept

LEMMA FollowUpStep ==
  ASSUME Inv, FollowUp
  PROVE  Inv'
  <1> DEFINE n == run.followUps + 1
  <1>1. /\ run.followUps < MaxFollowUps /\ pending' = pending + 1
        /\ run' = [run EXCEPT !.followUps = n] /\ UNCHANGED <<requestVars, goal, unread, lost>>
    BY LoopFacts DEF FollowUp, RunRecord
  <1>2. n \in FollowUpCounts
    BY <1>1, LoopFacts, RunConstants DEF FollowUpCounts
  <1>3. pending' \in Nat /\ pending' <= n
    BY <1>1, LoopFacts
  <1> HIDE DEF n
  <1>4. run' \in RunRecord
    BY <1>1, <1>2, LoopFacts DEF RunRecord
  <1>5. /\ run'.followUps = n /\ run'.stage = run.stage /\ run'.streaming = run.streaming
        /\ run'.iteration = run.iteration /\ run'.empties = run.empties
        /\ run'.finalize = run.finalize
    BY <1>1, LoopFacts DEF RunRecord
  <1>6. LoopInv'
    BY <1>1, <1>3, <1>4, <1>5
       DEF requestVars, Inv, LoopInv, LoopShape, Counted, Asked, Stream, StreamShowsAnswer
  <1>7. RequestInv'
    BY <1>1 DEF requestVars, Inv, RequestInv, RequestShape, Flags, Course, Honest, Segments,
                BreakerConsistent
  <1> QED
    BY <1>6, <1>7 DEF Inv

LEMMA EnvironmentStep ==
  ASSUME Inv, Environment
  PROVE  Inv'
  <1>1. RequestInv' /\ UNCHANGED <<request, images, view, run, pending, goal, unread, lost>>
    BY OthersStep DEF Inv, Environment
  <1>2. LoopInv'
    BY <1>1 DEF Inv, LoopInv, LoopShape, Counted, Asked, Stream, StreamShowsAnswer
  <1> QED
    BY <1>1, <1>2 DEF Inv

-----------------------------------------------------------------------------
(* The theorems. *)

LEMMA InvInit == Init => Inv
  <1> SUFFICES ASSUME Init PROVE Inv
    OBVIOUS
  <1>1. PICK streaming \in BOOLEAN, persistent \in BOOLEAN, active \in BOOLEAN :
          /\ run = [stage |-> "ask", streaming |-> streaming, persistent |-> persistent,
                    finalize |-> ~active, iteration |-> 0, empties |-> 0, lengths |-> 0,
                    cycles |-> 0, followUps |-> 0]
          /\ goal = active
    BY DEF Init
  <1>2. /\ request = NoRequest /\ breaker = Closed /\ images \in BOOLEAN /\ view = Quiet
        /\ pending = 0 /\ unread = FALSE /\ lost = {}
    BY DEF Init
  <1>3. view \in Views /\ view.segment = <<>> /\ OneAttempt(view.segment)
    BY <1>2, EmptySegment DEF Quiet, Views
  <1>4. breaker \in Breakers /\ BreakerConsistent
    BY <1>2, ConstantTypes DEF Breakers, Closed, BreakerConsistent
  <1>5. RequestInv
    BY <1>2, <1>3, <1>4, NoRequestType DEF RequestInv, RequestShape, Segments
  <1>6. run \in RunRecord
    BY <1>1, RunFields DEF RunRecord
  <1>7. LoopShape
    <2>1. run.stage = "ask" /\ run.empties = 0 /\ run.iteration = 0 /\ run.followUps = 0
      BY <1>1
    <2>2. goal \in BOOLEAN /\ unread \in BOOLEAN
      BY <1>1, <1>2
    <2> QED
      BY <1>2, <1>6, <2>1, <2>2, NoRequestType DEF LoopShape, Counted, Purposes
  <1>8. Asked /\ Stream
    BY <1>1, <1>2, <1>3, NoRequestType, Zenon DEF Asked, Stream, Ends
  <1> QED
    BY <1>2, <1>5, <1>7, <1>8 DEF Inv, LoopInv, StreamShowsAnswer

LEMMA InvNext == Inv /\ [Next]_vars => Inv'
  <1> SUFFICES ASSUME Inv, [Next]_vars PROVE Inv'
    OBVIOUS
  <1>1. CASE RunStep
    BY <1>1, AskStep, MalformedStep, CallToolsStep, ToolsDoneStep, EmptyAnswerStep, TruncatedStep,
       AnswerStep, NoAnswerStep, NoAnswerEndsStep, BudgetStep, BudgetAnsweredStep DEF RunStep
  <1>2. CASE UNCHANGED vars
    BY <1>2 DEF vars, requestVars, Inv, RequestInv, RequestShape, Flags, Course, Honest, Segments,
                BreakerConsistent, LoopInv, LoopShape, Counted, Asked, Stream, StreamShowsAnswer
  <1> QED
    BY <1>1, <1>2, RequestingStep, FollowUpStep, CancelStep, EnvironmentStep DEF Next

LEMMA Invariance == Spec => []Inv
  <1>1. Init => Inv
    BY InvInit
  <1>2. Inv /\ [Next]_vars => Inv'
    BY InvNext
  <1> QED
    BY <1>1, <1>2, PTL DEF Spec

LEMMA InvImplies == Inv => TypeOK /\ RunInv /\ OneAttemptPerSegment /\ StreamShowsAnswer /\ FollowUpsRead
  <1> SUFFICES ASSUME Inv
               PROVE  TypeOK /\ RunInv /\ OneAttemptPerSegment /\ StreamShowsAnswer /\ FollowUpsRead
    OBVIOUS
  <1>1. RequestTypeOK
    BY DEF Inv, RequestInv, RequestShape, RequestRecord, RequestTypeOK, RequestStages, Attempts, Sames,
           Providers, Lasts, Replies, Streamings, Breakers, Views
  <1>2. TypeOK
    <2>1. pending \in 0..MaxFollowUps
      BY LoopFacts, RunConstants DEF RunRecord, FollowUpCounts
    <2> QED
      BY <1>1, <2>1, LoopFacts
         DEF TypeOK, RunRecord, RunStages, Iterations, LengthCounts, CycleCounts, Inv, LoopInv, LoopShape
  <1>3. BreakerConsistent /\ NoEarlySurrender /\ OneAttemptPerSegment /\ StreamShowsAnswer
    BY DEF Inv, RequestInv, LoopInv, Honest, NoEarlySurrender, Segments, OneAttempt,
           OneAttemptPerSegment
  <1>4. StreamClosed
    BY LoopFacts DEF Stream, StreamClosed, Ends
  <1>5. FollowUpsRead
    BY LoopFacts DEF FollowUpsRead, Ends
  <1> QED
    BY <1>2, <1>3, <1>4, <1>5 DEF RunInv

\* The counters of the loop and of the retries keep to their limits, and a
\* request is in flight exactly while the loop waits for one, whatever the
\* numbers of fallbacks, retries, iterations and follow-ups.
THEOREM TypeCorrect == Spec => []TypeOK
  BY Invariance, InvImplies, PTL

\* An error comes back only when there was nothing left to try, the breaker that
\* all sessions share counts right, and an ended run has closed its stream.
THEOREM RunConsistent == Spec => []RunInv
  BY Invariance, InvImplies, PTL

\* No segment of the user's stream mixes the text of two attempts, through any
\* number of retries, fallbacks and stalls.
THEOREM SegmentsApart == Spec => []OneAttemptPerSegment
  BY Invariance, InvImplies, PTL

\* What a streaming turn keeps as a part of its answer was streamed, unless it
\* came of a request that has no tools.
THEOREM AnswerStreamed == Spec => []StreamShowsAnswer
  BY Invariance, InvImplies, PTL

\* A follow-up that a turn took is put before the model before the turn ends by itself.
THEOREM FollowUpsAnswered == Spec => []FollowUpsRead
  BY Invariance, InvImplies, PTL

=============================================================================
