-------------------------- MODULE OutboundDispatch --------------------------
(***************************************************************************)
(* From the running turns to the chats: the outbound queue of the bus, the *)
(* dispatcher of channels/manager.py that merges, filters, retries and     *)
(* gives up, and how four channels turn a stream of deltas into messages.  *)
(*                                                                         *)
(* Telegram posts early and edits, with one buffer per chat; Matrix does   *)
(* so with one per stream; Mattermost and WeChat collect the text and post *)
(* it when the stream ends.  A chunk of text is a number: the model wrote  *)
(* chunk 1 first.  A request to the platform succeeds, fails, or succeeds  *)
(* while its answer is lost.                                               *)
(*                                                                         *)
(* Left out: the delays between attempts (nothing else runs in the         *)
(* dispatcher meanwhile), the splitting of long texts, media, and the      *)
(* cancellation of the dispatcher at shutdown.                             *)
(***************************************************************************)
EXTENDS Integers, Sequences, FiniteSets, SequencesExt

CONSTANTS
  Session, Chat,
  Home,         \* Home[s]: the chat that session s answers to
  Style,        \* the kinds of channels: a subset of Styles
  Texts,        \* contents of whole messages
  NoText,       \* stands for "no fingerprint recorded"
  Blank,        \* the chunks made of white space only
  MaxAttempts,  \* max(send_max_retries, 1)
  MaxTurns, MaxSegments, MaxChunks, \* bounds of a session's streams
  MaxExtras,    \* bound of the other messages of a session
  MaxPublished, \* bound of what is published in all
  MaxFaults     \* bound of the failed and unanswered requests

Styles == {"telegram", "matrix", "mattermost", "weixin"}

ASSUME OutboundAssumption ==
  /\ Home \in [Session -> Chat] /\ Style \subseteq Styles
  /\ NoText \notin Texts
  /\ MaxAttempts \in Nat \ {0} /\ MaxSegments \in Nat \ {0}
  /\ {MaxTurns, MaxChunks, MaxExtras, MaxPublished, MaxFaults} \subseteq Nat
  /\ Blank \subseteq 1..MaxChunks

VARIABLES
  style,    \* style[c]: how the channel of chat c shows a stream (configuration)
  turns,    \* what each session publishes: turn, segment, chunks, stage, extras
  queue,    \* bus.outbound
  held,     \* the dispatcher's `pending` list
  current,  \* the message being sent, and
  tried,    \* how often that failed
  prints,   \* _origin_reply_fingerprints
  buffer,   \* the channels' stream buffers
  screen,   \* what is to be read in each chat: a sequence of posts
  handled,  \* history: everything the dispatcher is done with
  trouble,  \* history: the streams with failed, unanswered or abandoned sends
  faults    \* number of faults so far

vars == <<style, turns, queue, held, current, tried, prints, buffer, screen, handled, trouble, faults>>

Turn == 1..MaxTurns
Chunk == 1..MaxChunks
\* A stream id, "<session>:<time>:<segment>"; segment 0 is the turn itself.
Stream == Session \X Turn \X (0..MaxSegments)

\* The buffers of the channels are found by chat or by stream, never by either.
ASSUME KeysAssumption == Chat \intersect Stream = {}

ChatOf(id) == Home[id[1]]

Kinds == {"delta", "end", "resuming", "streamed", "reply", "followup", "notice", "hidden"}
Message == [kind : Kinds, id : Stream, text : Seq(Chunk \union Texts)]
Msg(kind, id, text) == [kind |-> kind, id |-> id, text |-> text]

NoBuffer == [id |-> <<>>, text |-> <<>>, post |-> 0]
Fresh(id) == [NoBuffer EXCEPT !.id = id]

\* What a message stands for: the chunks merged into it, and its own event.
Units(m) ==
  LET texts == IF m.kind \in {"reply", "followup"} THEN m.kind ELSE "delta"
  IN  [i \in 1..Len(m.text) |-> [kind |-> texts, id |-> m.id, part |-> m.text[i]]]
      \o (IF m.kind \in {"delta", "reply", "followup"} THEN <<>>
          ELSE <<[kind |-> m.kind, id |-> m.id, part |-> 0]>>)

Parts(messages) == FlattenSeq([i \in DOMAIN messages |-> Units(messages[i])])

TypeOK ==
  /\ style \in [Chat -> Style]
  /\ turns \in [Session -> [n : 0..MaxTurns, segment : 0..MaxSegments, chunks : 0..MaxChunks,
                            stage : {"idle", "running", "closed"}, extras : 0..MaxExtras]]
  /\ queue \in Seq(Message)
  /\ held \in Seq(Message) /\ Len(held) <= 1
  /\ current \in Seq(Message) /\ Len(current) <= 1
  /\ tried \in 0..MaxAttempts - 1 /\ (current = <<>> => tried = 0)
  /\ prints \in [Session \X Turn -> Texts \union {NoText}]
  /\ DOMAIN buffer = Chat \union Stream
  /\ \A k \in DOMAIN buffer :
       /\ buffer[k] = NoBuffer \/ buffer[k].id \in Stream
       /\ buffer[k].text \in Seq(Chunk) /\ buffer[k].post \in Nat
  /\ screen \in [Chat -> Seq([id : Stream, text : Seq(Chunk \union Texts)])]
  /\ \A i \in 1..Len(handled) : handled[i].id \in Stream
  /\ trouble \subseteq Stream \X {"failed", "unanswered", "abandoned"}
  /\ faults \in 0..MaxFaults

Init ==
  /\ style \in [Chat -> Style]
  /\ turns = [s \in Session |->
                [n |-> 0, segment |-> 0, chunks |-> 0, stage |-> "idle", extras |-> 0]]
  /\ queue = <<>> /\ held = <<>> /\ current = <<>> /\ tried = 0
  /\ prints = [o \in Session \X Turn |-> NoText]
  /\ buffer = [k \in Chat \union Stream |-> NoBuffer]
  /\ screen = [c \in Chat |-> <<>>]
  /\ handled = <<>> /\ trouble = {} /\ faults = 0

-----------------------------------------------------------------------------
(* The turns: agent/loop.py and the tools publish. *)

Publish(s, kind, segment, text) ==
  /\ Len(handled) + Len(Parts(current \o held \o queue)) < MaxPublished
  /\ queue' = Append(queue, Msg(kind, <<s, turns[s].n, segment>>, text))
  /\ UNCHANGED <<held, current, tried, prints, buffer, screen, handled, trouble, faults>>

Begin(s) ==
  /\ turns[s].stage = "idle" /\ turns[s].n < MaxTurns
  /\ turns' = [turns EXCEPT ![s].stage = "running", ![s].n = @ + 1,
                            ![s].segment = 1, ![s].chunks = 0]
  /\ UNCHANGED <<queue, held, current, tried, prints, buffer, screen, handled, trouble, faults>>

\* on_stream
StreamDelta(s) ==
  /\ turns[s].stage = "running" /\ turns[s].chunks < MaxChunks
  /\ turns' = [turns EXCEPT ![s].chunks = @ + 1]
  /\ Publish(s, "delta", turns[s].segment, <<turns[s].chunks + 1>>)

\* on_stream_end(resuming=True): tools run, then the next segment starts.
StreamResumes(s) ==
  /\ turns[s].stage = "running" /\ turns[s].segment < MaxSegments
  /\ turns' = [turns EXCEPT ![s].segment = @ + 1, ![s].chunks = 0]
  /\ Publish(s, "resuming", turns[s].segment, <<>>)

\* on_stream_end(resuming=False)
StreamEnd(s) ==
  /\ turns[s].stage = "running"
  /\ turns' = [turns EXCEPT ![s].stage = "closed"]
  /\ Publish(s, "end", turns[s].segment, <<>>)

\* _assemble_outbound: an answer that was streamed is marked so that the
\* manager does not send it again; an error text is sent.
Respond(s) ==
  /\ turns[s].stage = "closed"
  /\ turns' = [turns EXCEPT ![s].stage = "idle"]
  /\ \/ Publish(s, "streamed", 0, <<>>)
     \/ \E t \in Texts : Publish(s, "reply", 0, <<t>>)

\* The message tool, a subagent's follow-up to the turn, and progress events:
\* "notice" when the channel's settings show them, else "hidden".
Extra(s) ==
  /\ turns[s].n > 0 /\ turns[s].extras < MaxExtras
  /\ turns' = [turns EXCEPT ![s].extras = @ + 1]
  /\ \/ /\ turns[s].stage = "running"
        /\ \/ \E t \in Texts : Publish(s, "reply", 0, <<t>>)
           \/ \E kind \in {"notice", "hidden"} : Publish(s, kind, 0, <<>>)
     \/ \E t \in Texts : Publish(s, "followup", 0, <<t>>)

-----------------------------------------------------------------------------
(* The dispatcher takes a message. *)

\* _coalesce_stream_deltas, its loop: does message m continue the stream?
Continues(first, m) ==
  /\ m.id = first.id
  /\ m.kind = "delta" \/ (m.kind \in {"end", "resuming"} /\ m.text # <<>>)

\* How many messages of `rest` are merged into `first`: those up to the
\* first that does not continue the stream, or that ends it.
Merged(first, rest) ==
  {i \in 1..Len(rest) :
     /\ \A j \in 1..i : Continues(first, rest[j])
     /\ \A j \in 1..i - 1 : rest[j].kind = "delta"}

Concat(messages) == FlattenSeq([i \in DOMAIN messages |-> messages[i].text])

Origin(m) == <<m.id[1], m.id[2]>>

\* _should_suppress_outbound: a follow-up that repeats what was last sent
\* for the message it follows.
Repeats(m) == m.kind = "followup" /\ prints[Origin(m)] = m.text[1]

Noted(m) ==
  IF m.kind \in {"reply", "followup"} THEN [prints EXCEPT ![Origin(m)] = m.text[1]]
  ELSE prints

Ignored(m) == m.kind \in {"hidden", "streamed"} \/ Repeats(m)

\* Mutant: the message that ends the merging goes back to the queue.
PutBack(left) == held' = <<>> /\ queue' = Append(Tail(left), Head(left))

\* `pending`: an asyncio.Queue has no push_front.
SetAside(left) == held' = <<Head(left)>> /\ queue' = Tail(left)

\* Mutant: the dispatcher dies of a send it gave up.
ReadyUnlessGivenUp == current = <<>> /\ ~ \E id \in Stream : <<id, "abandoned">> \in trouble

Ready == current = <<>>

\* The head of the waiting messages, with the deltas that follow it at once;
\* the first that does not belong to them comes off the queue and is held.
Take ==
  /\ Ready /\ held \o queue # <<>>
  /\ LET all == held \o queue
         rest == Tail(all)
         n == IF Head(all).kind = "delta" THEN Cardinality(Merged(Head(all), rest)) ELSE 0
         more == SubSeq(rest, 1, n)
         m == IF n = 0 THEN Head(all)
              ELSE [Head(all) EXCEPT !.kind = more[n].kind, !.text = @ \o Concat(more)]
         left == SubSeq(rest, n + 1, Len(rest))
         looked == Head(all).kind = "delta" /\ m.kind = "delta" /\ left # <<>>
     IN  /\ IF looked THEN SetAside(left) ELSE held' = <<>> /\ queue' = left
         /\ IF Ignored(m)
            THEN handled' = handled \o Units(m) /\ UNCHANGED <<current, prints>>
            ELSE current' = <<m>> /\ prints' = Noted(m) /\ UNCHANGED handled
  /\ UNCHANGED <<turns, tried, buffer, screen, trouble, faults>>

-----------------------------------------------------------------------------
(* _send_with_retry, one attempt: the channel makes at most one request. *)

Sending(how, kinds) ==
  current # <<>> /\ current[1].kind \in kinds /\ style[ChatOf(current[1].id)] = how

Outcomes == {"ok", "failed", "unanswered"}

\* A request may fail, or take effect without an answer.
Request(id, o) ==
  IF o = "ok" THEN UNCHANGED <<trouble, faults>>
  ELSE /\ faults < MaxFaults
       /\ faults' = faults + 1
       /\ trouble' = trouble \union {<<id, o>>}

\* send or send_delta returned.
Done ==
  /\ current' = <<>> /\ tried' = 0
  /\ handled' = handled \o Units(current[1])
  /\ UNCHANGED <<turns, queue, held, prints>>

\* It raised: wait and try again, or give up after the last attempt.
Raised(id, o) ==
  /\ faults < MaxFaults
  /\ faults' = faults + 1
  /\ \/ /\ tried + 1 < MaxAttempts
        /\ tried' = tried + 1
        /\ trouble' = trouble \union {<<id, o>>}
        /\ UNCHANGED <<turns, queue, held, prints, current, handled>>
     \/ /\ tried + 1 = MaxAttempts
        /\ trouble' = trouble \union {<<id, o>>, <<id, "abandoned">>}
        /\ Done

\* How an attempt ends that makes a request and raises what goes wrong.
Attempted(id, o) ==
  \/ o = "ok" /\ Done /\ UNCHANGED <<trouble, faults>>
  \/ o # "ok" /\ Raised(id, o)

NoRequest == Done /\ UNCHANGED <<screen, trouble, faults>>

\* What the request does to the chat, unless it failed.
Posts(c, id, text, o) ==
  screen' = IF o = "failed" THEN screen
            ELSE [screen EXCEPT ![c] = Append(@, [id |-> id, text |-> text])]
Edits(c, i, text, o) ==
  screen' = IF o = "failed" THEN screen ELSE [screen EXCEPT ![c][i].text = text]

IsBlank(text) == \A i \in DOMAIN text : text[i] \in Blank

\* A whole message, in any channel's send.
SendWhole ==
  /\ current # <<>> /\ current[1].kind \in {"reply", "followup", "notice"}
  /\ LET m == current[1] IN
     \E o \in Outcomes : Posts(ChatOf(m.id), m.id, m.text, o) /\ Attempted(m.id, o)
  /\ UNCHANGED buffer

\* Mutant: the delta takes the place of the buffered text.
Overwritten(key, m) ==
  IF buffer[key].id = m.id THEN [buffer[key] EXCEPT !.text = m.text]
  ELSE [Fresh(m.id) EXCEPT !.text = m.text]

\* Telegram's and Matrix's send_delta add the delta to the buffer at `key`.
\* The first text is posted, and the post edited when the last edit is old
\* enough.
Accumulated(key, m) ==
  IF buffer[key].id = m.id THEN [buffer[key] EXCEPT !.text = @ \o m.text]
  ELSE [Fresh(m.id) EXCEPT !.text = m.text]

QuietDelta(b) == (IsBlank(b.text) \/ b.post # 0) /\ NoRequest

ShownDelta(c, b, o) ==
  /\ ~IsBlank(b.text)
  /\ IF b.post = 0 THEN Posts(c, b.id, b.text, o) ELSE Edits(c, b.post, b.text, o)

\* The buffer learns the id of the post from the answer to the request.
WithPost(c, b, o) ==
  IF b.post = 0 /\ o = "ok" THEN [b EXCEPT !.post = Len(screen[c]) + 1] ELSE b

TelegramDelta ==
  /\ Sending("telegram", {"delta"})
  /\ LET c == ChatOf(current[1].id)
         b == Accumulated(c, current[1])
     IN  \/ QuietDelta(b) /\ buffer' = [buffer EXCEPT ![c] = b]
         \/ \E o \in Outcomes :
              /\ ShownDelta(c, b, o)
              /\ buffer' = [buffer EXCEPT ![c] = WithPost(c, b, o)]
              /\ Attempted(b.id, o)

\* A last edit with all the text; the buffer is kept until it is made.
TelegramEnd ==
  /\ Sending("telegram", {"end", "resuming"})
  /\ LET c == ChatOf(current[1].id)
         b == buffer[c]
     IN  IF b.id # current[1].id \/ b.post = 0
         THEN NoRequest /\ UNCHANGED buffer
         ELSE \E o \in Outcomes :
                /\ Edits(c, b.post, b.text, o)
                /\ buffer' = IF o = "ok" THEN [buffer EXCEPT ![c] = NoBuffer] ELSE buffer
                /\ Attempted(b.id, o)

\* Matrix logs what goes wrong with a delta and returns.
MatrixDelta ==
  /\ Sending("matrix", {"delta"})
  /\ LET b == Accumulated(current[1].id, current[1])
         c == ChatOf(b.id)
     IN  \/ QuietDelta(b) /\ buffer' = [buffer EXCEPT ![b.id] = b]
         \/ \E o \in Outcomes :
              /\ ShownDelta(c, b, o)
              /\ buffer' = [buffer EXCEPT ![b.id] = WithPost(c, b, o)]
              /\ Request(b.id, o) /\ Done

\* It takes the buffer away before the last edit: a retry finds nothing to do.
MatrixEnd ==
  /\ Sending("matrix", {"end", "resuming"})
  /\ LET id == current[1].id
         b == buffer[id]
     IN  /\ buffer' = [buffer EXCEPT ![id] = NoBuffer]
         /\ IF b.post = 0 THEN NoRequest
            ELSE \E o \in Outcomes : Edits(ChatOf(id), b.post, b.text, o) /\ Attempted(id, o)

\* Mattermost ignores a delta of white space, WeChat keeps it.
CollectingDelta ==
  /\ Sending("mattermost", {"delta"}) \/ Sending("weixin", {"delta"})
  /\ LET m == current[1] IN
     buffer' = IF style[ChatOf(m.id)] = "mattermost" /\ IsBlank(m.text) THEN buffer
               ELSE [buffer EXCEPT ![m.id] = Accumulated(m.id, m)]
  /\ NoRequest

\* Mattermost drops the text that precedes a batch of tools.
DropSegment ==
  /\ Sending("mattermost", {"resuming"})
  /\ buffer' = [buffer EXCEPT ![current[1].id] = NoBuffer]
  /\ NoRequest

\* Mutant: the text is taken out of the buffer before it is posted.
CollectingEndPops ==
  /\ Sending("mattermost", {"end"}) \/ Sending("weixin", {"end", "resuming"})
  /\ LET id == current[1].id
         text == buffer[id].text
     IN  /\ buffer' = [buffer EXCEPT ![id] = NoBuffer]
         /\ IF IsBlank(text) THEN NoRequest
            ELSE \E o \in Outcomes : Posts(ChatOf(id), id, text, o) /\ Attempted(id, o)

\* The collected text is one post; the buffer is kept until that is made.
CollectingEnd ==
  /\ Sending("mattermost", {"end"}) \/ Sending("weixin", {"end", "resuming"})
  /\ LET id == current[1].id
         text == buffer[id].text
         c == ChatOf(id)
         cleared == [buffer EXCEPT ![id] = NoBuffer]
     IN  IF IsBlank(text) THEN buffer' = cleared /\ NoRequest
         ELSE \E o \in Outcomes :
                /\ Posts(c, id, text, o)
                /\ buffer' = IF o = "ok" THEN cleared ELSE buffer
                /\ Attempted(id, o)

Turns ==
  \E s \in Session : \/ Begin(s) \/ StreamDelta(s) \/ StreamResumes(s) \/ StreamEnd(s)
                     \/ Respond(s) \/ Extra(s)

Dispatcher ==
  \/ Take \/ SendWhole
  \/ TelegramDelta \/ TelegramEnd \/ MatrixDelta \/ MatrixEnd
  \/ CollectingDelta \/ DropSegment \/ CollectingEnd

Next == (Turns \/ Dispatcher) /\ UNCHANGED style

\* The dispatcher task runs whenever it is not waiting for a message, and
\* what it waits for (a request, a delay) has a timeout.
Spec == Init /\ [][Next]_vars /\ WF_vars(Dispatcher /\ UNCHANGED style)

-----------------------------------------------------------------------------
(* What is correct. *)

\* Whatever is merged, held, filtered, retried or abandoned, everything
\* published is handled once and in order: a message never overtakes the one
\* that coalescing took off the queue and held back.
Fifo == INSTANCE OutboundFifo WITH todo <- Parts(current \o held \o queue), done <- handled
ImplementsFifo == Fifo!Spec

StreamPosts(c) == {i \in DOMAIN screen[c] : screen[c][i].id[3] # 0}

\* Chunks of one stream stand in each post in the order the model wrote them:
\* a chunk is preceded by all the earlier ones that are not white space, also
\* when failed attempts left a buffer that a later delta is added to.
PostsInOrder ==
  \A c \in Chat : \A i \in StreamPosts(c) :
    LET text == screen[c][i].text IN
    \A j \in DOMAIN text : \A k \in 1..text[j] - 1 :
      k \in Blank \/ \E l \in 1..j - 1 : text[l] = k

Handled(kind, id) == \E i \in DOMAIN handled : handled[i].kind = kind /\ handled[i].id = id
ChunksOf(id) ==
  {handled[i].part : i \in {j \in DOMAIN handled : handled[j].kind = "delta" /\ handled[j].id = id}}

\* A stream that ended is to be read in the chat, whole and in one post, unless
\* an attempt for it was abandoned.  Mattermost does not show the text before
\* a batch of tools, and Matrix promises it only for requests that succeed.
EndedIsShown ==
  \A id \in Stream :
    \/ ~(Handled("end", id) \/ Handled("resuming", id))
    \/ ChunksOf(id) \subseteq Blank
    \/ <<id, "abandoned">> \in trouble
    \/ style[ChatOf(id)] = "mattermost" /\ Handled("resuming", id)
    \/ style[ChatOf(id)] = "matrix" /\ \E o \in Outcomes : <<id, o>> \in trouble
    \/ \E i \in StreamPosts(ChatOf(id)) :
         LET post == screen[ChatOf(id)][i] IN
         post.id = id /\ ChunksOf(id) \ Blank \subseteq Range(post.text)

\* Retries do not repeat a post: a stream has one, or one more than there were
\* requests that took effect without an answer.
PostedOnce ==
  \A c \in Chat : \A i, j \in StreamPosts(c) :
    i # j /\ screen[c][i].id = screen[c][j].id => <<screen[c][i].id, "unanswered">> \in trouble

\* Mattermost and WeChat post no chunk twice: a retry reads the same buffer.
CollectedOnce ==
  \A c \in Chat : style[c] \in {"mattermost", "weixin"} =>
    \A i \in StreamPosts(c) :
      LET text == screen[c][i].text IN Cardinality(Range(text)) = Len(text)

\* What is to be read in a chat: streams that ended, chunks in order, no post and no
\* chunk twice.
ScreenInv == TypeOK /\ EndedIsShown /\ PostsInOrder /\ PostedOnce /\ CollectedOnce

\* An edit adds to a post and never takes back what was to be read.
EditsExtend ==
  [][\A c \in Chat : \A i \in DOMAIN screen[c] :
       screen'[c][i].id = screen[c][i].id /\ IsPrefix(screen[c][i].text, screen'[c][i].text)]_vars

\* A follow-up is dropped as a duplicate only when its text was handed to the
\* channel before, for the same source message.
SuppressedWasSent ==
  [][\A i \in Len(handled) + 1..Len(handled') :
       LET u == handled'[i] IN
       u.kind = "followup" /\ current = <<>> =>
         \E j \in DOMAIN handled :
           /\ handled[j].kind \in {"reply", "followup"}
           /\ Origin(handled[j]) = Origin(u) /\ handled[j].part = u.part]_vars

\* What was to be read stays, and what is not sent was sent.
NothingTakenBack == EditsExtend /\ SuppressedWasSent

\* Nothing blocks the dispatcher for good, whatever requests fail.
AllHandled == []<>(current = <<>> /\ held = <<>> /\ queue = <<>>)
=============================================================================
