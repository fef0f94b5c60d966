------------------------------- MODULE Streams ------------------------------
(***************************************************************************)
(* One upstream answer on its way to the client: the incremental framer,   *)
(* the aggregator and the rewriting of proxy/sse.rs, and the three bodies  *)
(* that use them: a Codex stream, a Codex answer that is aggregated, and a *)
(* Claude stream.                                                          *)
(*                                                                         *)
(* Bytes are CR, LF and whole lines: no other byte decides anything, and a *)
(* chunk that ends inside a line completes no frame.  What a line carries  *)
(* is given by the constants.                                              *)
(***************************************************************************)
EXTENDS Naturals, Sequences, SequencesExt, FiniteSetsExt

CONSTANTS
  CR, LF,
  Data(_),      \* the text after "data:", NoData for any other line
  NoData, Blank, Done,
  Event(_),     \* what a payload parses to
  Junk,         \* ... when it is not JSON
  WithId(_),    \* the line with previous_response_id put back into its response
  Streams,      \* what upstream may send, per mode
  MaxChunk      \* bound on the bytes of a chunk

VARIABLES
  mode,      \* "chained" | "plain" | "buffer" | "claude"
  stream,    \* everything upstream sends
  pos,       \* how much of it has arrived
  buf, scanFrom,   \* SseFramer
  agg,       \* Aggregator
  seen,      \* history: the payloads of the frames absorbed
  told,      \* the bytes handed to the client
  stored,    \* whether the transcript store has answered for the turn, and how
  counts, recorded,   \* StreamState: the latest totals, and whether they were posted
  posted,    \* the token counts posted to the record
  status,    \* the record's status
  ended

vars == <<mode, stream, pos, buf, scanFrom, agg, seen, told, stored, counts, recorded, posted, status, ended>>

----------------------------------------------------------------------------
(* Framing. *)

MaxSeparatorLen == 4

LineBreakAt(b, i) ==
  IF i > Len(b) \/ b[i] \notin {CR, LF} THEN 0
  ELSE IF b[i] = CR /\ i < Len(b) /\ b[i + 1] = LF THEN 2 ELSE 1

\* Two line breaks in a row, greedily and without backtracking; 0 for none.
SeparatorAt(b, i) ==
  LET first == LineBreakAt(b, i)
      second == LineBreakAt(b, i + first)
  IN  IF first = 0 \/ second = 0 THEN 0 ELSE first + second

\* The frames that b completes, looked for after the first `from` bytes, and
\* where the next one starts.
Scan(b, from) ==
  LET scan[i \in 0..Len(b)] ==
        IF i = 0 THEN [frames |-> <<>>, start |-> 0]
        ELSE LET s == scan[i - 1]
             IN  IF i <= from \/ i <= s.start \/ SeparatorAt(b, i) = 0 THEN s
                 ELSE [frames |-> Append(s.frames, SubSeq(b, s.start + 1, i - 1)),
                       start |-> i + SeparatorAt(b, i) - 1]
  IN  scan[Len(b)]

MutantLookBack(n) == n   \* no byte is looked at twice

\* Where the next scan starts: a separator may straddle two chunks.
LookBack(n) == IF n < MaxSeparatorLen - 1 THEN 0 ELSE n - (MaxSeparatorLen - 1)

\* The lines of a frame: a CRLF is one break, and an empty last line is none.
SplitLines(frame) ==
  LET split[i \in 1..(Len(frame) + 2)] ==
        IF i > Len(frame) THEN <<>>
        ELSE LET n == LineBreakAt(frame, i)
             IN  CASE n > 0 -> <<<<>>>> \o split[i + n]
                 [] n = 0 /\ LineBreakAt(frame, i + 1) > 0 ->
                      <<<<frame[i]>>>> \o split[i + 1 + LineBreakAt(frame, i + 1)]
                 [] OTHER -> <<<<frame[i]>>>> \o split[i + 1]
  IN  split[1]

LineData(line) == IF line = <<>> THEN NoData ELSE Data(line[1])

\* What a line adds to the payload of its frame; a break adds nothing.
Carried(line) ==
  IF line \in {CR, LF} \/ Data(line) \in {NoData, Blank} THEN <<>> ELSE <<Data(line)>>

DataOf(bytes) == FlattenSeq([k \in DOMAIN bytes |-> Carried(bytes[k])])

\* <<>> for a frame without a payload: comments, keep-alives, [DONE].
Payload(frame) == IF DataOf(frame) = <<Done>> THEN <<>> ELSE DataOf(frame)

Payloads(frames) ==
  FlattenSeq([k \in DOMAIN frames |->
                IF Payload(frames[k]) = <<>> THEN <<>> ELSE <<Payload(frames[k])>>])

\* The first data line carries the rewritten event, the other data lines go.
Rewritten(frame) ==
  LET p == Payload(frame)
      lines == SplitLines(frame)
      data == {k \in DOMAIN lines : LineData(lines[k]) # NoData}
      kept == SelectSeq([k \in DOMAIN lines |-> <<k, lines[k]>>],
                        LAMBDA l : l[1] \notin data \/ l[1] = Min(data))
      new == [k \in DOMAIN kept |-> IF kept[k][1] \in data THEN <<WithId(p)>> ELSE kept[k][2]]
  IN  IF p = <<>> \/ Event(p) = Junk \/ ~ Event(p).response THEN frame
      ELSE FoldLeft(LAMBDA text, k : text \o (IF k = 1 THEN <<>> ELSE <<LF>>) \o new[k],
                    <<>>, [k \in DOMAIN new |-> k])

----------------------------------------------------------------------------
(* Aggregation. *)

NewAggregator == [terminal |-> Junk, error |-> Junk, items |-> <<>>, next |-> 0]

\* BTreeMap::insert.
Inserted(items, index, item) ==
  [i \in DOMAIN items \cup {index} |-> IF i = index THEN item ELSE items[i]]

MutantConsume(a, frame) ==   \* the index an item states is ignored
  LET e == Event(Payload(frame))
  IN  IF a.terminal # Junk \/ Payload(frame) = <<>> \/ e = Junk THEN a
      ELSE CASE e.type = "item" ->
                  [a EXCEPT !.items = Inserted(@, a.next, e.item), !.next = @ + 1]
           [] e.type = "terminal" /\ e.response -> [a EXCEPT !.terminal = e]
           [] OTHER -> a

\* output_index: an index that is no number gives way to the next one.
Consume(a, frame) ==
  LET p == Payload(frame)
      e == Event(p)
      index == IF e.index \in Nat THEN e.index ELSE a.next
  IN  IF a.terminal # Junk \/ p = <<>> \/ e = Junk THEN a
      ELSE CASE e.type = "item" ->
                  [a EXCEPT !.items = Inserted(@, index, e.item), !.next = Max({@, index + 1})]
           [] e.type = "terminal" /\ e.response -> [a EXCEPT !.terminal = e]
           [] e.type = "error" -> [a EXCEPT !.error = e]
           [] OTHER -> a

IsDone(a) == a.terminal # Junk

\* BTreeMap::into_values: the values in the order of their keys.
Values(items) ==
  LET key(k) == CHOOSE i \in DOMAIN items : Cardinality({j \in DOMAIN items : j < i}) = k - 1
  IN  [k \in 1..Cardinality(DOMAIN items) |-> items[key(k)]]

\* The output of the answer: the terminal event's own, else the items by index.
Output(a) == IF a.terminal.output # <<>> THEN a.terminal.output ELSE Values(a.items)

----------------------------------------------------------------------------
(* What the bodies do with a frame. *)

Nothing == [input |-> Junk, output |-> Junk]

Init ==
  /\ mode \in {"chained", "plain", "buffer", "claude"}
  /\ stream \in Streams[mode]
  /\ pos = 0 /\ buf = <<>> /\ scanFrom = 0
  /\ agg = NewAggregator
  /\ seen = <<>> /\ told = <<>>
  /\ stored = "no"
  /\ counts = Nothing /\ recorded = FALSE
  /\ posted = <<>>
  /\ status = 200
  /\ ended = "no"

Or(a, b) == IF a = Junk THEN b ELSE a

Counts(e) == [input |-> e.input, output |-> e.count]

\* RequestRecord::set_tokens does nothing when both counts are absent.
SetTokens(posts, c) == IF c = Nothing THEN posts ELSE Append(posts, c)

\* Codex: every frame that carries a response with a usage block is posted.
CodexObserve(s, e) ==
  IF e # Junk /\ e.response THEN [s EXCEPT !.posted = SetTokens(@, Counts(e))] ELSE s

MutantFlush(s) == [s EXCEPT !.posted = SetTokens(@, s.counts)]   \* at both ends

\* Claude: running totals, posted once, at message_stop or when the stream is over.
Flush(s) ==
  IF s.recorded THEN s ELSE [s EXCEPT !.recorded = TRUE, !.posted = SetTokens(@, s.counts)]

ClaudeObserve(s, e) ==
  CASE e # Junk /\ e.type \in {"message_start", "message_delta"} ->
         [s EXCEPT !.counts = [input |-> Or(e.input, @.input), output |-> Or(e.count, @.output)]]
    [] e # Junk /\ e.type = "message_stop" -> Flush(s)
    [] OTHER -> s

Absorb(s, frame) ==
  LET e == IF Payload(frame) = <<>> THEN Junk ELSE Event(Payload(frame))
  IN  CASE mode = "claude" -> ClaudeObserve(s, e)
        [] mode = "buffer" -> [s EXCEPT !.agg = Consume(@, frame)]
        [] OTHER -> [CodexObserve(s, e) EXCEPT !.agg = Consume(@, frame)]

Absorbed(frames) ==
  LET absorbed[k \in 0..Len(frames)] ==
        IF k = 0 THEN [agg |-> agg, counts |-> counts, posted |-> posted, recorded |-> recorded]
        ELSE Absorb(absorbed[k - 1], frames[k])
  IN  absorbed[Len(frames)]

\* remember: the store takes the turn, or fails or panics, which is a warning and
\* no more; a response without an id or an output is no turn at all (turn_of).
Remember == stored' \in IF stored = "no" THEN {"kept", "lost"} ELSE {stored}

MutantTake(s, frames) ==   \* the turn is remembered behind the client's back
  /\ agg' = s.agg /\ counts' = s.counts /\ recorded' = s.recorded /\ posted' = s.posted
  /\ IF IsDone(agg) THEN Remember ELSE UNCHANGED stored
  /\ seen' = seen \o Payloads(frames)

\* The turn goes to the store as soon as its terminal event is read, and the
\* store has answered before the bytes that carry it go out.
Take(s, frames) ==
  /\ agg' = s.agg /\ counts' = s.counts /\ recorded' = s.recorded
  /\ posted' = IF mode = "buffer" /\ IsDone(s.agg)
               THEN SetTokens(<<>>, Counts(s.agg.terminal)) ELSE s.posted
  /\ IF IsDone(s.agg) THEN Remember ELSE UNCHANGED stored
  /\ seen' = seen \o Payloads(frames)

Forwarded(bytes, frames) ==
  IF mode = "chained"
  THEN FoldLeft(LAMBDA text, f : text \o Rewritten(f) \o <<LF, LF>>, told, frames)
  ELSE told \o bytes

----------------------------------------------------------------------------
(* The next chunk arrives.  An aggregated answer stops reading at its      *)
(* terminal event.                                                         *)
Chunk(n) ==
  LET bytes == SubSeq(stream, pos + 1, pos + n)
      b == buf \o bytes
      frames == Scan(b, scanFrom).frames
      rest == SubSeq(b, Scan(b, scanFrom).start + 1, Len(b))
      s == Absorbed(frames)
  IN  /\ ended = "no" /\ pos + n <= Len(stream)
      /\ pos' = pos + n
      /\ buf' = rest /\ scanFrom' = LookBack(Len(rest))
      /\ Take(s, frames)
      /\ \/ /\ mode = "buffer" /\ IsDone(s.agg)
            /\ ended' = "done" /\ told' = Output(s.agg)
         \/ /\ mode = "buffer" /\ ~ IsDone(s.agg)
            /\ UNCHANGED <<told, ended>>
         \/ /\ mode # "buffer"
            /\ told' = Forwarded(bytes, frames)
            /\ UNCHANGED ended
      /\ UNCHANGED <<mode, stream, status>>

\* The stream is over: the unterminated tail is one more frame.
Eof ==
  LET tail == IF buf = <<>> THEN <<>> ELSE <<buf>>
      s == IF mode = "claude" THEN Flush(Absorbed(tail)) ELSE Absorbed(tail)
  IN  /\ ended = "no" /\ pos = Len(stream)
      /\ ended' = "eof" /\ buf' = <<>> /\ scanFrom' = 0
      /\ Take(s, tail)
      /\ told' = CASE mode = "buffer" /\ IsDone(s.agg) -> Output(s.agg)
                   [] mode = "chained" /\ tail # <<>> -> told \o Rewritten(buf)
                   [] OTHER -> told
      /\ status' = IF mode = "buffer" /\ ~ IsDone(s.agg) THEN 502 ELSE status
      /\ UNCHANGED <<mode, stream, pos>>

\* The connection breaks: a Claude stream still posts what it counted.  An
\* aggregated answer is asked for once more by its caller (Forwarding).
Break ==
  LET s == IF mode = "claude" THEN Flush(Absorbed(<<>>)) ELSE Absorbed(<<>>)
  IN  /\ ended = "no" /\ pos < Len(stream)
      /\ ended' = "broken" /\ status' = 502
      /\ Take(s, <<>>)
      /\ UNCHANGED <<mode, stream, pos, buf, scanFrom, told>>

\* The client hangs up: the body is dropped where it stands.
HangUp ==
  /\ ended = "no" /\ ended' = "gone"
  /\ UNCHANGED <<mode, stream, pos, buf, scanFrom, agg, seen, told, stored, counts, recorded, posted, status>>

Next == (\E n \in 1..MaxChunk : Chunk(n)) \/ Eof \/ Break \/ HangUp

Spec == Init /\ [][Next]_vars

----------------------------------------------------------------------------
(* What an event stream means, line by line, and the promises.             *)

RefData(data) == IF data \in {<<>>, <<Done>>} THEN <<>> ELSE <<data>>

\* A line that is blank ends an event; a LF right after a CR is part of the same break.
RefStep(s, byte) ==
  IF byte \notin {CR, LF} THEN [s EXCEPT !.line = <<byte>>, !.cr = FALSE]
  ELSE IF byte = LF /\ s.cr THEN [s EXCEPT !.cr = FALSE]
  ELSE IF s.line = <<>>
       THEN [s EXCEPT !.out = @ \o RefData(s.data), !.data = <<>>, !.cr = (byte = CR)]
       ELSE [s EXCEPT !.data = @ \o Carried(s.line[1]), !.line = <<>>, !.cr = (byte = CR)]

RefStart == [line |-> <<>>, data |-> <<>>, cr |-> FALSE, out |-> <<>>]

Reference(bytes) ==
  LET ref[i \in 0..Len(bytes)] == IF i = 0 THEN RefStart ELSE RefStep(ref[i - 1], bytes[i])
  IN  ref[Len(bytes)]

Dispatched(bytes) == Reference(bytes).out

\* ... and with an unterminated last event.
Everything(bytes) ==
  LET r == Reference(bytes)
  IN  r.out \o RefData(r.data \o (IF r.line = <<>> THEN <<>> ELSE Carried(r.line[1])))

\* Wherever the chunks are cut - inside a CRLF too - the frames hold exactly
\* the events of the bytes that have arrived (SseFramer::push, flush).
ChunksDoNotMatter ==
  seen = IF ended = "eof" THEN Everything(stream) ELSE Dispatched(SubSeq(stream, 1, pos))

Told(p) == IF Event(p) # Junk /\ Event(p).response THEN <<Data(WithId(p))>> ELSE p

\* A chained client reads every event upstream sent, in order, each response
\* under the id the client chained off (rewrite_previous_response_id).
EachUnderItsId ==
  mode = "chained" =>
    LET d == IF ended = "eof" THEN Everything(stream) ELSE Dispatched(SubSeq(stream, 1, pos))
        read == IF ended = "eof" THEN Everything(told) ELSE Dispatched(told)
    IN  read = [k \in DOMAIN d |-> Told(d[k])]

\* No client can read the terminal event, and chain off its id, before the
\* store has answered for the turn (remember is awaited before the chunk is
\* yielded): it is in the store, or a warning says that chaining off it will fail.
StoredBeforeTold ==
  mode \in {"chained", "plain"} =>
    \/ stored # "no"
    \/ \A k \in DOMAIN Dispatched(told) :
         LET e == Event(Dispatched(told)[k]) IN e = Junk \/ e.type # "terminal"

\* A client that chains its turns can go on from whatever it has read, if the
\* store would have it.
ClientSeesItsChain == EachUnderItsId /\ StoredBeforeTold

\* The answer ends with the event that carries the response.
Ends(payload) ==
  Event(payload) # Junk /\ Event(payload).type = "terminal" /\ Event(payload).response

\* The items a run of payloads finished before its end.
Finished(payloads) ==
  {k \in DOMAIN payloads :
     /\ Event(payloads[k]) # Junk /\ Event(payloads[k]).type = "item"
     /\ \A j \in 1..k : ~ Ends(payloads[j])}

\* Where each of them states an index of its own, the whole list of them.
Listed(payloads) ==
  LET done == Finished(payloads)
      index(k) == Event(payloads[k]).index
  IN  /\ \A k \in done : index(k) \in Nat
      /\ \A j, k \in done : index(j) = index(k) => j = k

InOrder(payloads, list) ==
  \E order \in [1..Cardinality(Finished(payloads)) -> Finished(payloads)] :
    /\ \A m, n \in DOMAIN order : m < n => Event(payloads[order[m]]).index < Event(payloads[order[n]]).index
    /\ list = [n \in DOMAIN order |-> Event(payloads[order[n]]).item]

\* An aggregated answer that is a 200 has a terminal event and loses no item:
\* when that event has no output of its own, the items are there by index.
AnswerIsWhole ==
  mode = "buffer" /\ ended \in {"done", "eof"} =>
    /\ status = 502 <=> ~ IsDone(agg)
    /\ IsDone(agg) /\ agg.terminal.output = <<>> /\ Listed(seen) => InOrder(seen, told)

Carriers == {"message_start", "message_delta"}

Stops(payloads) ==
  {k \in DOMAIN payloads : Event(payloads[k]) # Junk /\ Event(payloads[k]).type = "message_stop"}

\* What is counted: everything before message_stop.
Counted(payloads) ==
  {k \in DOMAIN payloads :
     /\ Event(payloads[k]) # Junk /\ Event(payloads[k]).type \in Carriers
     /\ \A j \in Stops(payloads) : k < j}

\* The last total stated of a kind.
Total(payloads, kind) ==
  LET stated == {k \in Counted(payloads) : Counts(Event(payloads[k]))[kind] # Junk}
  IN  IF stated = {} THEN Junk ELSE Counts(Event(payloads[Max(stated)]))[kind]

Totals(payloads) == [input |-> Total(payloads, "input"), output |-> Total(payloads, "output")]

\* A stream the client saw to its end, or to a break, is counted once, with the
\* last totals upstream stated before message_stop, or at all when it never came.
CountedOnce ==
  mode = "claude" =>
    /\ Len(posted) <= 1
    /\ ended \in {"eof", "broken"} => posted = SetTokens(<<>>, Totals(seen))
=============================================================================
