----------------------------- MODULE ToolStream -----------------------------
(***************************************************************************)
(* A model's answer with reasoning and tool calls, streamed: the parser    *)
(* that takes the reasoning off its front (reasoning_parser.py,            *)
(* BaseReasoningParser as ThinkReasoningParser), the detector for invoke   *)
(* and parameter blocks (function_call_parser.py, InvokeParamStreamMixin   *)
(* with the grammars of Qwen3CoderDetector and MiniMaxDetector), the loop  *)
(* that drains it, and the routing of what they find to the client         *)
(* (generation.py, _generate_events_impl).  The answer arrives in pieces   *)
(* that are cut anywhere, and may end anywhere.                            *)
(*                                                                         *)
(* A text is a sequence of symbols.  A marker is three of them, the first  *)
(* "<", which text and values contain too; ">" ends the tag of a      *)
(* function or parameter; "nl" is a newline.  JSON is a sequence of        *)
(* symbols as well, without spaces or escapes: "{", a key, "quote" around  *)
(* a string, "," and "}".  Text holds no special token.                    *)
(***************************************************************************)
EXTENDS Integers, Sequences, FiniteSetsExt, SequencesExt

CONSTANTS Answers,     \* what the model writes: sequences of segments (see Render)
          Parsers,     \* [family: "qwen" | "minimax", forward: BOOLEAN,
                       \*  thinking: "none" | "free" | "forced"]
          KnownTools,  \* the request's tools
          StringKeys   \* those of their parameters that are of type string

VARIABLES
    parser,     \* the configured detector
    answer,     \* what the model writes, <<>> for a request without tools
    received,   \* how much of it has arrived
    think,      \* the reasoning parser's state
    detector,   \* the detector's state
    route,      \* what was sent, and the open call
    ended       \* the stream has been drained

toolVars == <<parser, answer, received, think, detector, route, ended>>

-----------------------------------------------------------------------------
(***************************************************************************)
(* Symbols and texts.                                                      *)
(***************************************************************************)
ThinkOpen == <<"<", "think", ">">>
ThinkClose == <<"<", "/", "think">>
ToolOpen == <<"<", "tool", ">">>
ToolClose == <<"<", "/", "tool">>
FnOpen == <<"<", "function", "=">>
FnClose == <<"<", "/", "function">>
ParOpen == <<"<", "param", "=">>
ParClose == <<"<", "/", "param">>

\* The name recover_truncated_call reads from a function tag that was cut short:
\* what there is of it and the closing marker put behind it.
CutName == "cut"

\* The place of the last symbol of a marker that starts at i.
Behind(i, marker) == i + Len(marker) - 1

Find(marker, t) ==
    LET at == {i \in 1..(Len(t) - Len(marker) + 1) :
                 SubSeq(t, i, Behind(i, marker)) = marker}
    IN IF at = {} THEN 0 ELSE Min(at)

Drop(t, n) == SubSeq(t, n + 1, Len(t))
Blank(t) == \A i \in DOMAIN t : t[i] = "nl"
Solid(t) == Max({0} \cup {i \in DOMAIN t : t[i] # "nl"})


\* _ends_with_partial_token: the shortest suffix that may grow into the marker;
\* _split_trailing_partial takes the longest, which is the same for a marker whose
\* first symbol does not come again.
Hold(marker, t) ==
    LET partial == {n \in 1..(Len(marker) - 1) :
                      n <= Len(t) /\ IsPrefix(SubSeq(t, Len(t) - n + 1, Len(t)), marker)}
    IN IF partial = {} THEN 0 ELSE Min(partial)

\* _ps_trim_leading and _ps_trim_trailing: how many newlines go, one or all
Leading(t) ==
    LET all == Max({n \in 0..Len(t) : Blank(SubSeq(t, 1, n))})
    IN IF parser.family = "qwen" THEN Min({1, all}) ELSE all

Trailing(t) == Leading(Reverse(t))
TrimTrailing(t) == SubSeq(t, 1, Len(t) - Trailing(t))
Trim(t) == TrimTrailing(Drop(t, Leading(t)))

\* A tool the request does not have is skipped unless unknown names are forwarded.
Forwarded(name) == name \in KnownTools \/ parser.forward

\* _schema_param_type is a string type; an undeclared one is "string" or "loose".
Streams(name, key) ==
    IF name \in KnownTools THEN key \in StringKeys ELSE parser.family = "qwen"

-----------------------------------------------------------------------------
(***************************************************************************)
(* The reasoning parser.  Text is reasoning up to the first ThinkClose,    *)
(* from the start on when the template has opened it, else from ThinkOpen. *)
(***************************************************************************)
Think0(p) == [buf |-> <<>>, inside |-> p.thinking = "forced", opened |-> FALSE]

Reasoned(s, reasoning, normal) == [think |-> s, reasoning |-> reasoning, normal |-> normal]

\* parse_streaming_increment of BaseReasoningParser
Reason(s, piece) ==
    LET all == s.buf \o piece
        open == IF s.opened THEN 0 ELSE Find(ThinkOpen, all)
        now == IF open = 0 THEN all
               ELSE SubSeq(all, 1, open - 1) \o Drop(all, Behind(open, ThinkOpen))
        inside == s.inside \/ open # 0
        opened == s.opened \/ open # 0
        close == Find(ThinkClose, now)
        held == Max({Hold(ThinkClose, now), IF opened THEN 0 ELSE Hold(ThinkOpen, now)})
        safe == SubSeq(now, 1, Len(now) - held)
        front == SubSeq(now, 1, close - 1)
    IN CASE parser.thinking = "none" -> Reasoned(s, <<>>, piece)
         [] parser.thinking # "none" /\ inside /\ close # 0 ->
              Reasoned([buf |-> <<>>, inside |-> FALSE, opened |-> opened],
                       SubSeq(front, 1, Solid(front)), Drop(now, Behind(close, ThinkClose)))
         [] OTHER ->
              LET t == [buf |-> Drop(now, Len(safe)), inside |-> inside, opened |-> opened]
              IN IF inside THEN Reasoned(t, safe, <<>>) ELSE Reasoned(t, <<>>, safe)

\* flush: what is held back is what the text around it was.
Flushed(s) ==
    LET t == [s EXCEPT !.buf = <<>>]
    IN IF s.inside THEN Reasoned(t, s.buf, <<>>) ELSE Reasoned(t, <<>>, s.buf)

-----------------------------------------------------------------------------
(***************************************************************************)
(* The detector: one turn of the loop of parse_streaming_increment.        *)
(***************************************************************************)
Detector0 ==
    [buf |-> <<>>, mode |-> "idle", id |-> 0, name |-> "", key |-> "", trimmed |-> FALSE,
     ledger |-> <<>>,       \* streamed_args_for_tool of the current call
     prev |-> <<>>,         \* prev_tool_call_arr: its arguments, as last parsed
     any |-> FALSE,         \* prev_tool_call_arr is not empty
     said |-> <<>>, calls |-> <<>>,     \* the increment's normal text and calls
     busy |-> FALSE]        \* the loop goes on

Stop(d) == [d EXCEPT !.busy = FALSE]
Skip(d, n) == [d EXCEPT !.buf = Drop(@, n)]
Enter(d, mode) == [d EXCEPT !.mode = mode]
Say(d, n) == [Skip(d, n) EXCEPT !.said = @ \o SubSeq(d.buf, 1, n)]

\* _emit
Emit(d, fragment) ==
    [d EXCEPT !.ledger = @ \o fragment,
              !.calls = Append(@, [id |-> d.id, name |-> "", args |-> fragment])]

\* What is streamed so far, closed.
Closed(json) ==
    IF json = <<>> THEN <<"{", "}">>
    ELSE IF Last(json) = "}" THEN json ELSE Append(json, "}")

\* _update_prev
Parsed(d) == [d EXCEPT !.prev = Closed(d.ledger)]

Lead(d) == IF d.ledger = <<>> THEN "{" ELSE ","

\* Text outside a block; text after a call waits for the next increment.
Idle(d) ==
    LET open == Find(ToolOpen, d.buf)
    IN IF d.calls # <<>> THEN Stop(d)
       ELSE IF open = 0 THEN Stop(Say(d, Len(d.buf) - Hold(ToolOpen, d.buf)))
       ELSE Enter(Skip(Say(d, open - 1), Len(ToolOpen)), "block")

\* Whitespace before the next marker is dropped.
Between(d, marker1, marker2) ==
    Stop(Skip(d, Len(d.buf) - Max({Hold(marker1, d.buf), Hold(marker2, d.buf)})))

\* The tag that opens at i with the marker: its name, and the place of its end, 0
\* when that is still to come.
Tag(d, i, marker) ==
    LET last == Behind(i, marker)
        gt == Find(<<">">>, Drop(d.buf, last))
    IN IF gt = 0 THEN [name |-> "", end |-> 0]
       ELSE [name |-> d.buf[last + 1], end |-> last + gt]

Opens(d, i, closer) == LET c == Find(closer, d.buf) IN i # 0 /\ (c = 0 \/ i < c)
Closes(d, i, closer) == LET c == Find(closer, d.buf) IN c # 0 /\ (i = 0 \/ c < i)

Block(d) ==
    LET fn == Find(FnOpen, d.buf)
        close == Find(ToolClose, d.buf)
    IN CASE Closes(d, fn, ToolClose) -> Enter(Skip(d, Behind(close, ToolClose)), "idle")
         [] Opens(d, fn, ToolClose) ->
              LET tag == Tag(d, fn, FnOpen)
              IN IF tag.end = 0 THEN Stop(d)
                 ELSE LET inside == [Skip(d, tag.end) EXCEPT !.any = TRUE]
                      IN IF ~Forwarded(tag.name) THEN Enter(inside, "skip")
                         ELSE [Enter(inside, "invoke") EXCEPT
                                 !.name = tag.name, !.prev = Closed(<<>>),
                                 !.calls = Append(@, [id |-> d.id, name |-> tag.name,
                                                      args |-> <<>>])]
         [] OTHER -> Between(d, FnOpen, ToolClose)

\* The end of a call: its JSON is closed.
EndCall(d) ==
    [Parsed(Emit(d, IF d.ledger = <<>> THEN <<"{", "}">> ELSE <<"}">>)) EXCEPT
        !.id = @ + 1, !.ledger = <<>>]

\* The start of a parameter: a string streams, another value waits for its end.
OpenParam(d, key) ==
    IF d.mode = "skip" THEN Enter(d, "pskip")
    ELSE IF Streams(d.name, key)
    THEN [Enter(Emit(d, <<Lead(d), key, "quote">>), "pstr") EXCEPT !.trimmed = FALSE]
    ELSE [Enter(d, "pbuf") EXCEPT !.key = key]

Invoke(d) ==
    LET par == Find(ParOpen, d.buf)
        close == Find(FnClose, d.buf)
    IN CASE Closes(d, par, FnClose) ->
              Enter(Skip(IF d.mode = "invoke" THEN EndCall(d) ELSE d, Behind(close, FnClose)),
                    "block")
         [] Opens(d, par, FnClose) ->
              LET tag == Tag(d, par, ParOpen)
              IN IF tag.end = 0 THEN Stop(d) ELSE OpenParam(Skip(d, tag.end), tag.name)
         [] OTHER -> Between(d, ParOpen, FnClose)

\* A string: newlines that may be the last of the value are held back.
StringValue(d) ==
    LET close == Find(ParClose, d.buf)
        lead == Leading(d.buf)
        safe == SubSeq(d.buf, 1, Len(d.buf) - Hold(ParClose, d.buf))
        solid == Solid(safe)
    IN IF ~d.trimmed /\ lead > 0
       THEN [Skip(d, lead) EXCEPT !.trimmed = parser.family = "qwen" \/ lead < Len(d.buf)]
       ELSE LET t == [d EXCEPT !.trimmed = TRUE]
            IN IF close # 0
               THEN LET tail == TrimTrailing(SubSeq(d.buf, 1, close - 1))
                    IN Enter(Skip(Parsed(Emit(t, Append(tail, "quote"))), Behind(close, ParClose)),
                             "invoke")
               ELSE IF solid = 0 THEN Stop(t)
               ELSE Stop(Skip(Emit(t, SubSeq(safe, 1, solid)), solid))

\* Any other value, or one that is skipped.
WholeValue(d) ==
    LET close == Find(ParClose, d.buf)
        raw == Trim(SubSeq(d.buf, 1, close - 1))
    IN CASE close = 0 -> Stop(d)
         [] close # 0 /\ d.mode = "pskip" -> Enter(Skip(d, Behind(close, ParClose)), "skip")
         [] OTHER -> Enter(Skip(Parsed(Emit(d, <<Lead(d), d.key>> \o raw)), Behind(close, ParClose)),
                           "invoke")

Turn(d) ==
    CASE d.mode = "idle" -> Idle(d)
      [] d.mode = "block" -> Block(d)
      [] d.mode \in {"invoke", "skip"} -> Invoke(d)
      [] d.mode = "pstr" -> StringValue(d)
      [] d.mode \in {"pbuf", "pskip"} -> WholeValue(d)

RECURSIVE Run(_)
Run(d) == IF d.buf = <<>> \/ ~d.busy THEN d ELSE Run(Turn(d))

\* parse_streaming_increment
Increment(d, piece) ==
    Run([d EXCEPT !.buf = @ \o piece, !.said = <<>>, !.calls = <<>>, !.busy = TRUE])

\* parse_stream_events: the piece, and then nothing, until there is no progress,
\* but no more than 16 times.
After(events, piece, d) ==
    LET found == (IF d.said = <<>> THEN <<>> ELSE <<[said |-> d.said, calls |-> <<>>]>>)
              \o (IF d.calls = <<>> THEN <<>> ELSE <<[said |-> <<>>, calls |-> d.calls]>>)
    IN [detector |-> d, events |-> events \o found, more |-> piece # <<>> \/ found # <<>>]

RECURSIVE Drain(_, _)
Drain(p, turns) ==
    IF turns = 0 \/ ~p.more THEN p
    ELSE Drain(After(p.events, <<>>, Increment(p.detector, <<>>)), turns - 1)

ParseEvents(d, piece) == Drain(After(<<>>, piece, Increment(d, piece)), 15)

-----------------------------------------------------------------------------
(***************************************************************************)
(* The routing to the client.  A call is shown with the fragments of its   *)
(* arguments and, when it is closed, the final ones.                       *)
(***************************************************************************)
Route0 == [sent |-> <<>>, open |-> -1, quiet |-> FALSE]

Add(items, kind, t) ==
    IF t = <<>> THEN items
    ELSE IF items # <<>> /\ Last(items).is = kind
    THEN [items EXCEPT ![Len(items)].text = @ \o t]
    ELSE Append(items, [is |-> kind, text |-> t])

Call(name, args, final) == [is |-> "call", name |-> name, args |-> args, final |-> final]

\* _close_open_call: the final arguments are what was streamed when that is JSON,
\* else what the detector last parsed.
CloseOpen(r, d) ==
    IF r.open = -1 THEN r
    ELSE LET args == Last(r.sent).args
             final == IF args # <<>> /\ Last(args) = "}" THEN args ELSE d.prev
         IN [sent |-> [r.sent EXCEPT ![Len(r.sent)].final = final], open |-> -1, quiet |-> TRUE]

\* Text closes the open call; right behind a call it is not sent while it is blank.
RouteText(r, d, t) ==
    LET c == CloseOpen(r, d)
    IN IF Blank(t) /\ c.quiet THEN c
       ELSE [c EXCEPT !.sent = Add(@, "text", t), !.quiet = @ /\ Blank(t)]

RouteFragment(r, d, f) ==
    LET new == r.open = -1 \/ (f.name # "" /\ f.id # r.open)
        c == CloseOpen(r, d)
        o == IF new THEN [c EXCEPT !.sent = Append(@, Call(f.name, <<>>, <<>>)),
                                   !.open = f.id]
             ELSE r
    IN [o EXCEPT !.sent = [@ EXCEPT ![Len(@)].args = @ \o f.args]]

\* _route_tool_text
RoutePiece(r, d, events) ==
    LET One(q, e) == IF e.calls = <<>> THEN RouteText(q, d, e.said)
                     ELSE FoldLeft(LAMBDA s, f : RouteFragment(s, d, f), q, e.calls)
    IN FoldLeft(One, r, events)

\* A content delta: reasoning first, the rest through the detector.
Sent(r, s, p) == [think |-> s, detector |-> p.detector,
                  route |-> RoutePiece(r, p.detector, p.events)]

Stream(r, d, found) ==
    Sent([r EXCEPT !.sent = Add(@, "reasoning", found.reasoning)], found.think,
         IF found.normal = <<>> THEN [detector |-> d, events |-> <<>>]
         ELSE ParseEvents(d, found.normal))

\* recover_truncated_call: the buffer, closed, is parsed again.
Recovered(d) ==
    IF parser.family = "qwen" /\ Find(FnOpen, d.buf) # 0 /\ Forwarded(CutName)
    THEN <<Call(CutName, <<>>, Closed(<<>>))>> ELSE <<>>

\* finish_streaming
Residual(d) ==
    IF d.mode # "idle" \/ Find(ToolOpen, d.buf) # 0 \/ (d.any /\ Blank(d.buf))
    THEN <<>> ELSE d.buf

\* The end-of-stream drain.
RouteEnd(r, d) ==
    LET c == CloseOpen(r, d)
        calls == [c EXCEPT !.sent = @ \o Recovered(d)]
        rest == IF Recovered(d) = <<>> THEN Residual(d) ELSE <<>>
    IN IF rest = <<>> \/ (Blank(rest) /\ c.quiet) THEN calls
       ELSE [calls EXCEPT !.sent = Add(@, "text", rest)]

-----------------------------------------------------------------------------
(***************************************************************************)
(* The answer and its pieces.                                              *)
(***************************************************************************)
\* A segment: the opening, the text and the end of the reasoning, text, a block's
\* opening, what is between markers, the start, a parameter and the end of a call.
Render(s) ==
    CASE s.is = "think" -> ThinkOpen
      [] s.is = "answer" -> ThinkClose
      [] s.is \in {"reason", "text", "gap"} -> s.text
      [] s.is = "open" -> ToolOpen
      [] s.is = "start" -> FnOpen \o <<s.name, ">">>
      [] s.is = "param" -> ParOpen \o <<s.key, ">">> \o s.value \o ParClose
      [] s.is = "end" -> FnClose

Rendered(segments) == FlattenSeq([i \in DOMAIN segments |-> Render(segments[i])])

\* The template decides whether the model is to reason, and whether its answer
\* opens the reasoning (_make_reasoning_parser follows it).
Suits(p, segments) ==
    LET has(kind) == \E i \in DOMAIN segments : segments[i].is = kind
    IN CASE p.thinking = "none" -> ~has("answer")
         [] p.thinking = "free" -> has("answer") => has("think")
         [] p.thinking = "forced" -> has("answer")

ToolInit ==
    /\ parser \in Parsers /\ answer \in {a \in Answers \ {<<>>} : Suits(parser, a)}
    /\ received = 0 /\ ended = FALSE
    /\ think = Think0(parser) /\ detector = Detector0 /\ route = Route0

\* A request without tools has no parser.
NoTools ==
    /\ parser = <<>> /\ answer = <<>> /\ received = 0 /\ ended = FALSE
    /\ think = <<>> /\ detector = Detector0 /\ route = Route0

Piece(n) == SubSeq(Rendered(answer), received + 1, received + n)
Rest == Len(Rendered(answer)) - received

State(s, d, r) == [think |-> s, detector |-> d, route |-> r]
Become(now) == think' = now.think /\ detector' = now.detector /\ route' = now.route

\* What a reply with n more symbols makes of the state.
Replied(n) ==
    IF n = 0 THEN State(think, detector, route)
    ELSE Stream(route, detector, Reason(think, Piece(n)))

Reply(n) ==
    /\ ~ended /\ received' = received + n /\ Become(Replied(n))
    /\ UNCHANGED <<parser, answer, ended>>

\* The last reply, which may have no text: the answer is over, or is cut short by
\* its length, a stop string or an end-of-sequence token anywhere.  What the
\* reasoning parser holds goes through the detector, then the detector is drained.
Flush(now) == Stream(now.route, now.detector, Flushed(now.think))
Finish(now) == State(now.think, [now.detector EXCEPT !.buf = <<>>, !.mode = "idle"],
                     RouteEnd(now.route, now.detector))

LastReply(n) ==
    /\ ~ended /\ ended' = TRUE /\ received' = received + n
    /\ Become(Finish(Flush(Replied(n))))
    /\ UNCHANGED <<parser, answer>>

ToolNext ==
    \/ \E n \in 1..Rest : Reply(n)
    \/ \E n \in 0..Rest : LastReply(n)

-----------------------------------------------------------------------------
(***************************************************************************)
(* Properties.                                                             *)
(***************************************************************************)
\* What was received: the segments that are complete, and what there is of the next.
Complete == LET Size(n) == Len(Rendered(SubSeq(answer, 1, n)))
            IN Max({n \in 0..Len(answer) : Size(n) <= received})
Partial == SubSeq(Rendered(answer), Len(Rendered(SubSeq(answer, 1, Complete))) + 1, received)

\* The same in segments; of the last one, what stands for itself.
Arrived ==
    LET cut == answer[Complete + 1].is
    IN SubSeq(answer, 1, Complete) \o
         (CASE Partial = <<>> -> <<>>
            [] Partial # <<>> /\ cut \in {"text", "open"} -> <<[is |-> "text", text |-> Partial]>>
            [] Partial # <<>> /\ cut \in {"think", "reason", "answer"} ->
                 <<[is |-> IF cut = "think" /\ parser.thinking = "free" THEN "text" ELSE "reason",
                    text |-> Partial]>>
            [] OTHER -> <<>>)

\* It ends behind the tag of a string parameter of the call, in the value.
CutInString(name) ==
    /\ Partial # <<>> /\ answer[Complete + 1].is = "param"
    /\ Streams(name, answer[Complete + 1].key)
    /\ Len(Partial) > Len(ParOpen) + 1

\* What a client should see of segments, by a reading of them one after the other:
\* of a call that has its end, the fragments make up the final arguments.
Reading(segments) ==
    LET Json(items, key, value) ==
            LET at == Len(items)
                body == IF Streams(items[at].name, key)
                        THEN <<"quote">> \o value \o <<"quote">> ELSE value
                more == <<IF items[at].final = <<>> THEN "{" ELSE ",", key>> \o body
            IN [items EXCEPT ![at].final = @ \o more]
        One(acc, s) ==
            CASE s.is = "text" -> [acc EXCEPT !.items = Add(@, "text", s.text)]
              [] s.is = "reason" -> [acc EXCEPT !.items = Add(@, "reasoning", s.text)]
              [] s.is = "start" ->
                   IF Forwarded(s.name)
                   THEN [items |-> Append(acc.items, Call(s.name, <<>>, <<>>)), shown |-> TRUE]
                   ELSE [acc EXCEPT !.shown = FALSE]
              [] s.is = "param" /\ acc.shown ->
                   [acc EXCEPT !.items = Json(@, s.key, Trim(s.value))]
              [] s.is = "end" /\ acc.shown ->
                   [acc EXCEPT !.items = [@ EXCEPT ![Len(@)].args = Closed(Last(acc.items).final)]]
              [] OTHER -> acc
        items == FoldLeft(One, [items |-> <<>>, shown |-> FALSE], segments).items
    IN [i \in DOMAIN items |->
          IF items[i].is = "call" THEN [items[i] EXCEPT !.final = Closed(@)] ELSE items[i]]

\* Newlines right behind a call, and at the end of the reasoning, are markup as
\* much as text.
Normal(items) ==
    LET Bare(i) ==
            CASE items[i].is = "text" /\ i > 1 /\ items[i - 1].is = "call" ->
                   [items[i] EXCEPT !.text = Reverse(SubSeq(Reverse(@), 1, Solid(Reverse(@))))]
              [] items[i].is = "reasoning" ->
                   [items[i] EXCEPT !.text = SubSeq(@, 1, Solid(@))]
              [] OTHER -> items[i]
        bare == [i \in DOMAIN items |-> Bare(i)]
    IN SelectSeq(bare, LAMBDA x : x.is = "call" \/ x.text # <<>>)

\* An item that is still being written, against the whole of it.
Begins(x, whole) ==
    /\ x.is = whole.is
    /\ x.is # "call" => IsPrefix(x.text, whole.text)
    /\ x.is = "call" => /\ x.name = whole.name /\ IsPrefix(x.args, whole.final)
                        /\ x.final \in {<<>>, whole.final}

\* A call that has its end was sent whole.  Of one that was cut short the fragments
\* are a beginning of what the model writes, and of the final arguments too unless
\* the cut is in a string (FragmentsFit).
FragmentsDue(x, due, whole) ==
    IF due.args # <<>> THEN x.args = due.args
    ELSE IsPrefix(x.args, whole.final) /\ (CutInString(x.name) \/ IsPrefix(x.args, x.final))


\* The fragments of a call that is closed are a prefix of its final arguments
\* ("Fragments always concatenate to a prefix of the final arguments",
\* generation.py:91-93), so that a client can top them up.
FragmentsFit ==
    \A i \in DOMAIN route.sent :
        LET x == route.sent[i]
        IN x.is = "call" /\ x.final # <<>> => IsPrefix(x.args, x.final)

=============================================================================
