---------------------------- MODULE Detokenizer ----------------------------
(***************************************************************************)
(* The way of a request's text from sampled tokens to the client: the      *)
(* scheduler ends the request at a stop string it sees in a short tail     *)
(* (scheduler.py, _match_stop_str), and the detokenizer worker turns the   *)
(* tokens into text that is streamed without ever being taken back         *)
(* (tokenizer/detokenize.py, tokenizer/server.py).  A character may be     *)
(* split over tokens, and so may a stop string.                            *)
(*                                                                         *)
(* The decode states of different uids share nothing, and a worker takes   *)
(* one message at a time (local_bs is 1, server/launch.py:185), so one     *)
(* request is modelled.  The worker's queue is the only channel: replies   *)
(* reach the client in the order the worker sends them.                    *)
(*                                                                         *)
(* The tokenizer is byte-level: a token is a sequence of bytes.  "lead",   *)
(* "mid" and "tail" are the bytes of a CJK character, which decodes to     *)
(* "wide"; a piece of one decodes to "bad", the replacement character;     *)
(* every other byte is the character itself.                               *)
(***************************************************************************)
EXTENDS Integers, Sequences, FiniteSetsExt, SequencesExt

CONSTANTS Tokens,      \* the vocabulary, without Eos
          Eos,         \* an end-of-sequence token
          Stops,       \* stop_strs: a sequence of non-empty texts
          MaxTokens,   \* the request's max_tokens
          None

ASSUME TokensAssumption == Eos \notin Tokens /\ MaxTokens \in Nat \ {0}
ASSUME StopsAssumption == \A i \in DOMAIN Stops : Stops[i] # <<>>

VARIABLES
    ids,        \* the tokens generated (req.input_ids after the prompt)
    over,       \* the scheduler will publish nothing more: None | "finished" | "aborted"
    abort,      \* the abort: None | "sent" | "known" (to the scheduler)
    queue,      \* messages to the detokenizer worker
    status,     \* decode_map[uid], None when there is no entry
    text,       \* what the client was sent
    client      \* how the client's stream ended: None | "finished" | "left"

vars == <<ids, over, abort, queue, status, text, client>>

Init ==
    /\ ids = <<>> /\ over = None /\ abort = None /\ queue = <<>>
    /\ status = None /\ text = <<>> /\ client = None

-----------------------------------------------------------------------------
(***************************************************************************)
(* Texts.                                                                  *)
(***************************************************************************)
Pieces == {"lead", "mid", "tail"}

\* tokenizer.decode
Decode(tokens) ==
    LET bytes == FlattenSeq(tokens)
        At(i, piece) == i \in DOMAIN bytes /\ bytes[i] = piece
        Char(i) ==
            CASE bytes[i] \notin Pieces -> <<bytes[i]>>
              [] At(i, "lead") -> IF At(i + 1, "mid") /\ At(i + 2, "tail")
                                  THEN <<"wide">> ELSE <<"bad">>
              [] At(i, "mid") -> IF At(i - 1, "lead") THEN <<>> ELSE <<"bad">>
              [] At(i, "tail") -> IF At(i - 2, "lead") /\ At(i - 1, "mid")
                                  THEN <<>> ELSE <<"bad">>
    IN FlattenSeq([i \in DOMAIN bytes |-> Char(i)])

Occurs(stop, t) == stop \in SubSeqs(t)
Before(stop, t) == SubSeq(t, 1, IndexFirstSubSeq(stop, t) - 1)

\* find_printable_text: entire words, or up to a CJK character
Printable(t) ==
    IF t = <<>> \/ Last(t) \in {"newline", "wide"} THEN t
    ELSE IF Len(t) > 1 /\ t[Len(t) - 1] = "wide" THEN Front(t)
    ELSE SubSeq(t, 1, Max({0} \cup {i \in DOMAIN t : t[i] = "space"}))

\* Mutation: a suffix one character short of the stop is not held back.
Holdback_Short(t) ==
    Max({0} \cup {n \in 1..Len(t) : \E i \in DOMAIN Stops :
            n < Len(Stops[i]) - 1 /\ IsSuffix(SubSeq(Stops[i], 1, n), t)})

\* _stop_prefix_holdback: the longest suffix that may grow into a stop string
Holdback(t) ==
    Max({0} \cup {n \in 1..Len(t) : \E i \in DOMAIN Stops :
            n < Len(Stops[i]) /\ IsSuffix(SubSeq(Stops[i], 1, n), t)})

-----------------------------------------------------------------------------
(***************************************************************************)
(* The scheduler.                                                          *)
(***************************************************************************)
\* _match_stop_str: the first of the stop strings that the last tokens hold,
\* one more than the longest has characters.
MatchedStop(tokens) ==
    LET window == 1 + Max({0} \cup {Len(Stops[i]) : i \in DOMAIN Stops})
        tail == Decode(SubSeq(tokens, Max({1, Len(tokens) - window + 1}), Len(tokens)))
        hits == {i \in DOMAIN Stops : Occurs(Stops[i], tail)}
    IN IF hits = {} THEN None ELSE Stops[Min(hits)]

\* A sampled token is published, with the terminal flag (_process_last_data).
Sample(token) ==
    /\ over = None
    /\ LET tokens == Append(ids, token)
           stop == IF token = Eos THEN None ELSE MatchedStop(tokens)
           finished == token = Eos \/ stop # None \/ Len(tokens) >= MaxTokens
       IN /\ ids' = tokens
          /\ over' = IF finished THEN "finished" ELSE None
          /\ queue' = Append(queue, [kind |-> "token", token |-> token,
                                     finished |-> finished, stop |-> stop])
    /\ UNCHANGED <<abort, status, text, client>>

\* An abort is acknowledged, even one that came after the end: the last message
\* for the uid (_flush_abort_acks).
Acknowledge ==
    /\ abort = "known" /\ abort' = None
    /\ over' = IF over = None THEN "aborted" ELSE over
    /\ queue' = Append(queue, [kind |-> "error"])
    /\ UNCHANGED <<ids, status, text, client>>

-----------------------------------------------------------------------------
(***************************************************************************)
(* The frontend.                                                           *)
(***************************************************************************)
\* The client leaves: what comes after is dropped, and an AbortMsg goes out by
\* way of another worker, or of this one when there is no other (num_tokenizer 0).
Leave ==
    /\ client = None /\ client' = "left"
    /\ \/ abort' = "sent" /\ queue' = Append(queue, [kind |-> "abort"])
       \/ abort' = "known" /\ UNCHANGED queue
    /\ UNCHANGED <<ids, over, status, text>>

-----------------------------------------------------------------------------
(***************************************************************************)
(* The worker: one message of its queue (tokenize_worker).                 *)
(***************************************************************************)
Fresh == [ids |-> <<>>, str |-> <<>>, read |-> 0, surr |-> 0, sent |-> 0]

\* How much of the output may be sent.
EmitEnd(m, out) ==
    IF ~m.finished THEN Len(out) - Holdback(out)
    ELSE IF m.stop # None /\ Occurs(m.stop, out) THEN Len(Before(m.stop, out))
    ELSE Len(out)

\* DetokenizeManager.detokenize.  Text counts as read when it does not end within
\* a character; what is read is decoded once more, as the context of the rest.
Detokenize ==
    /\ queue # <<>> /\ Head(queue).kind = "token"
    /\ queue' = Tail(queue)
    /\ LET m == Head(queue)
           s == IF status = None THEN Fresh ELSE status
           all == IF m.finished /\ m.token = Eos THEN s.ids ELSE Append(s.ids, m.token)
           context == Decode(SubSeq(all, s.surr + 1, s.read))
           read == Decode(SubSeq(all, s.surr + 1, Len(all)))
           new == SubSeq(read, Len(context) + 1, Len(read))
           whole == new # <<>> /\ Last(new) # "bad"
           out == s.str \o (IF whole THEN new ELSE Printable(new))
           end == EmitEnd(m, out)
       IN /\ text' = IF client = None THEN text \o SubSeq(out, s.sent + 1, end) ELSE text
          /\ client' = IF client = None /\ m.finished THEN "finished" ELSE client
          /\ status' = IF m.finished THEN None
                       ELSE [ids |-> all, sent |-> Max({s.sent, end}),
                             str |-> IF whole THEN out ELSE s.str,
                             surr |-> IF whole THEN s.read ELSE s.surr,
                             read |-> IF whole THEN Len(all) ELSE s.read]
    /\ UNCHANGED <<ids, over, abort>>

\* Mutation: an error reply, terminal for its uid, leaves the decode state.
TakeError_Keeps ==
    /\ queue # <<>> /\ Head(queue).kind = "error"
    /\ queue' = Tail(queue)
    /\ UNCHANGED <<ids, over, abort, text, status, client>>

\* An error reply is terminal for its uid: its decode state is discarded.  The
\* client it acknowledges has left.
TakeError ==
    /\ queue # <<>> /\ Head(queue).kind = "error"
    /\ queue' = Tail(queue) /\ status' = None
    /\ UNCHANGED <<ids, over, abort, text, client>>

\* An AbortMsg discards too, and goes on to the scheduler; tokens that the
\* scheduler had published by then come after it.
TakeAbort ==
    /\ queue # <<>> /\ Head(queue).kind = "abort"
    /\ queue' = Tail(queue) /\ status' = None /\ abort' = "known"
    /\ UNCHANGED <<ids, over, text, client>>

Next ==
    \/ \E token \in Tokens \cup {Eos} : Sample(token)
    \/ Acknowledge \/ Leave \/ Detokenize \/ TakeError \/ TakeAbort

Spec == Init /\ [][Next]_vars

-----------------------------------------------------------------------------
(***************************************************************************)
(* Properties.                                                             *)
(***************************************************************************)
\* What the client is to read: everything that was generated, up to the stop
\* string it contains, if any, and without a last character cut short.
Promised ==
    LET t == Decode(SelectSeq(ids, LAMBDA token : token # Eos))
        hits == {i \in DOMAIN Stops : Occurs(Stops[i], t)}
        whole == Max({0} \cup {i \in DOMAIN t : t[i] # "bad"})
    IN IF hits # {} THEN Before(Stops[Min(hits)], t) ELSE SubSeq(t, 1, whole)

\* While it streams the client has a prefix of the text, and no part of a stop
\* string that completes later; at the end it has all of it, what was held back
\* included, although the text is decoded from windows of the tokens and the stop
\* is looked for in another (detokenize.py:54-57, 135; scheduler.py:481-483).
TextExact ==
    /\ IsPrefix(text, Promised)
    /\ client = "finished" => text = Promised

\* Once nothing more will come for a uid its decode state is gone: a token behind
\* the abort makes it anew, and the acknowledgement behind that token discards it
\* (detokenize.py:87-91).
NoStateLeft ==
    over # None /\ abort = None /\ (\A i \in DOMAIN queue : queue[i].kind = "abort")
        => status = None

=============================================================================
