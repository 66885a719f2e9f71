---------------------------- MODULE GenerationMC ----------------------------
(***************************************************************************)
(* Small vocabularies and answers for TLC.  Letters stand for plain        *)
(* characters.                                                             *)
(***************************************************************************)
EXTENDS Generation

\* Letters, a CJK character in two tokens, the first with or without a space.
MixedTokens ==
    {<<"a">>, <<"b">>, <<"lead", "mid">>, <<"tail">>, <<"space", "lead", "mid">>}

\* "ab" and "bZ", so that a held-back suffix may be part of either.
MixedStops == << <<"a", "b">>, <<"b", "wide">> >>

Thought(t) == [is |-> "reason", text |-> t]
Answer == [is |-> "answer"]
Text(t) == [is |-> "text", text |-> t]
Open == [is |-> "open"]
Gap(t) == [is |-> "gap", text |-> t]
Start(name) == [is |-> "start", name |-> name]
Param(key, value) == [is |-> "param", key |-> key, value |-> value]
End == [is |-> "end"]
Line == Gap(<<"nl">>)
Close == Gap(ToolClose)

\* "s" is a string parameter, "n" is not; "get" is a known tool, "put" is not.
\* A call between text; values with newlines, with "<", with markup of their own;
\* two calls in a block and in two; an unknown tool; a call without parameters.
ToolAnswers == {
    <<Text(<<"a", "<", "tool", "b">>), Open, Line, Start("get"), Line,
      Param("s", <<"nl", "nl", "v", "nl", "w", "nl", "nl">>), Line,
      Param("n", <<"nl", "1", "nl">>), Line, End, Line, Close, Text(<<"nl", "nl", "c", "nl">>)>>,
    <<Open, Start("get"), Param("n", <<"1">>), Param("s", <<"<", "/", "v", "<">>), End, Line,
      Start("get"), End, Close, Text(<<"<", "a">>)>>,
    <<Open, Start("get"), Param("s", <<"v">> \o FnOpen \o <<"w", ">">> \o FnClose \o ToolClose),
      End, Close, Text(<<"nl">>), Open, Start("get"), Param("s", <<"nl", "nl">>), End, Close>>,
    <<Text(<<"a">>), Open, Start("put"), Param("s", <<"v", "nl">>), Param("n", <<"1">>), End,
      Start("get"), Param("s", <<>>), End, Close, Text(<<"nl", "b">>), Open, Line,
      Start("put"), End, Close, Text(<<"nl", "c">>)>>,
    <<[is |-> "think"], Thought(<<"nl", "a", "<", "nl", "nl">>), Answer, Text(<<"nl", "<", "b">>),
      Open, Start("get"), End, Close>>,
    <<Thought(<<"a", "nl", "<", "tool", "nl">>), Answer, Open, Start("get"),
      Param("s", <<"v", "nl">>), End, Close, Text(<<"c", "<">>)>>,
    <<Thought(<<>>), Answer, Text(<<"<", "<", "a">>)>>
}

ToolParsers == [family : {"qwen", "minimax"}, forward : BOOLEAN, thinking : {"none", "free", "forced"}]
=============================================================================
