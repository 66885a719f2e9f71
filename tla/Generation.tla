----------------------------- MODULE Generation -----------------------------
(***************************************************************************)
(* The text of one request on its way to the client.  A request without    *)
(* tools is sent the worker's text as it comes (Detokenizer); that of a    *)
(* request with tools goes through the tool-call parser (ToolStream).      *)
(* What the parser is given is what TextExact says of the worker: pieces   *)
(* of the model's text, in order, none taken back.                         *)
(***************************************************************************)
EXTENDS Detokenizer, ToolStream

generationVars == <<vars, toolVars>>

GenerationInit == Init /\ (NoTools \/ ToolInit)

\* A content delta of generate_events.
GenerationNext ==
    \/ answer = <<>> /\ Next /\ UNCHANGED toolVars
    \/ answer # <<>> /\ ToolNext /\ UNCHANGED vars

GenerationSpec == GenerationInit /\ [][GenerationNext]_generationVars
=============================================================================
