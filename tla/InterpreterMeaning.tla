-------------------------- MODULE InterpreterMeaning --------------------------
(***************************************************************************)
(* What mlisj_eval replies is what the text means: the grammar says which  *)
(* object a text denotes, the meaning of that object is the result.        *)
(***************************************************************************)
EXTENDS Interpreter, LispMeaning

\* What the grammar reads the tokens of a text as.
MeantBy(tokens) == Parse(tokens, READER_MAX_NESTING_LEVEL, READER_ARRAY_BUFSIZE).obj

TextObjects == {x \in {MeantBy(s.tokens) : s \in Sources} : ~ IsError(x)}

\* The texts are what the reader asks for, and denote objects or errors.
ASSUME TextsAssumption ==
    /\ R!NestingAssumption /\ R!SourceAssumption /\ R!TokensAssumption
    /\ TextObjects \subseteq Objects

\* The reply to a result, if dest has so many bytes, one of them for the NUL.
ReplyTo(obj, size) ==
    IF obj.type = "string" /\ Len(obj.chars) + 1 <= size THEN [code |-> "OK", dest |-> obj.chars]
    ELSE Exit(IF obj.type = "string" \/ obj \in {MemoryError, VariableError} THEN "RUNTIME" ELSE "EVALUATION")

MeaningOfText ==
    LET meant == MeantBy(source.tokens) IN IF IsError(meant) THEN meant ELSE Meaning(meant, GlobalEnv)

\* What a caller relies on: whatever the text and the size of its buffer, it
\* gets the string the text denotes, whole and with room for the NUL, or the
\* exit code for the error it denotes or for a buffer that is too small, and
\* then the buffer is as it was.
ReplyIsMeaning == (reply # NONE /\ ~ mem.refused) => reply = ReplyTo(MeaningOfText, call.size)
=============================================================================
