----------------------------- MODULE Interpreter -----------------------------
(***************************************************************************)
(* From the source text to the reply: the reader and the evaluator one     *)
(* after the other, as mlisj_eval (mlisj.c) runs them on one environment.  *)
(* They share its pools and its symbol table; the evaluator starts from    *)
(* the object the reader returned and what it left of the memory.          *)
(***************************************************************************)
EXTENDS Evaluator, Grammar

CONSTANTS
    Sources, ReservedSymbols,
    READER_BUFSIZE, READER_ARRAY_BUFSIZE, READER_MAX_NESTING_LEVEL

VARIABLES source, cursor, nesting_level, reading, open

readerVars == <<source, cursor, nesting_level, reading, open>>

\* The reader, with what is proved about it.
R == INSTANCE ReaderProofs

WaitForReader == [step |-> "wait"]

InterpreterInit ==
    /\ R!Init
    /\ call \in [expr : {LispNil}, budget : {mem.free}, size : DestSizes]
    /\ control = WaitForReader
    /\ frames = <<>>
    /\ variable_stack = Globals
    /\ reply = NONE

Read ==
    /\ R!Next
    /\ UNCHANGED <<call, control, frames, variable_stack, reply>>

HasRead == R!Done /\ control = WaitForReader /\ reply = NONE

StartEvaluation ==
    /\ HasRead
    /\ ~ IsError(reading.obj)
    /\ call' = [call EXCEPT !.expr = reading.obj, !.budget = mem.free]
    /\ control' = Eval(reading.obj)
    /\ UNCHANGED <<readerVars, frames, variable_stack, mem, reply>>

CodeOfReadError(err) == IF err = ReaderError THEN "EVALUATION" ELSE "RUNTIME"

ReadFails ==
    /\ HasRead
    /\ IsError(reading.obj)
    /\ reply' = Exit(CodeOfReadError(reading.obj))
    /\ UNCHANGED <<readerVars, call, control, frames, variable_stack, mem>>

Evaluate ==
    /\ control # WaitForReader
    /\ Next
    /\ UNCHANGED readerVars

InterpreterNext == Read \/ StartEvaluation \/ ReadFails \/ Evaluate

InterpreterSpec ==
    /\ InterpreterInit
    /\ [][InterpreterNext]_<<vars, readerVars>>
    /\ WF_<<vars, readerVars>>(InterpreterNext)
-----------------------------------------------------------------------------
(* Correctness *)

\* A text that does not fit the memory left is never taken for another one:
\* from the first refused request on, in the reader or in the evaluator, the
\* call is on its way to an error and dest stays as it was.
ShortageIsNoReply == mem.refused => reply.code # "OK" /\ reply.dest = <<>>

\* mlisj_eval returns, whatever the text: reading and evaluating both end.
CallReturns == <>(reply # NONE)
=============================================================================
