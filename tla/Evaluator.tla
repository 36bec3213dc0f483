------------------------------ MODULE Evaluator ------------------------------
(***************************************************************************)
(* The evaluator (eval.c) with the stack of variable bindings (variable.c) *)
(* and what mlisj_eval (mlisj.c) makes of its result.                      *)
(*                                                                         *)
(* The C stack is written out: a frame for every eval_args that waits for  *)
(* an argument and one for every call_lambda that waits for a body form.   *)
(* An action is the code between two calls or returns of eval_expr.        *)
(***************************************************************************)
EXTENDS Builtins

CONSTANTS
    VARIABLE_STACK_SIZE,
    Programs,        \* what the reader made of the source text
    Budgets,         \* what the reader left of the pools and of the symbol table
    SourceSymbols,   \* the symbols interned by then
    Keywords,        \* the symbols whose name starts with a colon
    DestSizes        \* the sizes of the caller's buffer

ASSUME BudgetAssumption == Budgets \subseteq [MemPools -> Nat]

VARIABLES
    call,            \* the expression and the resources mlisj_eval starts with
    control,         \* the object eval_expr is called with or returns, or a call
    frames,          \* the calls waiting, innermost last
    variable_stack,  \* the bindings, innermost last
    mem,             \* see LispData
    reply            \* exit code of mlisj_eval and what it wrote to dest

vars == <<call, control, frames, variable_stack, mem, reply>>

NONE == [code |-> "none", dest |-> <<>>]

Eval(x) == [step |-> "eval", obj |-> x]
Return(x) == [step |-> "return", obj |-> x]
Apply(f, args) == [step |-> "apply", fn |-> f, args |-> args]

ArgsFrame(f, todo, done) == [kind |-> "args", fn |-> f, todo |-> todo, done |-> done]
BodyFrame(todo, saved) == [kind |-> "body", todo |-> todo, saved |-> saved]

Top == Last(frames)
ReplaceTop(frame) == Append(Front(frames), frame)
-----------------------------------------------------------------------------
(* variable.c *)

Binding(s, v) == [symbol |-> s, value |-> v]

\* What register_func_simple and register_func_skk_gadgets set.
Globals == <<
    Binding("fill-column", LispInt(V_FILL_COLUMN)),
    Binding("comment-start", LispString(V_COMMENT_START)),
    Binding("user-full-name", DynamicVal("user-full-name")),
    Binding("user-mail-address", DynamicVal("user-mail-address")),
    Binding("skk-num-list", DynamicVal("skk-num-list")) >>

ASSUME GlobalsFit ==
    VARIABLE_STACK_SIZE \in Nat /\ Len(Globals) <= VARIABLE_STACK_SIZE

\* Mutant: the outermost binding.
GetVariableOutermost(stack, s) ==
    LET bound == {i \in DOMAIN stack : stack[i].symbol = s}
    IN  IF bound = {} THEN VariableError
        ELSE stack[CHOOSE i \in bound : \A j \in bound : i <= j].value

GetVariable(stack, s) ==
    LET bound == {i \in DOMAIN stack : stack[i].symbol = s}
    IN  IF bound = {} THEN VariableError
        ELSE stack[CHOOSE i \in bound : \A j \in bound : j <= i].value

\* eval_symbol and f_symbol_value after their own tests
ValueOf(s, stack, m) ==
    LET val == GetVariable(stack, s)
    IN  IF val.type = "dynamic" THEN DynamicValue(val.fn, m) ELSE Result(val, m)
-----------------------------------------------------------------------------
(* The functions *)

DateFunctions == {"skk-current-date", "skk-relative-date"}

\* A function that returns without calling eval_expr.
CallSimple(f, args, stack, m) ==
    CASE f = "-" -> Minus(args, m)
      [] f = "car" -> Car(args, m)
      [] f = "concat" -> Concat(args, m)
      [] f = "make-string" -> MakeString(args, m)
      [] f = "string-to-char" -> StringToChar(args, m)
      [] f = "substring" -> Substring(args, m)
      [] f = "symbol-value" -> IF Len(args) = 1 /\ TypesAre(args, "symbol")
                               THEN ValueOf(args[1].name, stack, m) ELSE EvaluationFails(m)
      [] f = "pwd" -> Result(LispString(V_CWD), m)
      [] f = "window-width" -> Result(LispInt(V_WINDOW_WIDTH), m)
      [] f = "current-time-string" -> CurrentTime(args, m)
      [] f = "skk-version" -> Result(LispString(V_SKK_VERSION), m)
      [] f = "skk-times" -> SkkTimes(args, m)
      [] f = "string-to-number" -> StringToNumber(args, m)
      [] f = "skk-gadget-units-conversion" -> SkkGadgetUnitsConversion(args, m)
      [] f = "skk-ad-to-gengo" -> SkkAdToGengo(args, m)
      [] f = "skk-gengo-to-ad" -> SkkGengoToAd(args, m)
      [] f = "skk-default-current-date" -> DefaultCurrentDate(args, m)

SimpleFunctions == {"-", "car", "concat", "make-string", "string-to-char", "string-to-number",
    "substring", "symbol-value", "pwd", "window-width", "current-time-string", "skk-version",
    "skk-times", "skk-gadget-units-conversion", "skk-ad-to-gengo", "skk-gengo-to-ad",
    "skk-default-current-date"}

Functions == SimpleFunctions \cup DateFunctions

\* The date the two date functions start from, as a list.
DateList(f, args, m) ==
    LET split(yy, mm, dd, left) == With(DateTime(yy, mm, dd), LAMBDA date : SplitTimeString(left, date))
    IN  IF f = "skk-current-date"
        THEN IF Len(args) > 3 THEN EvaluationFails(m) ELSE split(0, 0, 0, m)
        ELSE IF Len(args) < 3 THEN EvaluationFails(m)
        ELSE Then(InternOffsets(m), LAMBDA dd, left :
                IF OffsetsOK(args)
                THEN split(Offset(args, ":yy"), Offset(args, ":mm"), Offset(args, ":dd"), left)
                ELSE EvaluationFails(left))

\* The list passed to pp_function.
LambdaArgs(f, args, date, m) ==
    NewList(m, <<date, OptionalArg(args, 2),
                 IF f = "skk-current-date" THEN LispInt(1) ELSE LispNil,
                 OptionalArg(args, 3)>>, MemoryError)

-----------------------------------------------------------------------------
(* Steps.  The machine goes on with what one allocation or call gave:        *)

Continue(result) ==
    /\ \E r \in {result} : control' = Return(r.val) /\ mem' = r.mem
    /\ UNCHANGED frames

Init ==
    /\ call \in [expr : Programs, budget : Budgets, size : DestSizes]
    /\ control = Eval(call.expr)
    /\ frames = <<>>
    /\ variable_stack = Globals
    /\ mem = Memory(call.budget, SourceSymbols)
    /\ reply = NONE

Evaluating(type) == control.step = "eval" /\ control.obj.type = type

EvalSelf ==
    /\ \E type \in {"int", "float", "string", "nil"} : Evaluating(type)
    /\ control' = Return(control.obj)
    /\ UNCHANGED <<call, frames, variable_stack, mem, reply>>

EvalSymbol ==
    /\ Evaluating("symbol")
    /\ Continue(IF control.obj.name \in Keywords THEN Result(control.obj, mem)
                ELSE ValueOf(control.obj.name, variable_stack, mem))
    /\ UNCHANGED <<call, variable_stack, reply>>

Items == control.obj.items
HeadIs(name) == Items # <<>> /\ Items[1] = LispSymbol(name)
IsFunctionCall == Items # <<>> /\ \E f \in Functions : HeadIs(f)

\* The lists that are not function calls.
EvalSpecial ==
    /\ Evaluating("list")
    /\ ~ IsFunctionCall
    /\ control' = Return(IF Items = <<>> \/ HeadIs("lambda") THEN control.obj
                         ELSE IF HeadIs("quote") /\ Len(Items) = 2 THEN Items[2]
                         ELSE EvaluationError)
    /\ UNCHANGED <<call, frames, variable_stack, mem, reply>>

\* Mutant: the arguments without the node of the list of forms.
MakeArgsWithoutCdr(m, args) == NewList(m, args, EvaluationError)

\* cdr_narray, then the array for the arguments (eval_args)
MakeArgs(m, args) ==
    IF HasFree(m, "narray", 1) THEN NewList(Spend(m, "narray", 1), args, EvaluationError)
    ELSE Refused(EvaluationError, m)

EvalCall ==
    /\ Evaluating("list")
    /\ IsFunctionCall
    /\ LET f == Items[1].name
           todo == Tail(Items)
           room == MakeArgs(mem, todo)
       IN  /\ mem' = room.mem
           /\ IF IsError(room.val)
              THEN control' = Return(room.val) /\ UNCHANGED frames
              ELSE IF todo = <<>>
              THEN control' = Apply(f, <<>>) /\ UNCHANGED frames
              ELSE /\ control' = Eval(Head(todo))
                   /\ frames' = Append(frames, ArgsFrame(f, Tail(todo), <<>>))
    /\ UNCHANGED <<call, variable_stack, reply>>

Returning(kind) == control.step = "return" /\ frames # <<>> /\ Top.kind = kind

\* Mutants: an error is an argument like any other; the loop does not advance.
ReturnToArgsKeepingErrors ==
    /\ Returning("args")
    /\ LET done == Append(Top.done, control.obj)
       IN  IF Top.todo = <<>>
           THEN frames' = Front(frames) /\ control' = Apply(Top.fn, done)
           ELSE /\ frames' = ReplaceTop(ArgsFrame(Top.fn, Tail(Top.todo), done))
                /\ control' = Eval(Head(Top.todo))
    /\ UNCHANGED <<call, variable_stack, mem, reply>>

ReturnToArgsRepeating ==
    /\ Returning("args")
    /\ IF IsError(control.obj)
       THEN frames' = Front(frames) /\ UNCHANGED control
       ELSE IF Top.todo = <<>>
       THEN frames' = Front(frames) /\ control' = Apply(Top.fn, Append(Top.done, control.obj))
       ELSE control' = Eval(Head(Top.todo)) /\ UNCHANGED frames
    /\ UNCHANGED <<call, variable_stack, mem, reply>>

ReturnToArgs ==
    /\ Returning("args")
    /\ LET done == Append(Top.done, control.obj)
       IN  IF IsError(control.obj)
           THEN frames' = Front(frames) /\ UNCHANGED control
           ELSE IF Top.todo = <<>>
           THEN frames' = Front(frames) /\ control' = Apply(Top.fn, done)
           ELSE /\ frames' = ReplaceTop(ArgsFrame(Top.fn, Tail(Top.todo), done))
                /\ control' = Eval(Head(Top.todo))
    /\ UNCHANGED <<call, variable_stack, mem, reply>>

\* Mutant: the bindings stay.
ReturnToBodyKeepingBindings ==
    /\ Returning("body")
    /\ IF IsError(control.obj) \/ Top.todo = <<>>
       THEN frames' = Front(frames) /\ UNCHANGED control
       ELSE /\ frames' = ReplaceTop(BodyFrame(Tail(Top.todo), Top.saved))
            /\ control' = Eval(Head(Top.todo))
    /\ UNCHANGED <<call, variable_stack, mem, reply>>

\* The bindings are dropped after the last form and after an error.
ReturnToBody ==
    /\ Returning("body")
    /\ IF IsError(control.obj) \/ Top.todo = <<>>
       THEN /\ variable_stack' = SubSeq(variable_stack, 1, Top.saved)
            /\ frames' = Front(frames)
            /\ UNCHANGED control
       ELSE /\ frames' = ReplaceTop(BodyFrame(Tail(Top.todo), Top.saved))
            /\ control' = Eval(Head(Top.todo))
            /\ UNCHANGED variable_stack
    /\ UNCHANGED <<call, mem, reply>>

ApplySimple ==
    /\ control.step = "apply"
    /\ control.fn \notin DateFunctions
    /\ Continue(CallSimple(control.fn, control.args, variable_stack, mem))
    /\ UNCHANGED <<call, variable_stack, reply>>

\* The first tests of call_lambda.
IsLambda(x, args) ==
    /\ x.type = "list" /\ Len(x.items) >= 2
    /\ x.items[1] = LispSymbol("lambda")
    /\ x.items[2].type = "list" /\ Len(x.items[2].items) = Len(args)

\* Mutant: set_variable without its test.
BindableUnbounded(params, args) ==
    Max({n \in 0 .. Len(args) : \A i \in 1 .. n : params[i].type = "symbol"})

\* How many parameters get bound before one is no symbol or the stack is full.
Bindable(params, args) ==
    Max({n \in 0 .. Len(args) : /\ \A i \in 1 .. n : params[i].type = "symbol"
                                /\ Len(variable_stack) + n <= VARIABLE_STACK_SIZE})

\* When it fails while binding, the bindings made so far stay.
CallLambda(lambda, args, m) ==
    IF ~ IsLambda(lambda, args)
    THEN Continue(EvaluationFails(m)) /\ UNCHANGED variable_stack
    ELSE LET params == lambda.items[2].items
             body == SubSeq(lambda.items, 3, Len(lambda.items))
         IN  \E n \in {Bindable(params, args)} :
             LET bound == variable_stack \o [i \in 1 .. n |-> Binding(params[i].name, args[i])]
             IN  IF n < Len(args)
                 THEN /\ variable_stack' = bound
                      /\ Continue(IF params[n + 1].type = "symbol" THEN Refused(EvaluationError, m)
                                  ELSE EvaluationFails(m))
                 ELSE IF body = <<>>
                 THEN Continue(Result(LispNil, m)) /\ UNCHANGED variable_stack
                 ELSE /\ variable_stack' = bound
                      /\ frames' = Append(frames, BodyFrame(Tail(body), Len(variable_stack)))
                      /\ control' = Eval(Head(body))
                      /\ mem' = m

ApplyDate ==
    /\ control.step = "apply"
    /\ control.fn \in DateFunctions
    /\ \E date \in {DateList(control.fn, control.args, mem)} :
       LET pp_function == OptionalArg(control.args, 1)
       IN  IF IsError(date.val)
           THEN Continue(date) /\ UNCHANGED variable_stack
           ELSE IF pp_function = LispNil
           THEN Continue(DefaultDate(date.val, date.mem)) /\ UNCHANGED variable_stack
           ELSE \E list \in {LambdaArgs(control.fn, control.args, date.val, date.mem)} :
                    IF IsError(list.val)
                    THEN Continue(list) /\ UNCHANGED variable_stack
                    ELSE CallLambda(pp_function, list.val.items, list.mem)
    /\ UNCHANGED <<call, reply>>

Exit(code) == [code |-> code, dest |-> <<>>]

\* Mutant: the NUL of the result is forgotten.
ReplyWithoutNul(r) ==
    CASE r.type = "string" -> IF Len(r.chars) <= call.size
                              THEN [code |-> "OK", dest |-> r.chars] ELSE Exit("RUNTIME")
      [] r.type = "error" -> IF r = EvaluationError THEN Exit("EVALUATION") ELSE Exit("RUNTIME")
      [] OTHER -> Exit("EVALUATION")

\* dest is written only with exit code 0.
Reply(r) ==
    CASE r.type = "string" -> IF Len(r.chars) + 1 <= call.size
                              THEN [code |-> "OK", dest |-> r.chars] ELSE Exit("RUNTIME")
      [] r.type = "error" -> IF r = EvaluationError THEN Exit("EVALUATION") ELSE Exit("RUNTIME")
      [] OTHER -> Exit("EVALUATION")

\* mlisj_eval after eval_expr.  What follows undefined behaviour is not modelled.
Finish ==
    /\ control.step = "return" /\ frames = <<>> /\ reply = NONE
    /\ control.obj # Undefined
    /\ reply' = Reply(control.obj)
    /\ UNCHANGED <<call, control, frames, variable_stack, mem>>

Next ==
    \/ EvalSelf \/ EvalSymbol \/ EvalSpecial \/ EvalCall
    \/ ReturnToArgs \/ ReturnToBody
    \/ ApplySimple \/ ApplyDate
    \/ Finish

\* The program runs on as long as it can: it waits for nobody.
Spec == Init /\ [][Next]_vars /\ WF_vars(Next)
-----------------------------------------------------------------------------
(* Correctness *)

Failing == control.step = "return" /\ IsError(control.obj)

FramesOf(kind) == {i \in DOMAIN frames : frames[i].kind = kind}

TypeOK ==
    /\ call \in [expr : Programs, budget : Budgets, size : DestSizes]
    /\ control.step \in {"eval", "return", "apply"}
    /\ control.step = "apply" => control.fn \in Functions
    /\ \A i \in FramesOf("args") : frames[i].fn \in Functions
    /\ \A i \in FramesOf("body") : frames[i].saved \in Len(Globals) .. VARIABLE_STACK_SIZE
    /\ FramesOf("args") \cup FramesOf("body") = DOMAIN frames
    /\ Len(variable_stack) <= VARIABLE_STACK_SIZE
    /\ mem.free \in [MemPools -> Nat]
    /\ reply.code \in {"none", "OK", "EVALUATION", "RUNTIME"}

\* Dynamic scoping: while no error is on its way out, the stack is the builtin
\* variables and four bindings for every lambda still running, each lambda
\* knows where its own begin, and when no lambda runs nothing of one is left.
LambdaBindingsNest ==
    ~ Failing =>
        /\ SubSeq(variable_stack, 1, Len(Globals)) = Globals
        /\ LET running(i) == {j \in FramesOf("body") : j < i}
           IN  /\ \A i \in FramesOf("body") :
                      frames[i].saved = Len(Globals) + 4 * Cardinality(running(i))
               /\ Len(variable_stack) =
                      Len(Globals) + 4 * Cardinality(running(Len(frames) + 1))

\* No allocation failure is ever mistaken for a value: from a refused request
\* on the evaluator returns an error, and nothing reaches the caller's buffer.
ExhaustionIsAnError ==
    mem.refused => Failing /\ reply.dest = <<>> /\ reply.code # "OK"

\* The C stack is bounded by the node pool: every waiting call, of eval_args or
\* of call_lambda, has two nodes of its own.
CallsArePaidFor == 2 * Len(frames) + mem.free["narray"] <= call.budget["narray"]

\* README "Returns immediately if there is an execution error": an error is
\* handed from frame to frame as it is, and nothing else is evaluated,
\* allocated or written to the caller's buffer.
ErrorsReturnImmediately ==
    [][Failing => /\ UNCHANGED <<control, mem>>
                  /\ frames' = IF frames = <<>> THEN <<>> ELSE Front(frames)
                  /\ reply'.dest = <<>>]_vars

\* A call of mlisj_eval always returns.
Terminates == <>(reply # NONE)

\* The tests at the head of a function, such as the CHECK_CONDITION of
\* f_skk_default_current_date on seven or eight arguments, keep it from reading
\* what it was not given: no call is left to undefined behaviour.
CallsAreDefined == control # Return(Undefined)

\* README on MLISJ_ERROR_RUNTIME: "Execution error.  When the allocated memory
\* resources are used up, etc."
ExhaustionIsARuntimeError ==
    (mem.refused /\ reply # NONE) => reply.code = "RUNTIME"
=============================================================================
