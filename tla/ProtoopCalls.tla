---------------------------- MODULE ProtoopCalls ----------------------------
(***************************************************************************)
(* The running of protocol operations: plugin_run_protoop_internal and the *)
(* fields of the connection context through which a caller, the operation  *)
(* and its observers exchange arguments and results.                       *)
(*                                                                         *)
(* Every piece of code that runs, a pluglet or a core function, is a frame *)
(* of "stack": the operation it runs for and the stage of that operation   *)
(* (its i-th pre observer, the operation itself, its i-th post observer).  *)
(* The code on top of the stack may call an operation, set an output or    *)
(* return.  The operations and what is plugged in them are constant here;  *)
(* how they come to be plugged is the subject of PluginLoad.               *)
(***************************************************************************)
EXTENDS Integers, Sequences, FiniteSets

CONSTANTS
    Ops,             \* <<pid, param>> |-> [core, intern, replace, pre, post]
    Parametrable,    \* the protocol operations that take a parameter
    NO_PARAM,        \* the parameter under which the default behaviour is kept
    Calls,           \* the <<pid, param>> that code may call
    None,            \* NULL
    Values,          \* the values of arguments and results
    PROTOOPARGS_MAX, \* bound: the number of inputs and of outputs
    MaxDepth,        \* bound: nested calls
    MaxSteps         \* bound: calls and outputs of one behaviour

ASSUME CallsAssumption == PROTOOPARGS_MAX \in Nat /\ Values # {}

VARIABLES
    cnx,     \* the fields of the connection context
    running, \* the operations whose flag "running" is set
    stack,   \* the code that runs, innermost last
    fatal,   \* "no", "exit": the process exited, "null": it wrote through NULL
    results, \* what the last finished call returned to its caller
    steps

call_vars == <<cnx, running, stack, fatal, results, steps>>

Blank == [i \in 1 .. PROTOOPARGS_MAX |-> CHOOSE v \in Values : TRUE]

CallInit ==
    /\ cnx = [plugin |-> None, protoop |-> None, anchor |-> "extern",
              inputv |-> Blank, inputc |-> 0, outputv |-> Blank, outputc |-> 0,
              output |-> 0, previous |-> None]
    /\ running = {}
    /\ stack = <<>>
    /\ fatal = "no"
    /\ results = [plugin |-> None, ran |-> None]
    /\ steps = 0

-----------------------------------------------------------------------------
(* memcpy of the first n entries. *)
Copy(dst, src, n) == [i \in DOMAIN dst |-> IF i <= n THEN src[i] ELSE dst[i]]

(* The entry of the operation, by parameter and then by default. *)
Resolve(k) ==
    IF k[1] \notin Parametrable THEN k
    ELSE IF k \in DOMAIN Ops THEN k
    ELSE IF <<k[1], NO_PARAM>> \in DOMAIN Ops THEN <<k[1], NO_PARAM>>
    ELSE None

Exists(k) == \E d \in DOMAIN Ops : d[1] = k[1]

(* The code that runs. *)
Top == stack[Len(stack)]

(* A call loop: the operation is already in the call stack. *)
Loops(r) == r \in running

(* What the caller of an operation keeps in its C variables. *)
Saved(c) == [plugin |-> c.plugin, protoop |-> c.protoop, anchor |-> c.anchor,
             inputv |-> c.inputv, inputc |-> c.inputc,
             outputv |-> c.outputv, outputc |-> c.outputc]

(* What the code on top of the stack can see of the context. *)
View(c) == [plugin |-> c.plugin, protoop |-> c.protoop, anchor |-> c.anchor,
            inputs |-> SubSeq(c.inputv, 1, c.inputc),
            outputs |-> SubSeq(c.outputv, 1, c.outputc)]

-----------------------------------------------------------------------------
(* The stages of an operation: its pre observers, itself, its observers    *)
(* after.  A stage is [anchor, i]; the last one is "done".                  *)
FirstPost(o) == IF o.post = <<>> THEN [anchor |-> "done", i |-> 0] ELSE [anchor |-> "post", i |-> 1]

Following(o, stage) ==
    CASE stage.anchor = "start" -> IF o.pre = <<>> THEN [anchor |-> "main", i |-> 0]
                                   ELSE [anchor |-> "pre", i |-> 1]
      [] stage.anchor = "pre"   -> IF stage.i = Len(o.pre) THEN [anchor |-> "main", i |-> 0]
                                   ELSE [stage EXCEPT !.i = @ + 1]
      [] stage.anchor = "main"  -> FirstPost(o)
      [] stage.anchor = "post"  -> IF stage.i = Len(o.post) THEN [anchor |-> "done", i |-> 0]
                                   ELSE [stage EXCEPT !.i = @ + 1]

(* The context when the code of a stage starts. *)
Enter(c, o, stage) ==
    CASE stage.anchor = "pre"  -> [c EXCEPT !.plugin = o.pre[stage.i], !.anchor = "pre"]
      [] stage.anchor = "post" -> [c EXCEPT !.plugin = o.post[stage.i], !.anchor = "post"]
      [] stage.anchor = "main" -> IF o.replace # None
                                  THEN [c EXCEPT !.plugin = o.replace, !.anchor = "replace"]
                                  ELSE [c EXCEPT !.plugin = None]

(* The context when the code of a stage has returned the value v. *)
Leave(c, o, stage, v) ==
    IF stage.anchor # "main" THEN c
    ELSE [c EXCEPT !.previous = IF o.replace # None THEN c.plugin ELSE @,
                   !.output = IF o.post # <<>> THEN v ELSE @]

(* The C variable replace_plugin of the call when the code of a stage has  *)
(* returned: what the context then names as the current plugin, if it was  *)
(* the pluglet that replaces the operation.                                 *)
replace_plugin(c, o, f) ==
    IF f.stage.anchor = "main" /\ o.replace # None THEN c.plugin ELSE f.replace_plugin

(* After the last stage: the caller's context is put back. *)
Restore_KeepsPrevious(c, ran, s) ==
    [c EXCEPT !.inputv = Copy(@, s.inputv, s.inputc), !.outputv = Copy(@, s.outputv, s.outputc),
              !.inputc = s.inputc, !.outputc = s.outputc, !.output = 0,
              !.plugin = s.plugin, !.protoop = s.protoop, !.anchor = s.anchor]

Restore(c, ran, s) ==
    [c EXCEPT !.inputv = Copy(@, s.inputv, s.inputc), !.outputv = Copy(@, s.outputv, s.outputc),
              !.inputc = s.inputc, !.outputc = s.outputc, !.output = 0,
              !.previous = ran,
              !.plugin = s.plugin, !.protoop = s.protoop, !.anchor = s.anchor]

-----------------------------------------------------------------------------
Step == fatal = "no" /\ steps < MaxSteps /\ steps' = steps + 1

Exit == /\ fatal' = "exit"
        /\ UNCHANGED <<cnx, running, stack, results>>

(* The code on top (or the core, when nothing runs) calls operation k with *)
(* the arguments args.                                                      *)
run_protoop(k, args, intern) ==
    LET called == [cnx EXCEPT !.inputv = Copy(@, args, Len(args)), !.inputc = Len(args),
                              !.outputc = 0]
        r == Resolve(k)
        o == Ops[r]
        first == Following(o, [anchor |-> "start", i |-> 0])
    IN /\ Step
       /\ Len(stack) < MaxDepth
       /\ IF Len(args) > PROTOOPARGS_MAX
          THEN UNCHANGED <<cnx, running, stack, fatal, results>>
          ELSE IF ~Exists(k) THEN Exit
          ELSE IF r = None
          THEN \* no default behaviour: the clean-up clears the flag of no entry
               /\ fatal' = "null"
               /\ UNCHANGED <<cnx, running, stack, results>>
          ELSE IF intern # o.intern \/ Loops(r) THEN Exit
          ELSE IF first.anchor = "main" /\ o.replace = None /\ ~o.core THEN Exit
          ELSE /\ running' = running \cup {r}
               /\ cnx' = Enter([called EXCEPT !.protoop = r[1]], o, first)
               /\ stack' = Append(stack, [op |-> r, stage |-> first, replace_plugin |-> None,
                                          saved |-> Saved(cnx), view |-> View(cnx), output |-> cnx.output])
               /\ UNCHANGED <<fatal, results>>

(* set_cnx(AK_CNX_OUTPUT, i, v) by a pluglet; protoop_save_outputs sets    *)
(* the outputs one after the other in the same way.                         *)
set_output(i, v) ==
    /\ Step
    /\ stack # <<>>
    /\ i <= cnx.outputc + 1
    /\ i <= PROTOOPARGS_MAX
    /\ cnx' = [cnx EXCEPT !.outputv[i] = v,
                          !.outputc = IF i = @ + 1 THEN i ELSE @]
    /\ UNCHANGED <<running, stack, fatal, results>>

(* The code on top returns v; the next stage starts or the call is over. *)
return(v) ==
    LET f == Top
        o == Ops[f.op]
        left == Leave(cnx, o, f.stage, v)
        ran == replace_plugin(cnx, o, f)
        next == Following(o, f.stage)
    IN /\ fatal = "no"
       /\ stack # <<>>
       /\ IF next.anchor = "main" /\ o.replace = None /\ ~o.core
          THEN Exit
          ELSE IF next.anchor # "done"
          THEN /\ cnx' = Enter(left, o, next)
               /\ stack' = [stack EXCEPT ![Len(stack)] = [f EXCEPT !.stage = next, !.replace_plugin = ran]]
               /\ UNCHANGED <<running, fatal, results>>
          ELSE /\ cnx' = Restore(left, ran, f.saved)
               /\ running' = running \ {f.op}
               /\ stack' = SubSeq(stack, 1, Len(stack) - 1)
               /\ results' = [plugin |-> cnx'.previous, ran |-> o.replace]
               /\ UNCHANGED fatal
       /\ UNCHANGED steps

Arguments == UNION {[1 .. n -> Values] : n \in 0 .. PROTOOPARGS_MAX + 1}

CallNext ==
    \/ \E k \in Calls, a \in Arguments : run_protoop(k, a, TRUE)
    \/ \E k \in Calls : stack = <<>> /\ run_protoop(k, <<>>, FALSE)
    \/ \E i \in 1 .. PROTOOPARGS_MAX, v \in Values : set_output(i, v)
    \/ \E v \in Values : return(v)

CallSpec == CallInit /\ [][CallNext]_call_vars

-----------------------------------------------------------------------------
(* The call is reentrant: whatever operations the called code runs, sets   *)
(* and returns, the caller finds its own arguments, the outputs it had set *)
(* so far, its plugin, its operation and its anchor when the call returns. *)
CallerIsUndisturbed ==
    [][Len(stack') < Len(stack) => View(cnx') = Top.view]_call_vars

(* When a call returns, previous_plugin_in_replace names the plugin whose  *)
(* pluglet replaced the operation, or nothing for a core function, although *)
(* the code reads it from current_plugin after that pluglet has run, which  *)
(* the operations called by it, and the observers after it, change:         *)
(* picoquic_decode_frames frees the parsed frame in that plugin's memory.   *)
PreviousPluginRan == results.plugin = results.ran

(* An operation is marked as running exactly as long as it is in the call  *)
(* stack, and is never in it twice.                                         *)
RunningIsTheStack ==
    /\ running = {stack[i].op : i \in DOMAIN stack}
    /\ Cardinality(running) = Len(stack)

(* Operations may call operations: the caller finds its context as it was, *)
(* the plugin that ran is the one noted, and "running" is the call stack,  *)
(* whatever pluglets and core functions call and set in between.            *)
CallsAreIsolated == [](PreviousPluginRan /\ RunningIsTheStack) /\ CallerIsUndisturbed

(* "Notice that this function is reentrant, i.e., a plugin might use an    *)
(* external function that call this one under the hood without any         *)
(* interference": the value an observer reads as the returned value of the *)
(* operation it observes is the same before and after a call of its own.   *)
ObservedValueIsKept ==
    [][Len(stack') < Len(stack) /\ Len(stack) > 1 => cnx'.output = Top.output]_call_vars

(* "this used to be a fatal error, but for a parametrizable protoop, this  *)
(* might be normal. Note that the return value will be 0": a call of an    *)
(* operation without entry for the parameter returns.                       *)
UnknownParameterReturns == fatal # "null"
=============================================================================
