-------------------------- MODULE CompiledProgram --------------------------
(***************************************************************************)
(* A program compiled by FunctionCompiler and then run: native frames with *)
(* registers, a depth counter in the functions that became loops, and      *)
(* stack slots for the values that calls pass in memory.  Seen as Sierra   *)
(* frames, it runs the program that the interpreter runs.                  *)
(***************************************************************************)
EXTENDS FunctionCompiler

CONSTANT DepthModulus    \* the depth counter is an index: it wraps at this number

ASSUME DepthAssumption == DepthModulus \in Nat \ {0, 1}

\* What validation leaves besides: a branch leads forward, a call has as many results as the
\* function, and so many values have the returns of the statements it may reach.
IsForward(p) ==
  /\ \A i \in DOMAIN p.statements : LET st == p.statements[i] IN
       /\ \A n \in DOMAIN st.branches : st.branches[n].target > i
       /\ st.fn \in DOMAIN p.functions =>
            Len(st.branches[1].results) = Len(p.functions[st.fn].rets)
  /\ \A f \in DOMAIN p.functions : \E body \in SUBSET DOMAIN p.statements :
       /\ p.functions[f].entry \in body
       /\ \A i \in body : LET st == p.statements[i] IN
            /\ \A n \in DOMAIN st.branches : st.branches[n].target \in body
            /\ st.fn = "return" => Len(st.args) = Len(p.functions[f].rets)
ASSUME ForwardAssumption == \A p \in Programs : IsForward(p)

VARIABLES
  stack,      \* native frames: [fn, block, regs, depth, slots]
  answer      \* <<what the main function returned>>

machineVars == <<stack, answer>>
vars == <<program, input, compilerVars, machineVars>>

NoAnswer == <<>>
Undefined == -1

Frame == Last(stack)
Block == code[Frame.fn][Frame.block]
End == Block.ends[1]

Read(frame, r) == IF r \in DOMAIN frame.regs THEN frame.regs[r] ELSE Undefined
ReadAll(frame, rs) == [i \in DOMAIN rs |-> Read(frame, rs[i])]

\* A frame whose registers also hold the values, and one that jumped to a block with them.
Write(frame, registers, values) ==
  [frame EXCEPT !.regs = [r \in DOMAIN frame.regs \cup Range(registers) |->
     IF r \in Range(registers) THEN values[CHOOSE i \in DOMAIN registers : registers[i] = r]
     ELSE frame.regs[r]]]
JumpWith(frame, block, values) ==
  [Write(frame, Arguments(block, Len(values)), values) EXCEPT !.block = block]
Jump(frame, target) == JumpWith(frame, target.to, ReadAll(frame, target.with))

\* A pointer to a stack slot of a frame.
Pointer(level, slot) == [level |-> level, slot |-> slot]

\* The entry of a function: values in memory are loaded, the depth is zero.
Enter(f, values, below) ==
  LET params == program.functions[f].types
      loaded == [i \in DOMAIN values |->
                   IF params[i] = "memory" THEN below[values[i].level].slots[values[i].slot]
                   ELSE values[i]]
  IN JumpWith([fn |-> f, block |-> pre_entry_block, regs |-> <<>>, depth |-> 0, slots |-> <<>>],
              pre_entry_block, loaded)

\* invoke_dynamic spills the arguments of the entry point in the same way.
Host == [slots |-> [i \in DOMAIN input |-> input[i]]]
Passed(f, values, level) ==
  [i \in DOMAIN values |->
     IF program.functions[f].types[i] = "memory" THEN Pointer(level, i) ELSE values[i]]

Init ==
  /\ CompilerInit
  /\ stack = <<>>
  /\ answer = NoAnswer

Begin ==
  /\ pass = "run" /\ stack = <<>> /\ answer = NoAnswer
  /\ stack' = <<Enter(program.main, Passed(program.main, input, 1), <<Host>>)>>
  /\ answer' = answer

Running(op) == pass = "run" /\ stack # <<>> /\ End.op = op

Branch ==
  /\ Running("br")
  /\ stack' = Front(stack) \o <<Jump(Frame, End)>>
  /\ answer' = answer

\* The arguments of a libfunc are those of its block.
Operands == ReadAll(Frame, Arguments(Frame.block, Block.params))

Evaluate ==
  /\ Running("libfunc")
  /\ LET out == Libfunc(End.fn, Operands)
         produced == [i \in DOMAIN out.results |-> result(Frame.block[2], out.branch, i)]
     IN stack' = Front(stack) \o
          <<Jump(Write(Frame, produced, out.results), End.branches[out.branch])>>
  /\ answer' = answer

\* A call: arguments in memory are stored in slots of the caller, which passes pointers.
Call ==
  /\ Running("call")
  /\ LET level == Len(stack)
         spilled == [i \in {i \in DOMAIN Operands : program.functions[End.fn].types[i] = "memory"} |->
                       Operands[i]]
         caller == [Frame EXCEPT !.slots = [s \in DOMAIN @ \cup DOMAIN spilled |->
                                              IF s \in DOMAIN spilled THEN spilled[s] ELSE @[s]]]
         below == Front(stack) \o <<caller>>
     IN stack' = below \o <<Enter(End.fn, Passed(End.fn, Operands, level), below)>>
  /\ answer' = answer

\* The results come back in registers, or through the return pointer, and the caller branches.
Leave(values) ==
  IF Len(stack) = 1
  THEN stack' = <<>> /\ answer' = <<values>>
  ELSE LET caller == stack[Len(stack) - 1]
           at == caller.block[2]
           results == [i \in DOMAIN values |-> result(at, 1, i)]
       IN /\ stack' = SubSeq(stack, 1, Len(stack) - 2) \o
               <<Jump(Write(caller, results, values), code[caller.fn][caller.block].ends[1].branches[1])>>
          /\ answer' = answer

Return ==
  /\ Running("return")
  /\ Leave(Operands)

\* The tail call: one level deeper.
GoDeeper ==
  /\ Running("deeper")
  /\ stack' = Front(stack) \o
       <<Jump([Frame EXCEPT !.depth = ((@) + 1) % DepthModulus], End)>>
  /\ answer' = answer

\* The return of a loop: the counter is lowered in any case.
GoShallower ==
  /\ Running("shallower")
  /\ LET lowered == [Frame EXCEPT !.depth = ((@) + DepthModulus - 1) % DepthModulus]
     IN IF Frame.depth = 0
        THEN Leave(Operands)
        ELSE stack' = Front(stack) \o <<Jump(lowered, End)>> /\ answer' = answer

Run == Begin \/ Branch \/ Evaluate \/ Call \/ Return \/ GoDeeper \/ GoShallower

\* The program is left alone once it is compiled; nothing runs before that.
Next ==
  /\ UNCHANGED <<program, input>>
  /\ \/ Compile /\ UNCHANGED machineVars
     \/ Run /\ UNCHANGED compilerVars

\* Compiling and running are sequential programs: they take their next step.
Spec == Init /\ [][Next]_vars /\ WF_vars(Next)
-----------------------------------------------------------------------------
\* The Sierra frames that native frames stand for.

Valuation(frame, registers) == [v \in DOMAIN registers |-> Read(frame, registers[v])]

\* Where a frame is in its function, and the variables it holds there.
Position(frame, waits) ==
  LET f == frame.fn
      kind == frame.block[1]
      at == frame.block[2]
      params == program.functions[f].params
      branch == Statement(at).branches[1]
  IN CASE kind \in {"pre_entry", "entry"} ->
            [at |-> program.functions[f].entry,
             state |-> [v \in Range(params) |->
                Read(frame, argument(frame.block, CHOOSE i \in DOMAIN params : params[i] = v))]]
       [] kind = "cont" ->
            [at |-> branch.target,
             state |-> [v \in Range(branch.results) |->
                Read(frame, argument(frame.block,
                       CHOOSE i \in DOMAIN branch.results : branch.results[i] = v))]]
       [] kind \in {"landing", "libfunc"} ->
            [at |-> at,
             state |-> LET all == Valuation(frame, states[f][at])
                       IN IF waits
                          THEN [v \in DOMAIN all \ Range(Statement(at).args) |-> all[v]]
                          ELSE all]

\* The levels of a loop wait at its tail call, where nothing is alive.
SierraFramesOf(frame, waits) ==
  [i \in 1..frame.depth |-> [at |-> tailCall[frame.fn], state |-> <<>>]] \o <<Position(frame, waits)>>

InitialFrame ==
  LET main == program.functions[program.main]
  IN [at |-> main.entry,
      state |-> [v \in Range(main.params) |->
                   input[CHOOSE i \in DOMAIN main.params : main.params[i] = v]]]

SierraFrames ==
  IF stack = <<>>
  THEN IF answer = NoAnswer THEN <<InitialFrame>> ELSE <<>>
  ELSE FlattenSeq([n \in DOMAIN stack |-> SierraFramesOf(stack[n], n < Len(stack))])

Sierra == INSTANCE SierraMachine WITH frames <- SierraFrames

\* Compiled code means what the Sierra program means (compile_func, function_call::build): its
\* steps are the steps of the interpreter, its variables hold the same values at every statement,
\* a loop returns as often as it called itself, with the statements after the call run each time.
RunsTheProgram == Sierra!Spec

\* Compilation ends and the program answers, unless it was refused: a return that waits for the
\* tail call is built after it (foreach_statement_in_function, StatementCompileResult::Deferred).
CompilesAndAnswers == <>(pass = "failed" \/ answer # NoAnswer)

\* The programs that the compiler is known to refuse: a loop whose return value is a single one
\* or has no size, and a loop that has to put off a return behind a landing block.
RefusedLoop(f) ==
  /\ tailCall[f] # 0
  /\ \/ has_return_ptr(f) # "registers"
     \/ "unit" \in Range(program.functions[f].rets)
     \/ \E b \in DOMAIN code[f] : b[1] = "landing" /\ IsReturn(b[2]) /\ Len(code[f][b].ends) > 1

\* Every other function verifies: each block is ended exactly once and every jump hands its
\* block what the block declares, on whichever path the statement was compiled first
\* (generate_function_structure, generate_branching_targets).
ModuleVerifies ==
  pass \in {"verify", "run"} => \A f \in DOMAIN code : Verifies(f) \/ RefusedLoop(f)
=============================================================================
