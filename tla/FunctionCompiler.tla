-------------------------- MODULE FunctionCompiler --------------------------
(***************************************************************************)
(* compile_func: a Sierra function becomes a region of blocks.  A first    *)
(* traversal counts the predecessors of every statement, since a statement *)
(* with several needs a landing block, and the calls of the function to    *)
(* itself that nothing outlives.  A second one writes the blocks.  When    *)
(* there is exactly one such call the function becomes a loop: the call    *)
(* raises a depth counter and jumps to the entry block, and a return at a  *)
(* positive depth jumps to where the call continues.                       *)
(*                                                                         *)
(* A register is the argument of a block or the result of a libfunc; a     *)
(* block has arguments and the terminators appended to it.  Types are      *)
(* "register", "memory" (spilled to the stack across calls) and "unit"     *)
(* (zero-sized).  Coupons and the coupon_call libfunc are left out.        *)
(***************************************************************************)
EXTENDS Naturals, SequencesExt

CONSTANTS Programs, Inputs, Libfunc(_, _)

\* A Sierra program as its registry and its validation leave it: branches lead to statements,
\* a return has no branch, a call has one and passes what the function takes.
IsProgram(p) ==
  /\ p.statements \in Seq(Range(p.statements))
  /\ IsFiniteSet(DOMAIN p.functions) /\ "return" \notin DOMAIN p.functions
  /\ p.main \in DOMAIN p.functions
  /\ \A i \in DOMAIN p.statements : LET st == p.statements[i] IN
       /\ st.args \in Seq(Nat)
       /\ st.branches \in Seq([target : DOMAIN p.statements, results : Seq(Nat)])
       /\ st.fn = "return" => st.branches = <<>>
       /\ st.fn \in DOMAIN p.functions =>
            Len(st.branches) = 1 /\ Len(st.args) = Len(p.functions[st.fn].params)
  /\ \A f \in DOMAIN p.functions :
       /\ p.functions[f].entry \in DOMAIN p.statements
       /\ p.functions[f].params \in Seq(Nat)
       /\ p.functions[f].rets \in Seq({"register", "memory", "unit"})
ASSUME ProgramsAssumption == \A p \in Programs : IsProgram(p)

VARIABLES
  program,
  input,
  pass,        \* "structure" and "body" of a function, "verify", then "run", or "failed"
  todo,        \* the functions that remain, the one being compiled first
  queue,       \* the statements to visit, with the variables alive there
  visited,
  preds,       \* statement -> [vars, count], its predecessors
  tails,       \* calls of the function to itself that nothing outlives
  returnTo,    \* the tail call whose return block is known, 0 when none is
  code,        \* function -> block -> [params, ends]
  states,      \* function -> statement -> variable -> register, for the reader of the code
  tailCall     \* function -> the call that became a jump, 0 when there is none

compilerVars == <<pass, todo, queue, visited, preds, tails, returnTo, code, states, tailCall>>

Nothing == <<>>

fn == Head(todo)
function == program.functions[fn]
Statement(at) == program.statements[at]
IsReturn(at) == Statement(at).fn = "return"
IsCall(at) == Statement(at).fn \in DOMAIN program.functions

\* The blocks of a function, and the registers.
pre_entry_block == <<"pre_entry">>
entry_block == <<"entry">>
landing_block(at) == <<"landing", at>>
libfunc_block(at) == <<"libfunc", at>>
cont_block(at) == <<"cont", at>>
argument(block, i) == <<block, i>>
Results(at, branch) == <<"result", at, branch>>
result(at, branch, i) == <<Results(at, branch), i>>
Arguments(block, n) == [i \in 1..n |-> argument(block, i)]

\* None, Some(false) or Some(true): how a function returns.
has_return_ptr(f) ==
  LET rets == program.functions[f].rets
  IN IF Len(rets) > 1 THEN "registers" ELSE IF rets = <<"memory">> THEN "pointer" ELSE "none"

\* Variables in the order of their identifiers.
Sorted(vars) ==
  CHOOSE s \in [1..Cardinality(vars) -> vars] : \A i, j \in DOMAIN s : i < j => s[i] < s[j]

FirstVisit(f) ==
  <<[at |-> program.functions[f].entry,
     state |-> [v \in Range(program.functions[f].params) |-> Nothing]]>>
FirstPreds(f) ==
  [at \in {program.functions[f].entry} |->
     [vars |-> Range(program.functions[f].params), count |-> 0]]

CompilerInit ==
  /\ program \in Programs
  /\ input \in [DOMAIN program.functions[program.main].params -> Inputs]
  /\ pass = "structure"
  /\ todo = SetToSeq(DOMAIN program.functions)
  /\ queue = FirstVisit(fn)
  /\ visited = {}
  /\ preds = FirstPreds(fn)
  /\ tails = 0
  /\ returnTo = 0
  /\ code = [f \in DOMAIN program.functions |-> <<>>]
  /\ states = [f \in DOMAIN program.functions |-> <<>>]
  /\ tailCall = [f \in DOMAIN program.functions |-> 0]

\* The traversal takes the last entry of the queue.
current == Last(queue)
Visiting(p) == pass = p /\ queue # <<>> /\ current.at \notin visited

\* foreach_statement_in_function: a statement reached again is not compiled again.
SkipVisited ==
  /\ pass \in {"structure", "body"} /\ queue # <<>> /\ current.at \in visited
  /\ queue' = Front(queue)
  /\ UNCHANGED <<pass, todo, visited, preds, tails, returnTo, code, states, tailCall>>

AfterBranch(state, args, branch) ==
  [v \in (DOMAIN state \ Range(args)) \cup Range(branch.results) |->
     IF v \in Range(branch.results) THEN Nothing ELSE state[v]]

\* The predecessors once the branches of a statement are counted; the first branch that finds
\* a statement says which variables are alive there.
CountBranches(known, state, st) ==
  LET to(at) == {n \in DOMAIN st.branches : st.branches[n].target = at}
      live(n) == DOMAIN AfterBranch(state, st.args, st.branches[n])
  IN [at \in DOMAIN known \cup {st.branches[n].target : n \in DOMAIN st.branches} |->
        IF at \in DOMAIN known
        THEN [vars |-> known[at].vars, count |-> known[at].count + Cardinality(to(at))]
        ELSE [vars |-> live(Min(to(at))), count |-> Cardinality(to(at))]]

\* Branches that meet must leave the same variables alive.
StatesMatch(known, state, st) ==
  \A n \in DOMAIN st.branches :
    CountBranches(known, state, st)[st.branches[n].target].vars
      = DOMAIN AfterBranch(state, st.args, st.branches[n])

IsTailCall(at, state) ==
  /\ Statement(at).fn = fn
  /\ DOMAIN state = Range(Statement(at).args)

VisitStructure ==
  /\ Visiting("structure")
  /\ LET st == Statement(current.at)
         consistent == /\ Range(st.args) \subseteq DOMAIN current.state
                       /\ IF IsReturn(current.at)
                            THEN DOMAIN current.state = Range(st.args)
                            ELSE StatesMatch(preds, current.state, st)
     IN /\ pass' = IF consistent THEN pass ELSE "failed"
        /\ preds' = CountBranches(preds, current.state, st)
        /\ tails' = IF IsTailCall(current.at, current.state) THEN tails + 1 ELSE tails
        /\ queue' = Front(queue) \o
             [n \in DOMAIN st.branches |->
                [at |-> st.branches[n].target,
                 state |-> AfterBranch(current.state, st.args, st.branches[n])]]
  /\ visited' = visited \cup {current.at}
  /\ UNCHANGED <<todo, returnTo, code, states, tailCall>>

is_recursive_AnyTailCall == tails >= 1
is_recursive == tails = 1
HasLanding(at) == preds[at].count > 1

\* The empty blocks of the statements; the entry block jumps to the first of them.
FinishStructure ==
  /\ pass = "structure" /\ queue = <<>>
  /\ LET params == function.params
         initial_state == [v \in Range(params) |->
                             argument(entry_block, CHOOSE i \in DOMAIN params : params[i] = v)]
         entry == function.entry
         landings == {at \in visited : HasLanding(at)}
         blocks == {pre_entry_block, entry_block}
                     \cup {libfunc_block(at) : at \in visited} \cup {landing_block(at) : at \in landings}
         params_of(b) == CASE b[1] = "libfunc" -> Len(Statement(b[2]).args)
                           [] b[1] = "landing" -> Cardinality(preds[b[2]].vars)
                           [] OTHER -> Len(params)
         jump(b) == CASE b = pre_entry_block ->
                           <<[op |-> "br", to |-> entry_block,
                              with |-> Arguments(pre_entry_block, Len(params))]>>
                      [] b = entry_block ->
                           <<[op |-> "br", to |-> libfunc_block(entry),
                              with |-> [i \in DOMAIN Statement(entry).args |->
                                          initial_state[Statement(entry).args[i]]]]>>
                      [] OTHER -> <<>>
     IN /\ code' = [code EXCEPT ![fn] = [b \in blocks |-> [params |-> params_of(b), ends |-> jump(b)]]]
        /\ queue' = <<[at |-> entry, state |-> initial_state]>>
  /\ pass' = "body"
  /\ visited' = {}
  /\ UNCHANGED <<todo, preds, tails, returnTo, states, tailCall>>

\* A region after `block` got one more terminator.
Append_operation(blocks, block, op) == [blocks EXCEPT ![block].ends = Append(@, op)]

\* The variables of a statement behind a landing block are the arguments of that block.
StateAt(at, state) ==
  IF HasLanding(at)
  THEN LET vars == Sorted(DOMAIN state)
       IN [v \in DOMAIN state |->
             argument(landing_block(at), CHOOSE i \in DOMAIN vars : vars[i] = v)]
  ELSE state

\* Every visit of a statement behind a landing block makes that block jump to it.
land(blocks, at, state) ==
  IF HasLanding(at)
  THEN Append_operation(blocks, landing_block(at),
         [op |-> "br", to |-> libfunc_block(at),
          with |-> [i \in DOMAIN Statement(at).args |-> state[Statement(at).args[i]]]])
  ELSE blocks

\* Where the branches of a statement lead, and what they hand over: variables, or results,
\* which are the registers of results[n] for the n-th branch.
generate_branching_targets(at, state, results) ==
  [n \in DOMAIN Statement(at).branches |->
     LET branch == Statement(at).branches[n]
         target == branch.target
         wanted == IF HasLanding(target) THEN Sorted(preds[target].vars) ELSE Statement(target).args
         value(v) == IF v \in Range(branch.results)
                     THEN argument(results[n], CHOOSE i \in DOMAIN branch.results : branch.results[i] = v)
                     ELSE state[v]
     IN [to |-> IF HasLanding(target) THEN landing_block(target) ELSE libfunc_block(target),
         with |-> [i \in DOMAIN wanted |-> value(wanted[i])]]]

Processed(at, state, results) ==
  /\ visited' = visited \cup {at}
  /\ queue' = Front(queue) \o
       [n \in DOMAIN Statement(at).branches |->
          LET branch == Statement(at).branches[n] IN
          [at |-> branch.target,
           state |-> [v \in (DOMAIN state \ Range(Statement(at).args)) \cup Range(branch.results) |->
                        IF v \in Range(branch.results)
                        THEN argument(results[n], CHOOSE i \in DOMAIN branch.results : branch.results[i] = v)
                        ELSE state[v]]]]
  /\ states' = [states EXCEPT ![fn] = [s \in DOMAIN @ \cup {at} |->
                                         IF s = at THEN state ELSE @[s]]]

\* A libfunc, or a call of a function as a call.
BuildInvocation ==
  LET at == current.at
      state == StateAt(at, current.state)
      results == [n \in DOMAIN Statement(at).branches |-> Results(at, n)]
  IN /\ Visiting("body") /\ ~IsReturn(at)
     /\ ~(is_recursive /\ IsTailCall(at, state))
     /\ code' = [code EXCEPT ![fn] = Append_operation(land(@, at, state), libfunc_block(at),
                   [op |-> IF IsCall(at) THEN "call" ELSE "libfunc",
                    fn |-> Statement(at).fn,
                    branches |-> generate_branching_targets(at, state, results)])]
     /\ Processed(at, state, results)
     /\ UNCHANGED <<pass, todo, preds, tails, returnTo, tailCall>>

\* The tail call of a recursive function: one level deeper, from the entry block.
BuildTailCall ==
  LET at == current.at
      state == StateAt(at, current.state)
      results == <<cont_block(at)>>
      targets == generate_branching_targets(at, state, results)
  IN /\ Visiting("body") /\ is_recursive /\ IsTailCall(at, state)
     /\ code' = [code EXCEPT ![fn] =
                   LET blocks == Append_operation(land(@, at, state), libfunc_block(at),
                                   [op |-> "deeper", to |-> entry_block,
                                    with |-> Arguments(libfunc_block(at), Len(Statement(at).args))])
                   IN [b \in DOMAIN blocks \cup {cont_block(at)} |->
                         IF b = cont_block(at)
                         THEN [params |-> Len(function.rets),
                               ends |-> <<[op |-> "br", to |-> targets[1].to, with |-> targets[1].with]>>]
                         ELSE blocks[b]]]
     /\ Processed(at, state, results)
     /\ returnTo' = at
     /\ tailCall' = [tailCall EXCEPT ![fn] = at]
     /\ UNCHANGED <<pass, todo, preds, tails>>

DeferReturn_NextInLine ==
  LET at == current.at
      state == StateAt(at, current.state)
  IN /\ Visiting("body") /\ IsReturn(at) /\ is_recursive /\ returnTo = 0
     /\ code' = [code EXCEPT ![fn] = IF HasLanding(at) THEN @ ELSE land(@, at, state)]
     /\ UNCHANGED <<pass, todo, queue, visited, preds, tails, returnTo, states, tailCall>>

\* A return found before the tail call waits at the other end of the queue.
DeferReturn ==
  LET at == current.at
      state == StateAt(at, current.state)
  IN /\ Visiting("body") /\ IsReturn(at) /\ is_recursive /\ returnTo = 0
     /\ code' = [code EXCEPT ![fn] = land(@, at, state)]
     /\ queue' = <<current>> \o Front(queue)
     /\ UNCHANGED <<pass, todo, visited, preds, tails, returnTo, states, tailCall>>

recursive_values_InRegisters(at) ==
  LET handed == CASE has_return_ptr(fn) = "pointer" -> {"register"}
                  [] has_return_ptr(fn) = "registers" -> {"register"}
                  [] OTHER -> {}
      kept == Sorted({i \in DOMAIN function.rets : function.rets[i] \in handed})
  IN [i \in DOMAIN kept |-> argument(libfunc_block(at), kept[i])]

\* What a return at a positive depth hands to the block where the tail call continues.
recursive_values(at) ==
  LET handed == CASE has_return_ptr(fn) = "pointer" -> {"register"}
                  [] has_return_ptr(fn) = "registers" -> {"register", "memory"}
                  [] OTHER -> {}
      kept == Sorted({i \in DOMAIN function.rets : function.rets[i] \in handed})
  IN [i \in DOMAIN kept |-> argument(libfunc_block(at), kept[i])]

\* A return; one single value in a register is not implemented for a recursive function.
BuildReturn ==
  LET at == current.at
      state == StateAt(at, current.state)
      again == [op |-> "shallower", to |-> cont_block(returnTo), with |-> recursive_values(at)]
      leave == [op |-> "return"]
      unimplemented == is_recursive /\ has_return_ptr(fn) = "none"
  IN /\ Visiting("body") /\ IsReturn(at) /\ (is_recursive => returnTo # 0)
     /\ pass' = IF unimplemented THEN "failed" ELSE pass
     /\ code' = [code EXCEPT ![fn] = Append_operation(land(@, at, state), libfunc_block(at),
                                       IF is_recursive THEN again ELSE leave)]
     /\ Processed(at, state, <<>>)
     /\ UNCHANGED <<todo, preds, tails, returnTo, tailCall>>

\* compile goes on with the next function.
FinishBody ==
  /\ pass = "body" /\ queue = <<>>
  /\ todo' = Tail(todo)
  /\ IF Tail(todo) = <<>>
       THEN /\ pass' = "verify"
            /\ UNCHANGED <<queue, visited, preds, tails, returnTo>>
       ELSE /\ pass' = "structure"
            /\ queue' = FirstVisit(todo[2])
            /\ visited' = {}
            /\ preds' = FirstPreds(todo[2])
            /\ tails' = 0
            /\ returnTo' = 0
  /\ UNCHANGED <<code, states, tailCall>>

\* What the MLIR verifier asks: one terminator per block, and a jump fits its block.
JumpsOf(end) ==
  CASE end.op \in {"libfunc", "call"} -> Range(end.branches)
    [] end.op \in {"br", "deeper", "shallower"} -> {end}
    [] OTHER -> {}

Verifies(f) ==
  \A b \in DOMAIN code[f] :
    /\ Len(code[f][b].ends) = 1
    /\ \A jump \in JumpsOf(code[f][b].ends[1]) :
         jump.to \in DOMAIN code[f] /\ Len(jump.with) = code[f][jump.to].params

Verify ==
  /\ pass = "verify"
  /\ pass' = IF \A f \in DOMAIN code : Verifies(f) THEN "run" ELSE "failed"
  /\ UNCHANGED <<todo, queue, visited, preds, tails, returnTo, code, states, tailCall>>

Compile ==
  \/ SkipVisited \/ VisitStructure \/ FinishStructure
  \/ BuildInvocation \/ BuildTailCall \/ DeferReturn \/ BuildReturn
  \/ FinishBody \/ Verify
=============================================================================
