--------------------------- MODULE SierraMachine ---------------------------
(***************************************************************************)
(* What a Sierra program means: the machine that sierra-emu runs, one      *)
(* statement at a time, on a stack of frames.  A variable is consumed by   *)
(* the statement that takes it.  A frame that waits for a call stays at    *)
(* the statement of the call, with what the call did not take.             *)
(***************************************************************************)
EXTENDS Naturals, SequencesExt

CONSTANTS
  Programs,         \* programs: [statements, functions, main]
  Inputs,           \* the values an argument of the main function may have
  Libfunc(_, _)     \* the branch that a libfunc takes on its arguments, and its results

VARIABLES program, input, frames, answer

NoAnswer == <<>>

Statement(at) == program.statements[at]
IsReturn(at) == Statement(at).fn = "return"
IsCall(at) == Statement(at).fn \in DOMAIN program.functions

\* The variables of a state that are not taken, and a state with more variables.
Without(state, vars) == [v \in DOMAIN state \ Range(vars) |-> state[v]]
PutVars(state, vars, values) ==
  [v \in DOMAIN state \cup Range(vars) |->
     IF v \in Range(vars) THEN values[CHOOSE i \in DOMAIN vars : vars[i] = v] ELSE state[v]]
TakeVars(state, vars) == [i \in DOMAIN vars |-> state[vars[i]]]

NewFrame(f, values) ==
  [at |-> program.functions[f].entry, state |-> PutVars(<<>>, program.functions[f].params, values)]

Init ==
  /\ program \in Programs
  /\ input \in [DOMAIN program.functions[program.main].params -> Inputs]
  /\ frames = <<NewFrame(program.main, input)>>
  /\ answer = NoAnswer

Top == Last(frames)
Taken == TakeVars(Top.state, Statement(Top.at).args)

\* Evaluate a libfunc and go on where its branch leads.
Invoke ==
  /\ frames # <<>> /\ ~IsReturn(Top.at) /\ ~IsCall(Top.at)
  /\ LET st == Statement(Top.at)
         out == Libfunc(st.fn, Taken)
         branch == st.branches[out.branch]
     IN frames' = Front(frames) \o
          <<[at |-> branch.target,
             state |-> PutVars(Without(Top.state, st.args), branch.results, out.results)]>>
  /\ UNCHANGED <<program, input, answer>>

Call ==
  /\ frames # <<>> /\ ~IsReturn(Top.at) /\ IsCall(Top.at)
  /\ LET st == Statement(Top.at) IN
     frames' = Front(frames) \o
       <<[Top EXCEPT !.state = Without(Top.state, st.args)], NewFrame(st.fn, Taken)>>
  /\ UNCHANGED <<program, input, answer>>

\* The caller goes on after its call, with the results.
Return ==
  /\ frames # <<>> /\ IsReturn(Top.at)
  /\ IF Len(frames) = 1
       THEN frames' = <<>> /\ answer' = <<Taken>>
       ELSE LET caller == frames[Len(frames) - 1]
                branch == Statement(caller.at).branches[1]
            IN /\ frames' = SubSeq(frames, 1, Len(frames) - 2) \o
                    <<[at |-> branch.target,
                       state |-> PutVars(caller.state, branch.results, Taken)]>>
               /\ answer' = answer
  /\ UNCHANGED <<program, input>>

Next == Invoke \/ Call \/ Return

vars == <<program, input, frames, answer>>
Spec == Init /\ [][Next]_vars
=============================================================================
