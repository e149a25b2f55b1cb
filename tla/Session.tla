------------------------------- MODULE Session --------------------------------
(***************************************************************************)
(* The two language engines on the same script.  The bytecode machine      *)
(* (Machine) runs it first; then the tree evaluator (Evaluator) does,      *)
(* either synchronously, a line at a time (run_repl_submission), or as     *)
(* the execution of a handle (begin_execution, run_slice, resume_host_call *)
(* and abort_session of src/src/eval.rs), one round of the driver at a     *)
(* time, with a yield at every boundary where the slice's fuel is used up, *)
(* and with a host that answers cooperative calls or gives the line up.    *)
(***************************************************************************)
EXTENDS Machine

CONSTANTS SliceFuels,      \* the fuels a host may give a slice
          DriverRound(_, _), \* E!Iterate
          DriverRun(_, _)    \* E!Drive

E == INSTANCE Evaluator

VARIABLES
    mode,     \* "vm" while the machine runs, then "sync" or "driver"
    at,       \* the next line of the tree's script
    phase,    \* of the driver: "rest", "run", "yielded" or "waiting"
    ctx,      \* the evaluator
    saved,    \* its scopes and cells at the begin of the line
    slice,    \* RunSlice's fuel
    lines,    \* per finished line of the tree: as results
    aborted   \* the lines that the host gave up

treeVars == <<mode, at, phase, ctx, saved, slice, lines, aborted>>

SessionInit ==
    /\ Init
    /\ mode = "vm" /\ at = 1 /\ phase = "rest"
    /\ ctx = E!NewContext /\ saved = <<>>
    /\ slice \in SliceFuels
    /\ lines = <<>> /\ aborted = {}

RunVm == mode = "vm" /\ Next /\ UNCHANGED treeVars

Choose(m) ==
    /\ mode = "vm" /\ Done
    /\ mode' = m
    /\ UNCHANGED <<at, phase, ctx, saved, slice, lines, aborted>>

-----------------------------------------------------------------------------
(* begin_submission; fuel counts anew for a line *)
Opened(s) == [s EXCEPT !.fuel = 0, !.slice = 0]

(* The root block has no scope of its own. *)
RootFrame(s, program) == E!PushFrame(s, E!Block(s, "block", program))

Snapshot(s) == [scopes |-> s.scopes, cells |-> s.cells]

(* rollback_submission: bindings and cells of the start return; a scope     *)
(* that is still there stays, empty.                                        *)
RolledBack(s, was) ==
    [s EXCEPT !.scopes = [i \in DOMAIN @ |-> IF i \in DOMAIN was.scopes THEN was.scopes[i] ELSE <<>>],
              !.cells  = [i \in DOMAIN @ |-> IF i \in DOMAIN was.cells THEN was.cells[i] ELSE @[i]]]

(* What a line ends with: its error, or a jump that found no loop. *)
Outcome(s) ==
    CASE ~E!Fine(s) -> s.err
      [] E!Fine(s) /\ s.flow \in {"break", "continue"} -> s.flow \o "_outside_loop"
      [] OTHER -> "ok"

(* finalize_session *)
Finished(s, was, committed) ==
    [(IF committed THEN s ELSE RolledBack(s, was)) EXCEPT !.err = "none", !.flow = "none"]

NextLine(o) == IF o = "process_exit" THEN Len(Script) + 1 ELSE at + 1
Line(e, s) == [outcome |-> e, fuel |-> s.fuel, said |-> Len(s.out)]
Report(s) ==
    /\ lines' = Append(lines, Line(Outcome(s), s))
    /\ at' = NextLine(Outcome(s))

(* run_repl_submission *)
Submit ==
    /\ mode = "sync" /\ at <= Len(Script)
    /\ LET s == Opened(ctx)
           r == IF TooDeep(Script[at], MaxAstDepth) THEN E!Throw(s, "ast_depth")
                ELSE DriverRun(RootFrame(s, Script[at]), 0)
       IN  /\ Report(r)
           /\ ctx' = Finished(r, Snapshot(ctx), Outcome(r) = "ok")
    /\ UNCHANGED <<mode, phase, saved, slice, aborted>>

(* begin_execution *)
Begin ==
    /\ mode = "driver" /\ phase = "rest" /\ at <= Len(Script)
    /\ IF TooDeep(Script[at], MaxAstDepth)
       THEN /\ Report(E!Throw(Opened(ctx), "ast_depth"))
            /\ UNCHANGED <<ctx, phase, saved>>
       ELSE /\ ctx' = [RootFrame(Opened(ctx), Script[at]) EXCEPT !.can = TRUE]
            /\ saved' = Snapshot(ctx)
            /\ phase' = "run"
            /\ UNCHANGED <<at, lines>>
    /\ UNCHANGED <<mode, slice, aborted>>

SliceExhausted == ctx.slice >= slice

(* One round of run_driver at depth 0. *)
Step(kind) ==
    /\ phase = "run" /\ ctx.frames # <<>> /\ ~SliceExhausted
    /\ kind = CASE E!Top(ctx).k = "expr" -> "expr"
                [] E!Top(ctx).k # "expr" /\ E!AtEnd(E!Top(ctx)) -> "advance"
                [] OTHER -> "stmt"
    /\ LET r == DriverRound(ctx, 0)
       IN  /\ ctx' = [r EXCEPT !.waits = FALSE]
           /\ phase' = IF r.waits THEN "waiting" ELSE "run"
    /\ UNCHANGED <<mode, at, saved, slice, lines, aborted>>
ExprStep    == Step("expr")
AdvanceStep == Step("advance")
StmtStep    == Step("stmt")

(* run_slice returns YieldedSliceFuel *)
Yield ==
    /\ phase = "run" /\ ctx.frames # <<>> /\ SliceExhausted
    /\ phase' = "yielded"
    /\ UNCHANGED <<mode, at, ctx, saved, slice, lines, aborted>>

(* The next run_slice *)
Continue_ ==
    /\ phase = "yielded"
    /\ phase' = "run"
    /\ ctx' = [ctx EXCEPT !.slice = 0]
    /\ UNCHANGED <<mode, at, saved, slice, lines, aborted>>

(* The adapters of the model answer a call with its arguments. *)
Answer(args) == ListV(args)

(* resume_host_call, then the next slice *)
HostAnswers ==
    /\ phase = "waiting"
    /\ phase' = "run"
    /\ ctx' = [ctx EXCEPT !.resumed = <<Answer(Last(ctx.starts))>>, !.slice = 0]
    /\ UNCHANGED <<mode, at, saved, slice, lines, aborted>>

(* The end of run_slice: exit commits like a normal end. *)
Finish ==
    /\ phase = "run" /\ ctx.frames = <<>>
    /\ Report(ctx)
    /\ ctx' = [Finished(ctx, saved, Outcome(ctx) \in {"ok", "process_exit"}) EXCEPT !.can = FALSE]
    /\ phase' = "rest" /\ saved' = <<>>
    /\ UNCHANGED <<mode, slice, aborted>>

(* Variant: the calls on the driver keep the view of their functions. *)
FramesDropped(s) == [s EXCEPT !.frames = <<>>]

(* The frames go; a call on the driver gives its scopes back. *)
FramesAborted(s) ==
    LET drop(t, f) == LET u == [t EXCEPT !.frames = Front(@)]
                      IN  IF E!Top(t).k = "call" THEN E!PopCall(u, E!Top(t).saved) ELSE u
    IN  FoldLeft(drop, s, s.frames)

(* A block of the top level is open; its scope stays behind. *)
InBlock(s) ==
    \E i \in 2..Len(s.frames) :
        /\ s.frames[i].k \in {"block", "scoped", "try"}
        /\ \A j \in 1..i : s.frames[j].k # "call"

(* abort_session: the host cancels, a deadline passes or the handle is      *)
(* dropped between two slices.                                              *)
Abort ==
    /\ phase \in {"yielded", "waiting"}
    /\ ctx' = [Finished(FramesAborted(ctx), saved, FALSE)
                 EXCEPT !.resumed = <<>>, !.can = FALSE, !.slice = 0]
    /\ lines' = Append(lines, Line(IF InBlock(ctx) THEN "aborted_in_block" ELSE "aborted", ctx))
    /\ aborted' = aborted \union {at}
    /\ at' = at + 1
    /\ phase' = "rest" /\ saved' = <<>>
    /\ UNCHANGED <<mode, slice>>

RunTree ==
    /\ \/ Choose("sync") \/ Choose("driver") \/ Submit \/ Begin
       \/ ExprStep \/ AdvanceStep \/ StmtStep \/ Yield \/ Continue_
       \/ HostAnswers \/ Finish \/ Abort
    /\ UNCHANGED vars

TreeDone == mode # "vm" /\ phase = "rest" /\ at > Len(Script)
Rest == TreeDone /\ UNCHANGED <<vars, treeVars>>

SessionNext == RunVm \/ RunTree \/ Rest
SessionSpec == SessionInit /\ [][SessionNext]_<<vars, treeVars>>
=============================================================================
