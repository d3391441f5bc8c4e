------------------------------- MODULE Calls --------------------------------
(***************************************************************************)
(* What TaintPass.cc puts around calls (llvm_mode/pass): labels of         *)
(* arguments and results, and the calling context, for one thread of a     *)
(* target.  The target exists twice: the tracked binary has labels and     *)
(* wrappers of library functions, the fast one has neither; both keep the  *)
(* context __angora_context, and run the same program here in step.        *)
(*                                                                         *)
(* A frame is a function of the program (prog, instrumented in both), a    *)
(* library function (lib, in neither) or a library function called through *)
(* its dfsw$ function (wrap, instrumented in the tracked binary only).     *)
(* Functions have one argument and a result; signal handlers have no       *)
(* result.                                                                 *)
(* A context is the xor of hashes, here the set of the names that occur an *)
(* odd number of times; __taint_trace_callstack is kept in the same way    *)
(* and left out.                                                           *)
(*                                                                         *)
(* The store of a label before a call or a return and its load on the      *)
(* other side are two steps: between them the frame that is to go on has a *)
(* transfer pending, and a signal handler may run.  Labels that the        *)
(* program's calls pass are any.  A label that is loaded goes to a local   *)
(* of the function; only the step that loads it is recorded.               *)
(*                                                                         *)
(* Faulty variants of the operations follow the word "Bug"; no behaviour   *)
(* of Spec uses them.                                                      *)
(***************************************************************************)
EXTENDS Integers, Sequences, FiniteSets

CONSTANTS
  Prog,       \* functions of the program
  Custom,     \* library functions with a wrapper __dfsw_F
  Discard,    \* other library functions: discard, functional (whose result has
              \* label 0, too: see the FIXME) or in no list
  Labels,     \* labels, 0 among them
  MaxDepth    \* bound: frames

ASSUME LabelAssumption == 0 \in Labels /\ -1 \notin Labels /\ MaxDepth \in Nat \ {0}

VARIABLES
  stack,      \* frames, the running one last
  argtls,     \* __dfsan_arg_tls
  rettls,     \* __dfsan_retval_tls
  ctx,        \* __angora_context of the tracked binary
  fctx,       \* the same of the fast binary
  pend,       \* the transfer of each frame, by its depth
  loaded      \* the label this step loaded, and history: the one it is to be

callsVars == <<stack, argtls, rettls, ctx, fctx, pend, loaded>>

Unknown == -1
Lib == Custom \cup Discard
Depth == Len(stack)
Top == stack[Len(stack)]
Kind(f) == IF f \in Prog THEN "prog" ELSE "wrap"
Push(fr) == stack' = Append(stack, fr)
Frame(fn, how, via) ==
  [fn |-> fn, how |-> how, via |-> via, ctx |-> ctx, fctx |-> fctx, jumped |-> "no"]

(* A frame without a transfer runs; call: it has stored the label of an    *)
(* argument, take: a result has been stored for it.  The label is history: *)
(* the one passed, Unknown once a handler's call has overwritten it, or if *)
(* no one stored it.                                                       *)
Transfer(at, fn, how, via, label) == [at |-> at, fn |-> fn, how |-> how, via |-> via, label |-> label]
NoFn == "none"
Running == Transfer("run", NoFn, "none", "none", Unknown)
Runs == pend[Depth].at = "run"
Overwrite(at) == [i \in DOMAIN pend |-> IF pend[i].at = at THEN [pend[i] EXCEPT !.label = Unknown] ELSE pend[i]]

Load(what, given, got) == loaded' = [what |-> what, given |-> given, got |-> got]
Nothing == [what |-> "nothing", given |-> Unknown, got |-> 0]
LoadsNothing == loaded' = Nothing

-----------------------------------------------------------------------------
(* addContextRecording: entry and return. *)
Xor(c, d) == (c \ d) \cup (d \ c)
hashCallName(fn) == {fn}

BugXorAgain(now, saved, fn) == Xor(now, hashCallName(fn))
Recovered(now, saved, fn) == saved

BugTrampolineToo(f) ==
  /\ ctx' = Xor(Xor(ctx, hashCallName(f)), IF Top.fn \in Custom THEN hashCallName(Top.fn) ELSE {})
  /\ fctx' = IF f \in Prog THEN Xor(fctx, hashCallName(f)) ELSE fctx

(* A function of the program is instrumented in both binaries, dfsw$F only *)
(* in the tracked one, and F itself in neither.                            *)
Enter(f) ==
  /\ ctx' = Xor(ctx, hashCallName(f))
  /\ fctx' = IF f \in Prog THEN Xor(fctx, hashCallName(f)) ELSE fctx

Leave ==
  /\ ctx' = Recovered(ctx, Top.ctx, Top.fn)
  /\ fctx' = IF Top.how = "prog" THEN Recovered(fctx, Top.fctx, Top.fn) ELSE fctx

(* main is called by the startup code, after nothing has stored a label. *)
CallsInit ==
  \E f \in Prog :
    /\ stack = <<[fn |-> f, how |-> "prog", via |-> "raw", ctx |-> {}, fctx |-> {}, jumped |-> "no"]>>
    /\ argtls = 0 /\ rettls = 0
    /\ ctx = hashCallName(f) /\ fctx = hashCallName(f)
    /\ pend = [i \in 1 .. MaxDepth |-> Running]
    /\ loaded = Nothing

-----------------------------------------------------------------------------
(* visitCallSite: the caller stores the label, and calls. *)
BugConstantSkipped(l) == IF l = 0 THEN argtls ELSE l
StoredArg(l) == l

Store(f, how, via, l) ==
  /\ Runs /\ Len(stack) < MaxDepth
  /\ argtls' = StoredArg(l)
  /\ pend' = [Overwrite("call") EXCEPT ![Depth] = Transfer("call", f, how, via, l)]
  /\ LoadsNothing
  /\ UNCHANGED <<stack, rettls, ctx, fctx>>

(* A call of an instrumented function.  A pointer to a library function    *)
(* that the program took, or an invoke of one with a wrapper, is to its    *)
(* dfsw$F; a pointer that came from a library (dlsym) is to F itself.      *)
Call(f, l) == Top.how = "prog" /\ Store(f, Kind(f), "call", l)
CallPointer(f, l) == Top.how = "prog" /\ Store(f, "lib", "pointer", l)

(* The function is entered; if it is instrumented it loads the label. *)
EnterCalled ==
  LET p == pend[Depth] IN
    /\ p.at = "call"
    /\ Push(Frame(p.fn, p.how, p.via))
    /\ IF p.how = "lib" THEN LoadsNothing /\ UNCHANGED <<ctx, fctx>>
                        ELSE Load("argument", p.label, argtls) /\ Enter(p.fn)
    /\ pend' = [pend EXCEPT ![Depth] = Running]
    /\ UNCHANGED <<argtls, rettls>>

(* A direct call of a library function: labels go to the wrapper as        *)
(* arguments, or nowhere.                                                  *)
BugFallsThrough(f) ==
  /\ Top.how = "prog" /\ Runs /\ Len(stack) < MaxDepth
  /\ argtls' \in Labels
  /\ Push(Frame(f, "lib", "call"))
  /\ LoadsNothing
  /\ UNCHANGED <<rettls, ctx, fctx, pend>>

CallLib(f) ==
  /\ Top.how = "prog" /\ Runs /\ Len(stack) < MaxDepth
  /\ Push(Frame(f, "lib", "call"))
  /\ LoadsNothing
  /\ UNCHANGED <<argtls, rettls, ctx, fctx, pend>>

(* A library function calls back: one that was called through its wrapper  *)
(* goes through a trampoline dfst$F, which stores a label l of the         *)
(* wrapper's choice, any other without a word.  A library function given   *)
(* as the pointer is its dfsw$ function again.                             *)
Wrapped == Top.fn \in Custom /\ Top.via # "pointer"
Callback(f, l) == Top.how # "prog" /\ Wrapped /\ Store(f, Kind(f), "tramp", l)

RawEntry(f, how, via) ==
  /\ Len(stack) < MaxDepth
  /\ Push(Frame(f, how, via))
  /\ Enter(f)
  /\ Load("argument", Unknown, argtls)
  /\ UNCHANGED <<argtls, rettls, pend>>

RawCallback(f) == Top.how # "prog" /\ ~Wrapped /\ RawEntry(f, Kind(f), "raw")

(* A signal handler, which the kernel calls at any time. *)
Signal(f) == RawEntry(f, "prog", "signal")

-----------------------------------------------------------------------------
(* visitReturnInst: the function stores the label of its result, unless it *)
(* has none.                                                               *)
BugZeroSkipped(l) == IF l = 0 THEN rettls ELSE l
StoredRet(l) == l

Pop == stack' = SubSeq(stack, 1, Len(stack) - 1)

(* The label of a library function's result comes from its wrapper or is 0. *)
MayReturn(l) == Top.fn \in Discard => l = 0
ToTake(l) == Transfer("take", NoFn, "none", "none", l)

Return(l) ==
  /\ Top.how # "lib" /\ Top.via # "signal" /\ Runs /\ Len(stack) > 1 /\ MayReturn(l)
  /\ Pop
  /\ rettls' = StoredRet(l)
  /\ Leave
  /\ pend' = IF Top.via = "raw" THEN Overwrite("take") ELSE [Overwrite("take") EXCEPT ![Depth - 1] = ToTake(l)]
  /\ LoadsNothing
  /\ UNCHANGED argtls

ReturnHandler ==
  /\ Top.how # "lib" /\ Top.via = "signal" /\ Runs
  /\ Pop
  /\ Leave
  /\ LoadsNothing
  /\ UNCHANGED <<argtls, rettls, pend>>

(* A library function stores nothing.  After a direct call the label is in *)
(* a local of the caller, or 0; after one through a pointer the caller     *)
(* loads what it finds.                                                    *)
ReturnLib ==
  /\ Top.how = "lib" /\ Runs
  /\ Pop
  /\ pend' = IF Top.via = "pointer" THEN [pend EXCEPT ![Depth - 1] = ToTake(Unknown)] ELSE pend
  /\ LoadsNothing
  /\ UNCHANGED <<argtls, rettls, ctx, fctx>>

(* The load that follows a call; a trampoline hands the label on to the    *)
(* library function.                                                       *)
TakeResult ==
  /\ pend[Depth].at = "take"
  /\ Load("result", pend[Depth].label, rettls)
  /\ pend' = [pend EXCEPT ![Depth] = Running]
  /\ UNCHANGED <<stack, argtls, rettls, ctx, fctx>>

(* Frames k+1..n are gone without a return: ResumeInst and ReturnInst are  *)
(* the only places that recover a context, so frame k goes on with theirs. *)
(* The history notes it, and whether a dfsw$ function was among them.      *)
Land(k, n) ==
  LET passed == {i \in k + 1 .. n : stack[i].how # "lib"}
      apart == \E i \in passed : stack[i].how = "wrap" \/ stack[i].jumped = "apart"
  IN  /\ stack' = [SubSeq(stack, 1, k) EXCEPT ![k].jumped =
                     IF passed = {} \/ @ = "apart" THEN @ ELSE IF apart THEN "apart" ELSE "yes"]
      /\ pend' = [i \in DOMAIN pend |-> IF i >= k THEN Running ELSE pend[i]]

(* An exception or a longjmp ends in frame k: a handler, a cleanup or the  *)
(* second return of setjmp.                                                *)
Jump(k) ==
  /\ stack[k].how = "prog" /\ Runs
  /\ Land(k, Len(stack))
  /\ LoadsNothing
  /\ UNCHANGED <<argtls, rettls, ctx, fctx>>

(* A cleanup ends in ResumeInst, and the exception goes on to frame k.     *)
Resume(k) ==
  /\ Top.how = "prog" /\ stack[k].how = "prog" /\ Runs
  /\ Leave
  /\ Land(k, Len(stack) - 1)
  /\ LoadsNothing
  /\ UNCHANGED <<argtls, rettls>>

CallsNext ==
  \/ \E f \in Prog \cup Lib, l \in Labels : Call(f, l) \/ Callback(f, l)
  \/ \E f \in Lib, l \in Labels : CallPointer(f, l)
  \/ \E f \in Lib : CallLib(f)
  \/ \E f \in Prog \cup Lib : RawCallback(f)
  \/ \E f \in Prog : Signal(f)
  \/ EnterCalled \/ TakeResult
  \/ \E l \in Labels : Return(l)
  \/ ReturnHandler \/ ReturnLib
  \/ \E k \in 1 .. Len(stack) - 1 : Jump(k) \/ Resume(k)

CallsSpec == CallsInit /\ [][CallsNext]_callsVars

-----------------------------------------------------------------------------
(* Properties. *)

(* visitCallSite, getShadow: a function entered from instrumented code or  *)
(* through a trampoline takes for its argument the label its caller gave,  *)
(* whatever ran before and whatever handlers run between the store and the *)
(* load, entering, leaving by a longjmp or calling library functions       *)
(* directly.  Only a handler that itself calls an instrumented function or *)
(* a pointer in between overwrites the label.                              *)
ArgumentsOfThisCall == loaded.what = "argument" /\ loaded.given # Unknown => loaded.got = loaded.given

(* visitReturnInst: the label that instrumented code or a trampoline loads *)
(* after a call of an instrumented function is that of the value this call *)
(* returned, unless a function that a handler had called returned between  *)
(* the store and the load.                                                 *)
ResultOfThisCall == loaded.what = "result" /\ loaded.given # Unknown => loaded.got = loaded.given

(* The functions that occur an odd number of times among the frames of a   *)
(* kind.                                                                   *)
PathOf(hows) ==
  {f \in Prog \cup Lib :
     Cardinality({i \in DOMAIN stack : stack[i].fn = f /\ stack[i].how \in hows}) % 2 = 1}

(* The context stands for the functions of the program on the stack,       *)
(* signal handlers and callbacks included, and a frame that an exception   *)
(* or a longjmp left with a wrong one spoils nothing once it has returned. *)
ContextIsPath ==
  (\A i \in DOMAIN stack : stack[i].jumped = "no") => fctx = PathOf({"prog"})

(* A branch has the same context in both binaries, also after an exception *)
(* or a longjmp, so that check_match of the fast one finds what the tracked *)
(* one reported.  Only below dfsw$ functions the two differ, by exactly    *)
(* these functions, and until the return of a frame that a jump out of one *)
(* has ended in.                                                           *)
ContextsAgree ==
  (\A i \in DOMAIN stack : stack[i].jumped # "apart") => ctx = Xor(fctx, PathOf({"wrap"}))
=============================================================================
