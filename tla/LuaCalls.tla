------------------------------ MODULE LuaCalls ------------------------------
(* Calls, errors and coroutines (ldo.c, the calls of lapi.c, lcorolib.c).    *)
(* All threads share one C stack. A thread keeps its own list of called      *)
(* functions, which outlives the C functions that ran them: a yield and an   *)
(* error cut the C stack with a long jump, and what the lost C functions had *)
(* still to do is found again in that list.                                  *)
(* A step is what the interpreter does between two points where a function   *)
(* of the program decides, or one frame of the C stack is left.              *)
EXTENDS Naturals, Sequences, SequencesExt, FiniteSets

CONSTANTS
  Threads,     \* the threads there can be
  Main,        \* g->mainthread
  Handlers,    \* message handlers
  None,        \* no message handler, errfunc 0
  MaxCCalls,   \* LUAI_MAXCCALLS
  ExtraCCalls, \* what an overflow may take beyond: LUAI_MAXCCALLS >> 3
  MaxFrames    \* bounds: how deep functions of the threads call each other, one of these

ASSUME CallsAssumption ==
  /\ Main \in Threads /\ None \notin Handlers
  /\ MaxCCalls \in Nat \ {0} /\ ExtraCCalls \in Nat \ {0} /\ MaxFrames \subseteq [Threads -> Nat]

VARIABLES
  status,    \* L->status: "ok", "yield", or the error that ended the thread
  ci,        \* the list of CallInfo of a thread, the running function last
  ready,     \* does the stack of a thread that runs nothing hold a function?
  nny,       \* L->nny: calls that nobody can yield across
  nCcalls,   \* L->nCcalls: nested C calls
  errfunc,   \* L->errfunc
  errorJmp,  \* L->errorJmp: where in C it is, or 0
  gcrunning, \* g->gcrunning: may allocations run the collector?
  C,         \* the C stack
  ctl,       \* what is going on, in which thread
  told       \* what the last protected call, or resume, returned

thread == <<status, ci, ready, nny, nCcalls, errfunc, errorJmp>>
vars == <<thread, gcrunning, C, ctl, told>>

Errors == {"run", "mem", "err", "gcmm"}

-----------------------------------------------------------------------------
(* Frames of a thread, and of the C stack                                    *)

\* A CallInfo. 'fresh': CIST_FRESH, its luaV_execute runs nothing below it.
LuaFrame(fresh) ==
  [lua |-> TRUE, fresh |-> fresh, k |-> FALSE, ypcall |-> FALSE, old_errfunc |-> None]
CFrame == [LuaFrame(FALSE) EXCEPT !.lua = FALSE]
\* The function runs again. (Its other fields stay as they were in the code, and
\* nobody reads them before they are set again.)
Idle(f) == [f EXCEPT !.k = FALSE, !.ypcall = FALSE, !.old_errfunc = None]
FrameOf(lua) == IF lua THEN LuaFrame(TRUE) ELSE CFrame

\* luaV_execute, or a C function (or its continuation) at work on thread t.
Working(t, lua) == [op |-> IF lua THEN "execute" ELSE "body", L |-> t]

L == ctl.L
Top == C[Len(C)]
frames == ci[L]
frame == frames[Len(frames)]

\* The threads that resumed each other.
Resuming == {j \in DOMAIN C : C[j].op = "resume"}
Chained == IF C = <<>> THEN {} ELSE {Main} \cup {C[j].L : j \in Resuming}

At(at, t) == [at |-> at, L |-> t, code |-> "ok"]
In(op) == ctl.at = "run" /\ Top.op = op
Back(op) == ctl.at = "return" /\ Top.op = op

\* The C stack is cut to its first n frames, and what is then the last of them goes on:
\* the work of a function, or a call that a finalizer has interrupted. When nothing is
\* left, the program is over.
GoOn(n) ==
  ctl' = IF n = 0 THEN At("end", Main)
         ELSE At(IF C[n].op \in {"execute", "body"} THEN "run" ELSE "call", C[n].L)

-----------------------------------------------------------------------------
(* Calls and errors                                                          *)

luaD_throw(code) ==
  /\ ctl' = [at |-> "throw", L |-> L, code |-> code]
  /\ UNCHANGED <<nny, nCcalls, C>>

\* luaD_call and luaD_callnoyield, up to luaD_precall. 'then': what the caller
\* does when the callee has returned.
luaD_call(noyield, then) ==
  /\ nny' = IF noyield THEN [nny EXCEPT ![L] = @ + 1] ELSE nny
  /\ nCcalls' = [nCcalls EXCEPT ![L] = @ + 1]
  /\ C' = Append(C, [op |-> "call", L |-> L, ci |-> Len(frames),
                     noyield |-> noyield, then |-> then])
  /\ ctl' = At("call", L)

\* The message handler is called on top of the error, and the error thrown
\* when it returns.
luaG_errormsg == IF errfunc[L] # None THEN luaD_call(TRUE, "throw") ELSE luaD_throw("run")

\* luaD_pcall with f_call; of GCTM when gc, which keeps allocations from running the
\* collector until it is done.
luaD_pcall(h, gc) ==
  /\ C' = Append(C, [op |-> "pcall", L |-> L, ci |-> Len(frames), nny |-> nny[L],
                     errfunc |-> errfunc[L], nCcalls |-> nCcalls[L],
                     previous |-> errorJmp[L], gc |-> gc, running |-> gc /\ gcrunning])
  /\ gcrunning' = (gcrunning /\ ~ gc)
  /\ errorJmp' = [errorJmp EXCEPT ![L] = Len(C) + 1]
  /\ errfunc' = [errfunc EXCEPT ![L] = h]
  /\ nny' = [nny EXCEPT ![L] = @ + 1]
  /\ nCcalls' = [nCcalls EXCEPT ![L] = @ + 1]
  /\ ctl' = At("call", L)

\* luaD_precall on behalf of luaD_call or of lua_resume, unless there are too many nested
\* calls.
Allowed(n) == n # MaxCCalls /\ n < MaxCCalls + ExtraCCalls
luaD_precall(lua) ==
  /\ ctl.at = "call" /\ Allowed(nCcalls[L])
  /\ ci' = [ci EXCEPT ![L] = Append(@, FrameOf(lua))]
  /\ C' = Append(C, Working(L, lua))
  /\ ctl' = At("run", L)
  /\ told' = "none"
  /\ UNCHANGED <<status, ready, nny, nCcalls, errfunc, errorJmp, gcrunning>>

\* An overflow is an error like others, whose handler may nest some more calls;
\* too many of them are an error that no handler sees.
stackerror ==
  /\ ctl.at = "call"
  /\ \/ nCcalls[L] = MaxCCalls /\ luaG_errormsg
     \/ nCcalls[L] >= MaxCCalls + ExtraCCalls /\ luaD_throw("err")
  /\ told' = "none"
  /\ UNCHANGED <<status, ci, ready, errfunc, errorJmp, gcrunning>>

-----------------------------------------------------------------------------
(* What a running function does                                              *)

\* Bounds of the model: functions call others only so deep, and a thread that has no
\* depth does not exist.
Within(m) == \A t \in Threads : Len(ci[t]) <= m[t] /\ (m[t] = 0 => status[t] = "ok" /\ ~ ready[t])
Room == \E m \in MaxFrames : Within(m) /\ Len(frames) < m[L]
RoomFor(t) == \E m \in MaxFrames : Within(m) /\ m[t] > 0

\* OP_CALL. A Lua function runs in the same luaV_execute.
OP_CALL(lua) ==
  /\ In("execute") /\ Room
  /\ ci' = [ci EXCEPT ![L] = Append(@, IF lua THEN LuaFrame(FALSE) ELSE CFrame)]
  /\ C' = IF lua THEN C ELSE Append(C, Working(L, FALSE))
  /\ told' = "none"
  /\ UNCHANGED <<status, ready, nny, nCcalls, errfunc, errorJmp, gcrunning, ctl>>

\* OP_RETURN: luaD_poscall, and the end of luaV_execute for a fresh frame.
OP_RETURN ==
  /\ In("execute")
  /\ ci' = [ci EXCEPT ![L] = Front(@)]
  /\ IF frame.fresh THEN C' = Front(C) /\ ctl' = At("return", L) /\ UNCHANGED told
     ELSE UNCHANGED <<C, ctl>> /\ told' = "none"
  /\ UNCHANGED <<status, ready, nny, nCcalls, errfunc, errorJmp, gcrunning>>

\* luaT_callTM from Lua code
callTM ==
  /\ In("execute") /\ Room /\ luaD_call(FALSE, "proceed")
  /\ told' = "none"
  /\ UNCHANGED <<status, ci, ready, errfunc, errorJmp, gcrunning>>

\* lua_callk, with a continuation or without; luaT_callTM from a C function.
Continues_AnyFunction(k) == nny[L] = 0
Continues(k) == k /\ nny[L] = 0
lua_callk(k) ==
  /\ In("body") /\ Room
  /\ ci' = IF Continues(k) THEN [ci EXCEPT ![L][Len(frames)].k = k] ELSE ci
  /\ luaD_call(~ Continues(k), "proceed")
  /\ told' = "none"
  /\ UNCHANGED <<status, ready, errfunc, errorJmp, gcrunning>>

\* lua_pcallk: a conventional protected call, or a call that the resume of the
\* coroutine protects and that the function recovers from.
lua_pcallk(h, k) ==
  /\ In("body") /\ Room
  /\ IF ~ Continues(k) THEN luaD_pcall(h, FALSE) /\ UNCHANGED ci
     ELSE /\ ci' = [ci EXCEPT ![L][Len(frames)] =
                      [@ EXCEPT !.k = TRUE, !.ypcall = TRUE, !.old_errfunc = errfunc[L]]]
          /\ errfunc' = [errfunc EXCEPT ![L] = h]
          /\ luaD_call(FALSE, "unprotect")
          /\ UNCHANGED <<errorJmp, gcrunning>>
  /\ told' = "none"
  /\ UNCHANGED <<status, ready>>

\* When a finalizer may run: at an allocation, of a function at work or of luaD_precall,
\* which may have to grow the stack; and in a full collection that a C function asks for
\* (LUA_GCCOLLECT), which does not look at gcrunning.
CollectsHere_Unstopped == ctl.at = "run" \/ (ctl.at = "call" /\ Allowed(nCcalls[L]))
CollectsHere ==
  \/ ctl.at = "run" /\ (gcrunning \/ Top.op = "body")
  \/ ctl.at = "call" /\ gcrunning /\ Allowed(nCcalls[L])

\* GCTM: a finalizer runs inside whatever the program does, other finalizers included.
GCTM ==
  /\ CollectsHere /\ Room
  /\ luaD_pcall(None, TRUE)
  /\ told' = "none"
  /\ UNCHANGED <<status, ci, ready>>

\* lua_gc with LUA_GCSTOP or LUA_GCRESTART. (LUA_GCSTEP is a restart, GCTM and a stop, unless
\* an error of a finalizer gets in between.)
lua_gc(running) ==
  /\ In("body")
  /\ gcrunning' = running
  /\ UNCHANGED <<thread, C, ctl, told>>

\* A C function returns to luaD_precall, or to who called its continuation.
return ==
  /\ In("body")
  /\ ci' = [ci EXCEPT ![L] = Front(@)]
  /\ C' = Front(C)
  /\ ctl' = At("return", L)
  /\ UNCHANGED <<status, ready, nny, nCcalls, errfunc, errorJmp, gcrunning, told>>

\* lua_error, luaG_runerror; and the failure of an allocation. In luaD_precall: what is
\* called is no function, or its stack cannot grow (luaD_growstack).
error ==
  /\ \/ ctl.at = "run" /\ (luaG_errormsg \/ luaD_throw("mem"))
     \/ /\ ctl.at = "call" /\ Allowed(nCcalls[L])
        /\ luaG_errormsg \/ luaD_throw("mem") \/ luaD_throw("err")
  /\ told' = "none"
  /\ UNCHANGED <<status, ci, ready, errfunc, errorJmp, gcrunning>>

-----------------------------------------------------------------------------
(* Coroutines                                                                *)

\* luaB_cocreate: the new thread takes the place of one that is over.
luaB_cocreate(t) ==
  /\ In("body") /\ t \notin Chained /\ RoomFor(t)
  /\ \/ status[t] = "ok" /\ ~ ready[t]
     \/ status[t] \in Errors
  /\ status' = [status EXCEPT ![t] = "ok"]
  /\ ci' = [ci EXCEPT ![t] = <<>>]
  /\ ready' = [ready EXCEPT ![t] = TRUE]
  /\ nny' = [nny EXCEPT ![t] = 1]
  /\ nCcalls' = [nCcalls EXCEPT ![t] = 0]
  /\ errfunc' = [errfunc EXCEPT ![t] = None]
  /\ errorJmp' = [errorJmp EXCEPT ![t] = 0]
  /\ told' = "none"
  /\ UNCHANGED <<gcrunning, C, ctl>>

\* lua_yieldk
lua_yieldk(k) ==
  /\ In("body")
  /\ IF nny[L] > 0
     THEN luaG_errormsg /\ told' = "none" /\ UNCHANGED <<status, ci>>
     ELSE /\ status' = [status EXCEPT ![L] = "yield"]
          /\ ci' = [ci EXCEPT ![L][Len(frames)].k = k]
          /\ luaD_throw("yield")
          /\ UNCHANGED told
  /\ UNCHANGED <<ready, errfunc, errorJmp, gcrunning>>

\* auxresume and lua_resume of t when it waits for neither its start nor its
\* continuation, or when C calls are nested too deep ('nCcalls' stays behind).
resume_error(t) ==
  /\ In("body")
  /\ \/ status[t] = "ok" /\ ~ ready[t] /\ UNCHANGED nCcalls
     \/ status[t] \in Errors /\ UNCHANGED nCcalls
     \/ /\ ready[t] \/ status[t] = "yield"
        /\ nCcalls[L] + 1 >= MaxCCalls
        /\ nCcalls' = [nCcalls EXCEPT ![t] = nCcalls[L] + 1]
  /\ told' = "run"
  /\ UNCHANGED <<status, ci, ready, nny, errfunc, errorJmp, gcrunning, C, ctl>>

\* lua_resume(t, L, ..) up to luaD_precall of the coroutine's function, or to the function
\* that goes on.
lua_resume(t) ==
  LET C1 == Append(C, [op |-> "resume", L |-> t, nny |-> nny[t],
                       nCcalls |-> nCcalls[L] + 1, previous |-> errorJmp[t]])
      top == Len(ci[t])
  IN /\ In("body") /\ nCcalls[L] + 1 < MaxCCalls
     /\ nCcalls' = [nCcalls EXCEPT ![t] = nCcalls[L] + 1]
     /\ nny' = [nny EXCEPT ![t] = 0]
     /\ errorJmp' = [errorJmp EXCEPT ![t] = Len(C1)]
     /\ \/ /\ ready[t]
           /\ ready' = [ready EXCEPT ![t] = FALSE]
           /\ C' = C1
           /\ ctl' = At("call", t)
           /\ UNCHANGED <<status, ci>>
        \/ /\ status[t] = "yield"
           /\ status' = [status EXCEPT ![t] = "ok"]
           /\ IF ci[t][top].k
              THEN /\ ctl' = At("run", t)
                   /\ C' = Append(C1, Working(t, FALSE))
                   /\ ci' = [ci EXCEPT ![t][top] = Idle(@)]
              ELSE ctl' = At("return", t) /\ C' = C1 /\ ci' = [ci EXCEPT ![t] = Front(@)]
           /\ UNCHANGED ready
     /\ told' = "none"
     /\ UNCHANGED <<errfunc, gcrunning>>

\* The end of lua_resume, whose frame is C[j], with 'st' for who called it.
resumed(j, st) ==
  /\ errorJmp' = [errorJmp EXCEPT ![L] = C[j].previous]
  /\ nCcalls' = [nCcalls EXCEPT ![L] = C[j].nCcalls - 1]
  /\ nny' = [nny EXCEPT ![L] = C[j].nny]
  /\ C' = SubSeq(C, 1, j - 1)
  /\ GoOn(j - 1)
  /\ told' = st

-----------------------------------------------------------------------------
(* A function has returned                                                   *)

\* to luaV_execute, after OP_CALL
toLua ==
  /\ Back("execute")
  /\ ctl' = At("run", L)
  /\ told' = "none"
  /\ UNCHANGED <<thread, gcrunning, C>>

\* to luaD_call, and so to lua_callk, lua_pcallk or luaG_errormsg
toCall ==
  /\ Back("call")
  /\ nny' = IF Top.noyield THEN [nny EXCEPT ![L] = @ - 1] ELSE nny
  /\ nCcalls' = [nCcalls EXCEPT ![L] = @ - 1]
  /\ C' = Front(C)
  /\ IF Top.then = "throw"
     THEN /\ ctl' = [at |-> "throw", L |-> L, code |-> "run"]
          /\ told' = "none"
          /\ UNCHANGED <<ci, errfunc>>
     ELSE /\ ctl' = At("run", L)
          /\ ci' = [ci EXCEPT ![L][Len(frames)] = Idle(@)]
          /\ IF Top.then = "unprotect"
             THEN errfunc' = [errfunc EXCEPT ![L] = frame.old_errfunc] /\ told' = "ok"
             ELSE UNCHANGED errfunc /\ told' = "none"
  /\ UNCHANGED <<status, ready, errorJmp, gcrunning>>

\* The end of luaD_rawrunprotected and of luaD_pcall, whose record is r.
unprotect_LeavesJump(r) ==
  /\ nCcalls' = [nCcalls EXCEPT ![L] = r.nCcalls]
  /\ errfunc' = [errfunc EXCEPT ![L] = r.errfunc]
  /\ UNCHANGED errorJmp
unprotect_KeepsHandler(r) ==
  /\ nCcalls' = [nCcalls EXCEPT ![L] = r.nCcalls]
  /\ errorJmp' = [errorJmp EXCEPT ![L] = r.previous]
  /\ UNCHANGED errfunc
unprotect(r) ==
  /\ nCcalls' = [nCcalls EXCEPT ![L] = r.nCcalls]
  /\ errorJmp' = [errorJmp EXCEPT ![L] = r.previous]
  /\ errfunc' = [errfunc EXCEPT ![L] = r.errfunc]
\* and of GCTM
restored(r) == IF r.gc THEN r.running ELSE gcrunning

\* to luaD_pcall
toPcall ==
  /\ Back("pcall")
  /\ nny' = [nny EXCEPT ![L] = @ - 1]
  /\ unprotect(Top)
  /\ gcrunning' = restored(Top)
  /\ C' = Front(C)
  /\ GoOn(Len(C) - 1)
  /\ told' = IF Top.gc THEN "none" ELSE "ok"
  /\ UNCHANGED <<status, ci, ready>>

\* The last function of thread L, which finishes what a yield or an error has
\* interrupted: finishCcall or luaV_execute, with the C stack C1. fs are the
\* functions of the thread, in force the handler h.
continue(fs, C1, h) ==
  LET n == Len(fs)
  IN /\ C' = Append(C1, Working(L, fs[n].lua))
     /\ ci' = [ci EXCEPT ![L] = [fs EXCEPT ![n] = [Idle(@) EXCEPT !.fresh = fs[n].lua]]]
     /\ errfunc' = [errfunc EXCEPT ![L] = IF fs[n].ypcall THEN fs[n].old_errfunc ELSE h]
     /\ ctl' = At("run", L)

\* to unroll, which takes the next function, or to lua_resume when there is none
unroll ==
  /\ Back("resume")
  /\ IF frames = <<>> THEN resumed(Len(C), "ok") /\ UNCHANGED <<ci, errfunc>>
     ELSE /\ continue(frames, C, errfunc[L])
          /\ told' = IF frame.ypcall THEN "ok" ELSE "none"
          /\ UNCHANGED <<nny, nCcalls, errorJmp>>
  /\ UNCHANGED <<status, ready, gcrunning>>

-----------------------------------------------------------------------------
(* A long jump                                                               *)

Caught(op) == ctl.at = "throw" /\ C[errorJmp[L]].op = op

\* to luaD_pcall; GCTM throws again.
old_nny_Kept(r) == nny[L]
old_nny(r) == r.nny
catchPcall ==
  LET j == errorJmp[L]
      r == C[j]
  IN /\ Caught("pcall")
     /\ ci' = [ci EXCEPT ![L] = SubSeq(@, 1, r.ci)]
     /\ nny' = [nny EXCEPT ![L] = old_nny(r)]
     /\ unprotect(r)
     /\ gcrunning' = restored(r)
     /\ C' = SubSeq(C, 1, j - 1)
     /\ IF r.gc
        THEN /\ ctl' = [ctl EXCEPT !.code = IF @ = "run" THEN "gcmm" ELSE @]
             /\ told' = "none"
        ELSE GoOn(j - 1) /\ told' = ctl.code
     /\ UNCHANGED <<status, ready>>

\* findpcall: the functions that can recover from an error.
Recoverable == {i \in DOMAIN frames : frames[i].ypcall}
findpcall_Outermost == CHOOSE i \in Recoverable : \A j \in Recoverable : i <= j
findpcall == CHOOSE i \in Recoverable : \A j \in Recoverable : j <= i

ended_Unmarked(code) == status
ended(code) == IF code = "yield" THEN status ELSE [status EXCEPT ![L] = code]

\* to lua_resume: after a yield it returns; after an error the innermost
\* function that can recovers, in the same lua_resume; else the thread is dead.
catchResume ==
  LET j == errorJmp[L]
  IN /\ Caught("resume")
     /\ IF ctl.code # "yield" /\ Recoverable # {}
        THEN /\ continue(SubSeq(frames, 1, findpcall), SubSeq(C, 1, j), None)
             /\ nny' = [nny EXCEPT ![L] = 0]
             /\ nCcalls' = [nCcalls EXCEPT ![L] = C[j].nCcalls]
             /\ told' = ctl.code
             /\ UNCHANGED <<status, errorJmp>>
        ELSE /\ status' = ended(ctl.code)
             /\ resumed(j, IF ctl.code = "yield" THEN "ok" ELSE ctl.code)
             /\ UNCHANGED <<ci, errfunc>>
     /\ UNCHANGED <<ready, gcrunning>>

-----------------------------------------------------------------------------

\* lua.c: main calls pmain, a C function, in a protected call.
Init ==
  /\ status = [t \in Threads |-> "ok"]
  /\ ci = [t \in Threads |-> IF t = Main THEN <<CFrame>> ELSE <<>>]
  /\ ready = [t \in Threads |-> FALSE]
  /\ nny = [t \in Threads |-> IF t = Main THEN 2 ELSE 1]
  /\ nCcalls = [t \in Threads |-> IF t = Main THEN 1 ELSE 0]
  /\ errfunc = [t \in Threads |-> None]
  /\ errorJmp = [t \in Threads |-> IF t = Main THEN 1 ELSE 0]
  /\ C = <<[op |-> "pcall", L |-> Main, ci |-> 0, nny |-> 1, errfunc |-> None,
            nCcalls |-> 0, previous |-> 0, gc |-> FALSE, running |-> FALSE], Working(Main, FALSE)>>
  /\ gcrunning = TRUE
  /\ ctl = At("run", Main)
  /\ told = "none"

Program ==
  \/ \E lua \in BOOLEAN : OP_CALL(lua) \/ luaD_precall(lua)
  \/ OP_RETURN \/ return \/ callTM \/ GCTM \/ error
  \/ \E k \in BOOLEAN : lua_callk(k) \/ lua_yieldk(k) \/ lua_gc(k)
  \/ \E k \in BOOLEAN, h \in Handlers \cup {None} : lua_pcallk(h, k)
  \/ \E t \in Threads : luaB_cocreate(t) \/ lua_resume(t) \/ resume_error(t)
Interpreter == stackerror \/ toLua \/ toCall \/ toPcall \/ unroll \/ catchPcall \/ catchResume

\* The program is over.
Done == ctl.at = "end" /\ UNCHANGED vars

Next == Program \/ Interpreter \/ Done
Spec == Init /\ [][Next]_vars
-----------------------------------------------------------------------------
(* What must hold                                                            *)

Codes == Errors \cup {"ok", "yield"}
Frames == [lua : BOOLEAN, fresh : BOOLEAN, k : BOOLEAN, ypcall : BOOLEAN,
           old_errfunc : Handlers \cup {None}]

\* The threads that resumed each other, the main one first, and the part thread t
\* has in the C stack.
ResumedAt(n) == {C[j].L : j \in {k \in Resuming : Cardinality({i \in Resuming : i <= k}) = n}}
Member(D) == CHOOSE x \in D : TRUE
Link(n) == IF n = 1 THEN Main ELSE Member(ResumedAt(n - 1))
chain == IF C = <<>> THEN <<>> ELSE [n \in 1 .. Cardinality(Resuming) + 1 |-> Link(n)]
Records(t) == {j \in DOMAIN C : C[j].L = t}
Protected(t) == {j \in Records(t) : C[j].op \in {"pcall", "resume"}}

\* Types; and the nesting of C calls is limited, whatever handlers, finalizers
\* and coroutines add to it (ldo.c:488-493, 669-671).
TypeOK ==
  /\ status \in [Threads -> Codes]
  /\ \A t \in Threads : \A i \in DOMAIN ci[t] : ci[t][i] \in Frames
  /\ ready \in [Threads -> BOOLEAN]
  /\ nny \in [Threads -> Nat]
  /\ nCcalls \in [Threads -> 0 .. MaxCCalls + ExtraCCalls]
  /\ errfunc \in [Threads -> Handlers \cup {None}]
  /\ errorJmp \in [Threads -> 0 .. Len(C)]
  /\ gcrunning \in BOOLEAN
  /\ ctl \in [at : {"run", "call", "return", "throw", "end"}, L : Threads, code : Codes]
  /\ told \in Codes \cup {"none"}

\* The counters of a thread are right after any mixture of returns, errors and
\* yields. nCcalls counts the calls, protected calls and resumes under way below
\* it: one that is lost lets the C stack overflow, one that stays makes calls fail
\* for ever (ldo.c:138-150, 506-512, 653-695). nny counts those that a yield would
\* cut without a way to go on, and the main thread itself (ldo.c:519-523, 739-758).
CallsCounted ==
  \A t \in Chained :
    LET last == CHOOSE j \in Records(t) : \A i \in Records(t) : i <= j
    IN /\ nCcalls[t] = Cardinality({j \in 1 .. last : C[j].op \in {"call", "pcall", "resume"}})
       /\ nny[t] = (IF t = Main THEN 1 ELSE 0)
                   + Cardinality({j \in Records(t) : \/ C[j].op = "pcall"
                                                     \/ C[j].op = "call" /\ C[j].noyield})

\* Types and counters.
Consistent == TypeOK /\ CallsCounted

\* Whenever a thread can yield, every C function that waits in it has a
\* continuation (the assertion of ldo.c:522).
YieldSafe ==
  \A t \in Chained :
    nny[t] = 0 => \A i \in 1 .. Len(ci[t]) - 1 : ci[t][i].lua \/ ci[t][i].k

\* A long jump lands in a C function that is still there, the innermost that
\* protects its thread; a thread nobody runs has nowhere to jump (ldo.c:104-150).
JumpsLand ==
  \A t \in Threads :
    IF t \in Chained /\ Protected(t) # {}
    THEN errorJmp[t] \in Protected(t) /\ \A j \in Protected(t) : j <= errorJmp[t]
    ELSE errorJmp[t] = 0

\* coroutine.status, asked by thread L
luaB_costatus(t) ==
  IF t = L THEN "running"
  ELSE CASE status[t] = "yield" -> "suspended"
         [] status[t] = "ok" -> IF ci[t] # <<>> THEN "normal"
                                ELSE IF ready[t] THEN "suspended" ELSE "dead"
         [] status[t] \in Errors -> "dead"

\* coroutine.status says "normal" of the threads that wait for one they resumed
\* and of no other, and "suspended" of those that a resume wakes, and of no other
\* (lcorolib.c:97-125).
StatusRight ==
  ctl.at = "run" =>
    \A t \in Threads \ {L} :
      /\ luaB_costatus(t) = "normal" <=> t \in Chained
      /\ luaB_costatus(t) = "suspended" <=> ready[t] \/ (status[t] = "yield" /\ ci[t] # <<>>)

-----------------------------------------------------------------------------
(* The refinement mapping to Coroutines                                      *)

\* What tells a guard from a handler.
ASSUME GuardsAssumption == "unguarded" \notin Handlers \cup {None}

CallsAt(r, t, i) == r.L = t /\ r.op \in {"call", "pcall"} /\ r.ci = i
AtFrame(t, i) == {j \in DOMAIN C : CallsAt(C[j], t, i)}
Guarding(t, i) == {j \in AtFrame(t, i) : C[j].op = "pcall"}
Finalizing(t, i) == {j \in Guarding(t, i) : C[j].gc}
Guarded(t) == {i \in DOMAIN ci[t] : ci[t][i].ypcall \/ Guarding(t, i) # {}}
\* The handler that was in force around the guard of frame i.
Least(D) == CHOOSE n \in D : \A m \in D : n <= m
Outer(t, i) == IF ci[t][i].ypcall THEN ci[t][i].old_errfunc
               ELSE C[Least(Guarding(t, i))].errfunc
\* The handler in force above frame i, and below the next guard or finalizer.
Handler(t, i) ==
  LET inner == {n \in Guarded(t) : n > i}
  IN IF Finalizing(t, i) # {} THEN C[Least(Finalizing(t, i))].errfunc
     ELSE IF inner = {} THEN errfunc[t]
     ELSE Outer(t, Least(inner))

Guards(t, i) == i \in DOMAIN ci[t] /\ (ci[t][i].ypcall \/ Guarding(t, i) # Finalizing(t, i))
Guard(t, i) == IF Guards(t, i) THEN Handler(t, i) ELSE "unguarded"
RoleOf(r) == IF r.op = "pcall" /\ r.gc THEN "finalizer"
             ELSE IF r.op = "call" /\ r.then = "throw" THEN "handler" ELSE "function"
Walls(r) == r.op = "pcall" \/ (r.op = "call" /\ r.noyield)
\* What goes on when the function returns; a finalizer has interrupted a call, when it
\* is not a function at work.
Goes == [at |-> "run"]
Calling(wall, role, back) == [at |-> "call", wall |-> wall, role |-> role, back |-> back]
BackTo(r) == IF r.op \in {"execute", "body"} THEN Goes ELSE Calling(Walls(r), RoleOf(r), Goes)
\* What the C functions at frame i make of the function above it; the last one says most.
LastAt(t, i) == {j \in AtFrame(t, i) : \A m \in j + 1 .. Len(C) : ~ CallsAt(C[m], t, i)}
Call(t, i) ==
  IF AtFrame(t, i) = {} THEN Calling(FALSE, "function", Goes)
  ELSE Member({Calling(\E m \in AtFrame(t, i) : Walls(C[m]), RoleOf(C[j]),
                       IF RoleOf(C[j]) = "finalizer" THEN BackTo(C[j - 1]) ELSE Goes)
                 : j \in LastAt(t, i)})

\* A function that returns is off the list of its thread before who called it knows.
Length(t) == Len(ci[t]) + (IF ctl.at = "return" /\ t = L THEN 1 ELSE 0)
Stacks == [t \in Threads |->
  IF t \notin Chained /\ status[t] # "yield" THEN <<>>
  ELSE [i \in 1 .. Length(t) |->
         [guard |-> Guard(t, i),
          call |-> [Call(t, i - 1) EXCEPT !.wall = @ \/ (t = Main /\ i = 1)]]]]
States == [t \in Threads |->
  IF t \in Chained THEN "active"
  ELSE IF status[t] = "yield" THEN "suspended"
  ELSE IF ready[t] THEN "new" ELSE "dead"]
\* Is an error thrown before the finalizer that is called has begun?
Unbegun == C[errorJmp[L]].op = "pcall" /\ C[errorJmp[L]].gc /\ C[errorJmp[L]].ci = Len(frames)
Mode ==
  CASE ctl.at = "call" -> Call(L, Len(frames))
    [] ctl.at = "throw" /\ ctl.code # "yield" ->
         [at |-> "raise", code |-> IF Unbegun /\ ctl.code = "run" THEN "gcmm" ELSE ctl.code]
    [] ctl.at = "end" -> [at |-> "end"]
    [] OTHER -> Goes

Coroutine == INSTANCE Coroutines WITH stack <- Stacks, state <- States, mode <- Mode

\* Errors go to the innermost protected call of their thread or to whoever resumed
\* it, handlers run where the error is, a yield gives way exactly when no call in
\* between forbids it and the coroutine goes on from there: whether or not the C
\* functions in between are still on the C stack (ldo.c, lapi.c:909-1003).
Implements == Coroutine!Spec
=============================================================================
