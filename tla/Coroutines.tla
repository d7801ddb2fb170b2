----------------------------- MODULE Coroutines -----------------------------
(* What calls, protected calls and coroutines promise: every thread has a    *)
(* stack of its own; an error goes to the innermost protected call of its    *)
(* thread, and to whoever resumed the thread when there is none; finalizers  *)
(* run inside everything else, a call that is being made included; a coroutine*)
(* gives way wherever no call on its stack stands in the way, and goes on    *)
(* from there. Nothing is said of how: of long jumps, of continuations, of   *)
(* what is counted.                                                          *)
EXTENDS Naturals, Sequences

CONSTANTS
  Threads, Main,  \* the threads there can be, and the first of them
  Handlers,       \* message handlers
  None            \* no message handler

\* What a frame guards the frames above it with.
Unguarded == "unguarded"
Guards == Handlers \cup {None, Unguarded}
Errors == {"run", "mem", "err", "gcmm"}

VARIABLES
  stack,   \* stack[t]: the frames of a thread, the running function last
  chain,   \* the threads that resumed each other, the running one last
  state,   \* state[t]: "new", "suspended", "active" or "dead"
  mode,    \* what is going on: a function runs, is called, or an error is raised
  told     \* how the last protected call, or resume, ended

vars == <<stack, chain, state, mode, told>>

running == chain[Len(chain)]
frames == stack[running]
Top == frames[Len(frames)]

\* What is called has the role "function", "handler" or "finalizer"; nobody can yield
\* across a wall; back: what goes on when a finalizer returns.
Go == [at |-> "run"]
Calling(wall, role, back) == [at |-> "call", wall |-> wall, role |-> role, back |-> back]
Frame(call) == [guard |-> Unguarded, call |-> call]
Raising(e) == [at |-> "raise", code |-> e]

\* The frames with a guard, and the innermost one.
Guarded == {i \in DOMAIN frames : frames[i].guard # Unguarded}
innermost == CHOOSE i \in Guarded : \A j \in Guarded : j <= i
\* The finalizers that run inside all that is guarded, and the last of them.
Finalizers == {i \in DOMAIN frames : frames[i].call.role = "finalizer" /\ \A j \in Guarded : j < i}
finalizer == CHOOSE i \in Finalizers : \A j \in Finalizers : j <= i
\* Is a finalizer about to begin?
Finalizing == mode.at = "call" /\ mode.role = "finalizer"
\* The handler that an error meets first. Nothing is handled below a finalizer.
InForce == IF Guarded = {} \/ Finalizers # {} \/ Finalizing THEN None ELSE frames[innermost].guard

\* An error that a finalizer hands on.
HandedOn(e) == IF e = "run" THEN "gcmm" ELSE e

-----------------------------------------------------------------------------

\* The running function calls another one, protected or not.
Call(g, wall) ==
  /\ mode.at = "run" /\ told' = "none"
  /\ mode' = Calling(wall, "function", Go)
  /\ stack' = [stack EXCEPT ![running][Len(frames)].guard = g]
  /\ UNCHANGED <<chain, state>>

Enter ==
  /\ mode.at = "call" /\ mode' = Go /\ told' = "none"
  /\ stack' = [stack EXCEPT ![running] = Append(@, Frame(mode))]
  /\ UNCHANGED <<chain, state>>

\* Both at once: a call that cannot fail.
CallIn ==
  /\ mode.at = "run" /\ told' = "none"
  /\ UNCHANGED <<mode, state, chain>>
  /\ stack' = [stack EXCEPT ![running] = Append(@, Frame(Calling(FALSE, "function", Go)))]

\* A finalizer runs first, whatever is going on; but no other one before it begins.
Finalize ==
  /\ mode.at = "run" \/ (mode.at = "call" /\ ~ Finalizing)
  /\ mode' = Calling(TRUE, "finalizer", mode) /\ told' = "none"
  /\ UNCHANGED <<stack, chain, state>>

\* A thread is over: its stack is gone, and who resumed it is told how it ended.
Over(end) ==
  /\ told' = end
  /\ mode' = IF running = Main THEN [at |-> "end"] ELSE Go
  /\ state' = [state EXCEPT ![running] = "dead"]
  /\ chain' = SubSeq(chain, 1, Len(chain) - 1)
  /\ stack' = [stack EXCEPT ![running] = <<>>]

\* The running function returns: a protected call has ended well. What a
\* message handler returns is the error to raise; after a finalizer goes on what it
\* has interrupted.
Return ==
  /\ mode.at = "run"
  /\ IF Top.call.role = "handler" THEN
       /\ mode' = Raising("run") /\ told' = "none"
       /\ stack' = [stack EXCEPT ![running] = SubSeq(@, 1, Len(@) - 1)]
       /\ UNCHANGED <<chain, state>>
     ELSE IF Top.call.role = "finalizer" THEN
       /\ mode' = Top.call.back /\ told' = "none"
       /\ stack' = [stack EXCEPT ![running] = SubSeq(@, 1, Len(@) - 1)]
       /\ UNCHANGED <<chain, state>>
     ELSE IF Len(frames) = 1 THEN Over("ok")
     ELSE
       LET n == Len(frames) - 1
       IN /\ mode' = Go /\ told' = IF frames[n].guard \in Handlers \cup {None} THEN "ok" ELSE "none"
          /\ stack' = [stack EXCEPT ![running] =
                         [SubSeq(@, 1, n) EXCEPT ![n].guard = Unguarded]]
          /\ UNCHANGED <<chain, state>>

\* An error in the running function, or in the call it is about to make. The
\* handler in force is called first, where the error is; not when memory is
\* short, nor when handling errors has led to errors for too long. A finalizer that
\* cannot begin has failed.
Raise ==
  /\ mode.at \in {"run", "call"} /\ told' = "none"
  /\ \/ mode' = Calling(TRUE, "handler", Go) /\ InForce # None
     \/ mode' = Raising(IF Finalizing THEN HandedOn("run") ELSE "run") /\ InForce = None
     \/ \E e \in {"mem", "err"} : mode' = Raising(e)
  /\ UNCHANGED <<stack, chain, state>>

\* The error gets to the innermost guard. A finalizer hands it on.
Unwind ==
  /\ mode.at = "raise"
  /\ IF Finalizers # {} THEN
       /\ mode' = Raising(HandedOn(mode.code)) /\ told' = "none"
       /\ stack' = [stack EXCEPT ![running] = SubSeq(@, 1, finalizer - 1)]
       /\ UNCHANGED <<chain, state>>
     ELSE IF Guarded = {} THEN Over(mode.code)
     ELSE
       LET i == innermost
       IN /\ mode' = Go /\ told' = mode.code
          /\ stack' = [stack EXCEPT ![running] =
                         [SubSeq(@, 1, i) EXCEPT ![i].guard = Unguarded]]
          /\ UNCHANGED <<chain, state>>

\* A new coroutine, in the place of one that is over.
Create(t) ==
  /\ mode.at = "run" /\ state[t] = "dead" /\ t # Main
  /\ state' = [state EXCEPT ![t] = "new"] /\ told' = "none"
  /\ UNCHANGED <<stack, chain, mode>>

\* The function of a coroutine is called, or goes on where it yielded.
Resume(t) ==
  /\ mode.at = "run" /\ state[t] \in {"new", "suspended"}
  /\ state' = [state EXCEPT ![t] = "active"]
  /\ chain' = Append(chain, t)
  /\ IF state[t] = "new" THEN mode' = Calling(FALSE, "function", Go) ELSE UNCHANGED mode
  /\ told' = "none"
  /\ UNCHANGED stack

\* A resume is refused, and nothing else happens to anybody: the thread is no
\* coroutine that waits, or too many calls are nested.
Refuse ==
  /\ mode.at = "run"
  /\ told' = "run"
  /\ UNCHANGED <<stack, chain, state, mode>>

Yieldable == running # Main /\ \A i \in DOMAIN frames : ~ frames[i].call.wall
Yield ==
  /\ mode.at = "run" /\ Yieldable
  /\ state' = [state EXCEPT ![running] = "suspended"]
  /\ chain' = SubSeq(chain, 1, Len(chain) - 1)
  /\ told' = "ok"
  /\ UNCHANGED <<stack, mode>>

-----------------------------------------------------------------------------

Init ==
  /\ stack = [t \in Threads |-> IF t = Main THEN <<Frame(Calling(TRUE, "function", Go))>> ELSE <<>>]
  /\ chain = <<Main>>
  /\ state = [t \in Threads |-> IF t = Main THEN "active" ELSE "dead"]
  /\ mode = Go /\ told = "none"

Next ==
  \/ \E g \in Guards, wall \in BOOLEAN : Call(g, wall)
  \/ Enter \/ CallIn \/ Finalize \/ Return \/ Raise \/ Unwind \/ Refuse \/ Yield
  \/ \E t \in Threads : Create(t) \/ Resume(t)

Spec == Init /\ [][Next]_vars
=============================================================================
