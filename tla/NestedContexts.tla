---------------------------- MODULE NestedContexts ----------------------------
(***************************************************************************)
(* Several execution contexts whose tasks submit to other contexts.  Each   *)
(* context serialises its submissions with a mutex that the submitter holds *)
(* until its tasks have ended; a task knows, by a thread-local pointer, only *)
(* the context its own thread works for.  What happens inside one context   *)
(* is CpuExecutionContext; here a submission gives each worker one task.    *)
(***************************************************************************)
EXTENDS Integers, FiniteSets

CONSTANTS
  Contexts, Callers,
  WorkerCount,    \* workers of each context
  MaySubmit,      \* contexts a task may submit to, by context
  None            \* no thread, no context

Workers == UNION {{c} \X (1..WorkerCount[c]) : c \in Contexts}
Threads == Callers \cup Workers
Home(w) == w[1]

\* Contexts create their own threads; None is neither a thread nor a context.
ConstantsAssumption ==
  /\ WorkerCount \in [Contexts -> Nat] /\ MaySubmit \in [Contexts -> SUBSET Contexts]
  /\ Callers \cap Workers = {} /\ None \notin Threads /\ None \notin Contexts

VARIABLES
  pc,          \* idle, parked, task, lock, wait, done
  target,      \* the context a thread submits to
  asked,       \* contexts a task has already submitted to
  holder,      \* who holds a context's submission mutex
  remaining    \* workers of a context that have yet to finish their task

vars == <<pc, target, asked, holder, remaining>>

------------------------------------------------------------------------------
Submit(k, c) ==
  /\ pc[k] = "idle"
  /\ pc' = [pc EXCEPT ![k] = "lock"] /\ target' = [target EXCEPT ![k] = c]
  /\ UNCHANGED <<asked, holder, remaining>>

\* Fault: the thread's own context is not recognised.
Refused_Never(w, c) == c \notin Contexts

\* active_execution_context
Refused(w, c) == c = Home(w)

\* A task submits, each context at most once; it goes on after a refusal.
Nest(w, c) ==
  /\ pc[w] = "task" /\ c \in MaySubmit[Home(w)] \ asked[w]
  /\ asked' = [asked EXCEPT ![w] = @ \cup {c}]
  /\ IF Refused(w, c) THEN UNCHANGED <<pc, target>>
     ELSE pc' = [pc EXCEPT ![w] = "lock"] /\ target' = [target EXCEPT ![w] = c]
  /\ UNCHANGED <<holder, remaining>>

\* The submission mutex, then the new epoch under the state mutex.
Lock(t) ==
  /\ pc[t] = "lock" /\ holder[target[t]] = None
  /\ holder' = [holder EXCEPT ![target[t]] = t]
  /\ remaining' = [remaining EXCEPT ![target[t]] = {w \in Workers : Home(w) = target[t]}]
  /\ pc' = [pc EXCEPT ![t] = "wait"] /\ UNCHANGED <<target, asked>>

Wake(w) ==
  /\ pc[w] = "parked" /\ w \in remaining[Home(w)]
  /\ pc' = [pc EXCEPT ![w] = "task"] /\ asked' = [asked EXCEPT ![w] = {}]
  /\ UNCHANGED <<target, holder, remaining>>

EndTask(w) ==
  /\ pc[w] = "task"
  /\ pc' = [pc EXCEPT ![w] = "parked"]
  /\ remaining' = [remaining EXCEPT ![Home(w)] = @ \ {w}]
  /\ UNCHANGED <<target, asked, holder>>

\* Fault: the submitter goes on when the first worker is done.
Return_Early(t) ==
  /\ pc[t] = "wait" /\ Cardinality(remaining[target[t]]) < WorkerCount[target[t]]
  /\ holder' = [holder EXCEPT ![target[t]] = None]
  /\ pc' = [pc EXCEPT ![t] = IF t \in Callers THEN "done" ELSE "task"]
  /\ UNCHANGED <<target, asked, remaining>>

\* submission_complete, then the mutex is given back.
Return(t) ==
  /\ pc[t] = "wait" /\ remaining[target[t]] = {}
  /\ holder' = [holder EXCEPT ![target[t]] = None]
  /\ pc' = [pc EXCEPT ![t] = IF t \in Callers THEN "done" ELSE "task"]
  /\ UNCHANGED <<target, asked, remaining>>

Init ==
  /\ pc = [t \in Threads |-> IF t \in Callers THEN "idle" ELSE "parked"]
  /\ target = [t \in Threads |-> None] /\ asked = [w \in Workers |-> {}]
  /\ holder = [c \in Contexts |-> None] /\ remaining = [c \in Contexts |-> {}]

Proceed(t) == Lock(t) \/ Return(t)
Work(w) == Wake(w) \/ EndTask(w)

Next ==
  \/ \E k \in Callers, c \in Contexts : Submit(k, c)
  \/ \E w \in Workers : Work(w) \/ \E c \in Contexts : Nest(w, c)
  \/ \E t \in Threads : Proceed(t)

\* Every thread that can go on does; a mutex wanted again and again is got,
\* since each caller and each task submits only so often.
Spec ==
  /\ Init /\ [][Next]_vars
  /\ \A w \in Workers : WF_vars(Work(w))
  /\ \A t \in Threads : WF_vars(Proceed(t))

------------------------------------------------------------------------------
\* While a submission waits for its tasks it holds the context, so no other
\* has it, and only the workers it waits for are at work (run_tasks keeps
\* submission_mutex until submission_complete).
WorkBelongsToHolder ==
  /\ \A t \in Threads : pc[t] = "wait" => holder[target[t]] = t
  /\ \A w \in Workers : pc[w] # "parked" => holder[Home(w)] # None /\ w \in remaining[Home(w)]
==============================================================================
