--------------------------- MODULE SerialSubmissions ---------------------------
(***************************************************************************)
(* What CpuExecutionContextV1 promises its callers                         *)
(* (compiler/lib/runtime/cpu_execution_context.h), without workers, epochs *)
(* or condition variables: submissions are serialized, one that was        *)
(* accepted is served even if a stop is requested meanwhile, none is       *)
(* accepted after the stop, and the status returned is a function of the   *)
(* job.                                                                    *)
(***************************************************************************)
CONSTANTS
  Callers, NoOne, Jobs,
  ExpectedStatus(_),   \* the status a job must report
  Rejection(_)         \* the early return for a malformed job, or "none"

VARIABLES
  accepting,   \* no stop was requested
  running,     \* the caller whose submission the workers hold, or NoOne
  call,        \* where each caller is in its call
  asked,       \* the job of each caller's last well-formed call
  ret          \* what each caller's last call returned

vars == <<accepting, running, call, asked, ret>>

Init ==
  /\ accepting = TRUE /\ running = NoOne
  /\ call = [c \in Callers |-> "idle"]
  /\ ret = [c \in Callers |-> "none"]

Ask(c, j) ==
  /\ call[c] = "idle"
  /\ ret' = [ret EXCEPT ![c] = Rejection(j)]
  /\ IF Rejection(j) = "none"
     THEN /\ call' = [call EXCEPT ![c] = "asked"]
          /\ asked' = [asked EXCEPT ![c] = j]
     ELSE UNCHANGED <<call, asked>>
  /\ UNCHANGED <<accepting, running>>

\* Nobody else is being served and nobody has been told to stop.
Accept(c) ==
  /\ call[c] = "asked" /\ accepting /\ running = NoOne
  /\ \A d \in Callers : call[d] # "served"
  /\ running' = c
  /\ call' = [call EXCEPT ![c] = "running"]
  /\ UNCHANGED <<accepting, asked, ret>>

Refuse(c) ==
  /\ call[c] = "asked" /\ ~accepting
  /\ ret' = [ret EXCEPT ![c] = "context_stopping"]
  /\ call' = [call EXCEPT ![c] = "idle"]
  /\ UNCHANGED <<accepting, running, asked>>

Serve(c) ==
  /\ call[c] = "running" /\ running = c
  /\ running' = NoOne
  /\ call' = [call EXCEPT ![c] = "served"]
  /\ UNCHANGED <<accepting, asked, ret>>

Answer(c) ==
  /\ call[c] = "served"
  /\ ret' = [ret EXCEPT ![c] = ExpectedStatus(asked[c])]
  /\ call' = [call EXCEPT ![c] = "idle"]
  /\ UNCHANGED <<accepting, running, asked>>

\* A stop comes from a closing caller, from a task that is being run, or from
\* a create() that gives up before there are any calls.
RequestStop ==
  /\ \/ running # NoOne
     \/ \E c \in Callers : call[c] = "closing"
     \/ \A c \in Callers : call[c] = "idle"
  /\ accepting' = FALSE
  /\ UNCHANGED <<running, call, asked, ret>>

Close(c) ==
  /\ call[c] = "idle"
  /\ ret' = [ret EXCEPT ![c] = "none"]
  /\ call' = [call EXCEPT ![c] = "closing"]
  /\ UNCHANGED <<accepting, running, asked>>

\* shutdown() returns only after a stop and when nobody is being served.
Closed(c) ==
  /\ call[c] = "closing" /\ ~accepting /\ running = NoOne
  /\ ret' = [ret EXCEPT ![c] = "shut_down"]
  /\ call' = [call EXCEPT ![c] = "idle"]
  /\ UNCHANGED <<accepting, running, asked>>

Next ==
  \/ \E c \in Callers :
       \/ \E j \in Jobs : Ask(c, j)
       \/ Accept(c) \/ Refuse(c) \/ Serve(c) \/ Answer(c) \/ Close(c) \/ Closed(c)
  \/ RequestStop

Spec == Init /\ [][Next]_vars
=============================================================================
