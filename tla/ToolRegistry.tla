----------------------------- MODULE ToolRegistry ------------------------------
(***************************************************************************)
(* ToolRegistry.execute_tool of app/core/tool_registry.py: every check and *)
(* every fix is a function submitted to one pool of threads, while the     *)
(* caller waits for its result with a timeout.  A function that has begun  *)
(* cannot be stopped: it goes on after its caller was told it failed.      *)
(*                                                                         *)
(* The pool is concurrent.futures.ThreadPoolExecutor, external to the      *)
(* repository: a queue in order of submission, and futures that can be     *)
(* cancelled only while they are pending.                                  *)
(***************************************************************************)
EXTENDS Naturals, Sequences, FiniteSets

CONSTANTS
    Calls,         \* the calls made to execute_tool, by any thread
    MaxWorkers,    \* max_workers of the pool
    MayHang        \* the calls whose function may never return

ASSUME RegistryAssumption ==
    /\ IsFiniteSet(Calls)
    /\ MaxWorkers \in Nat \ {0}
    /\ MayHang \subseteq Calls

VARIABLES
    caller,   \* where the thread of each call is
    answer,   \* what execute_tool returned
    future,   \* the state of each call's future
    outcome,  \* what the function returned
    queue,    \* the pool's work queue
    done      \* external: the calls whose function has done its work

vars == <<caller, answer, future, outcome, queue, done>>

Answers == {"none", "success", "failure", "timeout"}

-----------------------------------------------------------------------------

Running == {c \in Calls : future[c] = "running"}

(* submit: the function is queued, with the caller waiting for it. *)
Submit(c) ==
    /\ caller[c] = "ready"
    /\ caller' = [caller EXCEPT ![c] = "waiting"]
    /\ future' = [future EXCEPT ![c] = "pending"]
    /\ queue' = Append(queue, c)
    /\ UNCHANGED <<answer, outcome, done>>

(* Faulty variant: a thread runs what it takes, cancelled or not. *)
BeginsCancelled(c) ==
    future' = [future EXCEPT ![c] = "running"]

(* A thread that takes a cancelled call from the queue drops it. *)
Begins(c) ==
    future' = IF future[c] = "pending" THEN [future EXCEPT ![c] = "running"] ELSE future

(* A free thread takes the call that was submitted first. *)
Start ==
    /\ queue # <<>>
    /\ Cardinality(Running) < MaxWorkers
    /\ queue' = Tail(queue)
    /\ Begins(Head(queue))
    /\ UNCHANGED <<caller, answer, outcome, done>>

(* Faulty variant: an exception of a tool is left to the caller. *)
ReportedRaised(success) == IF success THEN "success" ELSE "raised"

(* run_tool and execute_tool turn an exception into an error result. *)
Reported(success) == IF success THEN "success" ELSE "failure"

(* The function returns its result; a successful one has done its work, and *)
(* a failed one may have.                                                   *)
FunctionEnds(c, success, worked) ==
    /\ future[c] = "running"
    /\ success => worked
    /\ future' = [future EXCEPT ![c] = "finished"]
    /\ outcome' = [outcome EXCEPT ![c] = Reported(success)]
    /\ done' = IF worked THEN done \cup {c} ELSE done
    /\ UNCHANGED <<caller, answer, queue>>

(* future.result returns: the result of the call's own function. *)
GetResult(c) ==
    /\ caller[c] = "waiting"
    /\ future[c] = "finished"
    /\ answer' = [answer EXCEPT ![c] = outcome[c]]
    /\ caller' = [caller EXCEPT ![c] = "answered"]
    /\ UNCHANGED <<future, outcome, queue, done>>

(* Faulty variant: the clock starts with the function. *)
ExpiresRunning(c) == future[c] = "running"

(* The timeout counts from the submission, for a call in the queue as well. *)
Expires(c) == future[c] # "finished"

TimesOut(c) ==
    /\ caller[c] = "waiting"
    /\ Expires(c)
    /\ caller' = [caller EXCEPT ![c] = "timed_out"]
    /\ UNCHANGED <<answer, future, outcome, queue, done>>

(* Faulty variant: the future is left as it is. *)
WithdrawnNot(c) == UNCHANGED future

(* future.cancel() has no effect on a function that has begun. *)
Withdrawn(c) ==
    future' = IF future[c] = "pending" THEN [future EXCEPT ![c] = "cancelled"] ELSE future

(* The caller is told of the timeout; by now the function may have begun, or *)
(* even ended.                                                               *)
GiveUp(c) ==
    /\ caller[c] = "timed_out"
    /\ Withdrawn(c)
    /\ answer' = [answer EXCEPT ![c] = "timeout"]
    /\ caller' = [caller EXCEPT ![c] = "answered"]
    /\ UNCHANGED <<outcome, queue, done>>

Init ==
    /\ caller = [c \in Calls |-> "ready"]
    /\ answer = [c \in Calls |-> "none"]
    /\ future = [c \in Calls |-> "none"]
    /\ outcome = [c \in Calls |-> "none"]
    /\ queue = <<>>
    /\ done = {}

Next ==
    \/ \E c \in Calls : Submit(c)
    \/ Start
    \/ \E c \in Calls, success, worked \in BOOLEAN : FunctionEnds(c, success, worked)
    \/ \E c \in Calls : GetResult(c)
    \/ \E c \in Calls : TimesOut(c)
    \/ \E c \in Calls : GiveUp(c)

Spec == Init /\ [][Next]_vars

(* Timers expire, threads that are woken or free go on, and a function that *)
(* is not one of those that hang comes to an end.                           *)
Fairness ==
    /\ WF_vars(Start)
    /\ \A c \in Calls : WF_vars(TimesOut(c)) /\ WF_vars(GiveUp(c)) /\ WF_vars(GetResult(c))
    /\ \A c \in Calls \ MayHang :
          WF_vars(\E success, worked \in BOOLEAN : FunctionEnds(c, success, worked))

FairSpec == Spec /\ Fairness

-----------------------------------------------------------------------------
(* Properties                                                              *)

(* Every variable has its type. *)
TypeOK ==
    /\ caller \in [Calls -> {"ready", "waiting", "timed_out", "answered"}]
    /\ answer \in [Calls -> Answers]
    /\ future \in [Calls -> {"none", "pending", "running", "finished", "cancelled"}]
    /\ outcome \in [Calls -> {"none", "success", "failure"}]
    /\ queue \in Seq(Calls)
    /\ done \in SUBSET Calls

(* A caller waits no longer than its timeout, even when every thread of the *)
(* pool is taken by a function that never returns.                          *)
CallersAnswered == \A c \in Calls : caller[c] = "waiting" ~> caller[c] = "answered"

(* Once a caller was told of a timeout, its function does nothing more to   *)
(* the PC unless it was running at that moment: what was still queued never *)
(* runs.                                                                    *)
NoLateStart ==
    [][\A c \in Calls : caller[c] = "answered" /\ future'[c] = "running" =>
          future[c] = "running"]_vars

(* Why NoLateStart holds: a call has a future from its submission on, and   *)
(* one that was answered has none that is still pending.                    *)
FuturesSettled ==
    \A c \in Calls :
        /\ caller[c] \in {"waiting", "timed_out"} => future[c] # "none"
        /\ caller[c] = "answered" => future[c] \in {"running", "finished", "cancelled"}

(* What the page says of a fix that timed out: it couldn't be applied.      *)
TimedOutIsNotApplied ==
    \A c \in Calls : answer[c] = "timeout" => c \notin done
=============================================================================
