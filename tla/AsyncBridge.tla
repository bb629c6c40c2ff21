-------------------------- MODULE AsyncBridge --------------------------
(***************************************************************************)
(* A binding that runs on a goroutine and answers through a promise        *)
(* (internal/bridge/async.go): the page's table of promises, the workers,  *)
(* the answers dispatched to the UI thread, and Close.                     *)
(*                                                                         *)
(* The steps here are for a module that says what the worker does and what *)
(* the page makes of the answer; SelfUpdate is one.                        *)
(*                                                                         *)
(* Simplifications:                                                        *)
(*   - one binding: each has a promise table of its own;                   *)
(*   - a deadline of the page may pass at any time;                        *)
(*   - Close follows the end of the UI thread's loop at once, and a        *)
(*     binding runs on that thread, so no start finds the bridge closed.   *)
(***************************************************************************)
EXTENDS Naturals, Sequences, FiniteSets

CONSTANTS
    MaxCalls,  \* bound: calls of one document
    MaxLoads,  \* bound: documents of one process
    MaxBusy    \* bound: calls at a time that have not been answered

ASSUME BridgeAssumption == MaxCalls \in Nat /\ MaxLoads \in Nat \ {0} /\ MaxBusy \in Nat

VARIABLES
    load,      \* which document is loaded
    next,      \* the last id the document has given out
    pending,   \* ids of the promises it waits for
    kicks,     \* calls on their way to Go
    workers,   \* goroutines, each with its call and what it is at
    finishes,  \* answers dispatched to the UI thread
    ui         \* the UI thread: in its loop, in Close, or gone

bridgeVars == <<load, next, pending, kicks, workers, finishes, ui>>

-----------------------------------------------------------------------------
Call(l, id) == [load |-> l, id |-> id]
Calls == [load : 1..MaxLoads, id : 1..MaxCalls]
Answer(call, result) == [call |-> call, result |-> result]

BridgeTypeOK(Jobs, Results) ==
    /\ load \in 1..MaxLoads /\ next \in 0..MaxCalls
    /\ pending \subseteq 1..next
    /\ kicks \in Seq(Calls)
    /\ workers \subseteq [call : Calls, job : Jobs]
    /\ finishes \in Seq([call : Calls, result : Results])
    /\ ui \in {"loop", "closing", "gone"}

\* A process begins with an empty document and no workers.
Fresh ==
    /\ load = 1 /\ next = 0 /\ pending = {}
    /\ kicks = <<>> /\ workers = {} /\ finishes = <<>>
    /\ ui = "loop"

\* Nothing of a process is left.
Emptied ==
    /\ load' = 1 /\ next' = 0 /\ pending' = {}
    /\ kicks' = <<>> /\ workers' = {} /\ finishes' = <<>>

-----------------------------------------------------------------------------
\* The page

\* The context is cancelled.
Closed == ui # "loop"

Calling ==
    /\ ui = "loop" /\ next < MaxCalls
    /\ Len(kicks) + Cardinality(workers) + Len(finishes) < MaxBusy
    /\ next' = next + 1
    /\ pending' = pending \cup {next + 1}
    /\ kicks' = Append(kicks, Call(load, next + 1))
    /\ UNCHANGED <<load, workers, finishes, ui>>

TimingOut(id) ==
    /\ ui = "loop" /\ id \in pending
    /\ pending' = pending \ {id}
    /\ UNCHANGED <<load, next, kicks, workers, finishes, ui>>

\* A new document counts from one again; what is on its way stays there.
Reloading ==
    /\ ui = "loop" /\ load < MaxLoads
    /\ load' = load + 1 /\ next' = 0 /\ pending' = {}
    /\ UNCHANGED <<kicks, workers, finishes, ui>>

-----------------------------------------------------------------------------
\* Go

Starting(job) ==
    /\ ui = "loop" /\ kicks # <<>>
    /\ kicks' = Tail(kicks)
    /\ workers' = workers \cup {[call |-> Head(kicks), job |-> job]}
    /\ UNCHANGED <<load, next, pending, finishes, ui>>

Becomes(w, job) ==
    /\ workers' = (workers \ {w}) \cup {[w EXCEPT !.job = job]}
    /\ UNCHANGED <<load, next, pending, kicks, finishes, ui>>

\* Mutant: the worker waits until the UI thread takes its answer.
SendingWaits(w, result) ==
    /\ ~Closed
    /\ workers' = workers \ {w}
    /\ finishes' = Append(finishes, Answer(w.call, result))
    /\ UNCHANGED <<load, next, pending, kicks, ui>>

\* Once the bridge is closed nobody is told.
Sending(w, result) ==
    /\ workers' = workers \ {w}
    /\ finishes' = IF Closed THEN finishes ELSE Append(finishes, Answer(w.call, result))
    /\ UNCHANGED <<load, next, pending, kicks, ui>>

\* The document, whichever it is, looks the id up in its table.
Awaited(answer) == answer.call.id \in pending

Finishing ==
    /\ ui = "loop" /\ finishes # <<>>
    /\ finishes' = Tail(finishes)
    /\ pending' = pending \ {Head(finishes).call.id}
    /\ UNCHANGED <<load, next, kicks, workers, ui>>

\* The loop ends and Close begins: what is queued on the UI thread is not run,
\* or finds the context cancelled, and the document counts no more.
Stopping ==
    /\ ui = "loop" /\ ui' = "closing"
    /\ load' = 1 /\ next' = 0 /\ pending' = {}
    /\ kicks' = <<>> /\ finishes' = <<>>
    /\ UNCHANGED workers

\* Mutant: Close does not wait.
ClosingAtOnce ==
    /\ ui = "closing" /\ ui' = "gone"
    /\ UNCHANGED <<load, next, pending, kicks, workers, finishes>>

\* Close returns when the last worker has.
Closing ==
    /\ ui = "closing" /\ workers = {}
    /\ ui' = "gone"
    /\ UNCHANGED <<load, next, pending, kicks, workers, finishes>>

=============================================================================
