--------------------------- MODULE PythonExecutor ---------------------------
(***************************************************************************)
(* python_interpreter_executor (src/dynabridge/extensions/flux_foundry/      *)
(* python_interpreter_executor.h): clients dispatch tasks into a queue, a    *)
(* dedicated worker runs each batch under the GIL, shutdown() drains and     *)
(* joins the worker.                                                         *)
(*                                                                          *)
(* A locked block is one step.  The condition variable is modelled with      *)
(* notify_one outside the mutex, as the code calls it, and with spurious     *)
(* wakeups.  CPython is modelled by its GIL: clients may hold it when they    *)
(* call in, and release it between calls.  run() stores worker_id_ before its *)
(* first batch, so "dispatch on the worker" is the Worker's own dispatch.     *)
(*                                                                          *)
(* A definition whose name says what is wrong with it, placed just before    *)
(* the one it varies, is a seeded fault that shows a property can fail; no   *)
(* action uses it.                                                           *)
(***************************************************************************)
EXTENDS Naturals, Sequences, SequencesExt

CONSTANTS
  Clients,       \* threads that dispatch and that may shut down
  Worker,        \* the thread running python_interpreter_executor::run
  None,          \* nobody holds the GIL
  MaxDispatch,   \* bound: tasks dispatched by each client and by tasks
  Misuse         \* TRUE: threads also make the calls the executor terminates on

ASSUME PythonAssumption ==
  /\ Worker \notin Clients /\ None \notin Clients \cup {Worker}
  /\ MaxDispatch \in Nat /\ Misuse \in BOOLEAN

Threads == Clients \cup {Worker}
Task == Threads \X (1..MaxDispatch)

VARIABLES
  queue, stopping,     \* tasks_ and stopping_, under mutex_
  pc,                  \* each thread's place
  batch, next,         \* run()'s locals: the tasks taken, how many were invoked
  gil,                 \* the thread holding the GIL
  released,            \* the client that shut down gave up the GIL (SaveThread)
  dispatched,          \* history: tasks dispatched by each thread
  ran, destroyed,      \* history: tasks invoked, tasks whose captures are gone
  offGil,              \* history: tasks touched without the GIL
  terminated           \* std::terminate() was called

shared == <<queue, stopping>>
gilState == <<gil, released>>
history == <<dispatched, ran, destroyed, offGil>>
local == <<batch, next>>
vars == <<shared, pc, local, gilState, history, terminated>>

Init ==
  /\ queue = <<>> /\ stopping = FALSE
  /\ pc = [t \in Threads |-> IF t = Worker THEN "loop" ELSE "idle"]
  /\ batch = <<>> /\ next = 0 /\ gil = None
  /\ released = [c \in Clients |-> FALSE]
  /\ dispatched = [t \in Threads |-> 0]
  /\ ran = {} /\ destroyed = {} /\ offGil = {} /\ terminated = FALSE

Goto(t, label) == pc' = [pc EXCEPT ![t] = label]
At(t, label) == pc[t] = label /\ ~terminated

\* The worker is inside the task it invoked last.
InTask == At(Worker, "run") /\ next > 0

NotifyLost(t, label) == Goto(t, label)

\* ready_.notify_one(): only the worker ever waits.
Notify(t, label) ==
  pc' = [pc EXCEPT ![t] = label,
                   ![Worker] = IF @ = "wait" THEN "loop" ELSE @]

-----------------------------------------------------------------------------
(* Clients.                                                                *)

\* A Python client takes the GIL to run, and gives it up, outside the executor.
TakeGil(c) ==
  /\ At(c, "idle") /\ gil = None
  /\ gil' = c
  /\ UNCHANGED <<shared, pc, local, released, history, terminated>>

DropGil(c) ==
  /\ At(c, "idle") /\ gil = c
  /\ gil' = None
  /\ UNCHANGED <<shared, pc, local, released, history, terminated>>

\* tasks_.emplace_back().
Queued(task) == Append(queue, task)

\* dispatch() on another thread than the worker: the locked block, then notify.
Dispatch(c) ==
  /\ At(c, "idle")
  /\ ~stopping /\ dispatched[c] < MaxDispatch
  /\ dispatched' = [dispatched EXCEPT ![c] = @ + 1]
  /\ queue' = Queued(<<c, dispatched[c] + 1>>)
  /\ Goto(c, "notify")
  /\ UNCHANGED <<stopping, local, gilState, ran, destroyed, offGil, terminated>>

DispatchNotify(c) ==
  /\ At(c, "notify")
  /\ Notify(c, "idle")
  /\ UNCHANGED <<shared, local, gilState, history, terminated>>

\* dispatch() on a stopped executor, by a client or by a task of the last batch.
DispatchStopped(t) ==
  /\ IF t = Worker THEN InTask ELSE At(t, "idle")
  /\ stopping /\ Misuse
  /\ terminated' = TRUE
  /\ UNCHANGED <<shared, pc, local, gilState, history>>

\* shutdown() inside a task: the worker cannot join itself, join() throws out of
\* a noexcept function.
ShutdownOnWorker ==
  /\ InTask /\ ~stopping /\ Misuse
  /\ stopping' = TRUE
  /\ terminated' = TRUE
  /\ UNCHANGED <<queue, pc, local, gilState, history>>

\* shutdown(): a second call returns at once, without waiting for the first.
ShutdownAgain(c) ==
  /\ At(c, "idle") /\ stopping
  /\ Goto(c, "left")
  /\ UNCHANGED <<shared, local, gilState, history, terminated>>

ShutdownBegin(c) ==
  /\ At(c, "idle") /\ ~stopping
  /\ stopping' = TRUE
  /\ Goto(c, "stopNotify")
  /\ UNCHANGED <<queue, local, gilState, history, terminated>>

ShutdownNotify(c) ==
  /\ At(c, "stopNotify")
  /\ Notify(c, "save")
  /\ UNCHANGED <<shared, local, gilState, history, terminated>>

\* PyGILState_Check(): this thread holds the GIL and must not keep it.
NeverHoldsGil(c) == FALSE
HoldsGil(c) == gil = c

\* PyEval_SaveThread() if this thread holds the GIL.
ShutdownSave(c) ==
  /\ At(c, "save")
  /\ released' = [released EXCEPT ![c] = HoldsGil(c)]
  /\ gil' = IF HoldsGil(c) THEN None ELSE gil
  /\ Goto(c, "join")
  /\ UNCHANGED <<shared, local, history, terminated>>

\* worker_.join().
ShutdownJoin(c) ==
  /\ At(c, "join") /\ pc[Worker] = "exited"
  /\ Goto(c, "restore")
  /\ UNCHANGED <<shared, local, gilState, history, terminated>>

\* PyEval_RestoreThread() blocks for the GIL if it was released.
ShutdownRestore(c) ==
  /\ At(c, "restore")
  /\ released[c] => gil = None
  /\ gil' = IF released[c] THEN c ELSE gil
  /\ Goto(c, "joined")
  /\ UNCHANGED <<shared, local, released, history, terminated>>

\* The caller of shutdown() goes on and, if it holds the GIL, lets go of it.
ClientLeaves(c) ==
  /\ pc[c] \in {"joined", "left"} /\ gil = c /\ ~terminated
  /\ gil' = None
  /\ UNCHANGED <<shared, pc, local, released, history, terminated>>

-----------------------------------------------------------------------------
(* The worker: run().                                                      *)

\* run() leaves its loop only when it is stopped and the queue is drained.
LeavesUndrained == stopping
Leaves == stopping /\ queue = <<>>

\* batch.swap(tasks_) leaves the queue empty.
QueueTaken == <<>>

\* The locked block: wait, or leave the loop, or take the whole queue.
WorkerLock ==
  /\ At(Worker, "loop")
  /\ \/ ~stopping /\ queue = <<>> /\ Goto(Worker, "wait") /\ UNCHANGED <<batch, queue>>
     \/ Leaves /\ Goto(Worker, "exited") /\ UNCHANGED <<batch, queue>>
     \/ /\ ~Leaves /\ queue # <<>>
        /\ batch' = queue
        /\ queue' = QueueTaken
        /\ Goto(Worker, "ensure")
  /\ UNCHANGED <<stopping, next, gilState, history, terminated>>

SpuriousWakeup ==
  /\ At(Worker, "wait")
  /\ Goto(Worker, "loop")
  /\ UNCHANGED <<shared, local, gilState, history, terminated>>

EnsureWithoutGil ==
  /\ At(Worker, "ensure")
  /\ Goto(Worker, "run")
  /\ UNCHANGED <<shared, local, gilState, history, terminated>>

\* PyGILState_Ensure().
WorkerEnsure ==
  /\ At(Worker, "ensure") /\ gil = None
  /\ gil' = Worker
  /\ Goto(Worker, "run")
  /\ UNCHANGED <<shared, local, released, history, terminated>>

\* A task is touched: invoked or destroyed.
Touch(S) == offGil' = IF gil = Worker THEN offGil ELSE offGil \cup S

\* task() for the next task of the batch.
WorkerRun ==
  /\ At(Worker, "run") /\ next < Len(batch)
  /\ next' = next + 1
  /\ ran' = ran \cup {batch[next + 1]}
  /\ Touch({batch[next + 1]})
  /\ UNCHANGED <<shared, pc, batch, gilState, dispatched, destroyed, terminated>>

\* A task that dispatches on the worker runs the new task inline, where it is
\* also destroyed.
DispatchInline ==
  LET task == <<Worker, dispatched[Worker] + 1>> IN
  /\ InTask
  /\ ~stopping /\ dispatched[Worker] < MaxDispatch
  /\ dispatched' = [dispatched EXCEPT ![Worker] = @ + 1]
  /\ ran' = ran \cup {task}
  /\ destroyed' = destroyed \cup {task}
  /\ Touch({task})
  /\ UNCHANGED <<shared, pc, local, gilState, terminated>>

\* batch.clear(): the captures are destroyed.
WorkerClear ==
  /\ At(Worker, "run") /\ next = Len(batch)
  /\ destroyed' = destroyed \cup Range(batch)
  /\ batch' = <<>> /\ next' = 0
  /\ Touch(Range(batch))
  /\ Goto(Worker, "release")
  /\ UNCHANGED <<shared, gilState, dispatched, ran, terminated>>

\* PyGILState_Release().
WorkerRelease ==
  /\ At(Worker, "release")
  /\ gil' = None
  /\ Goto(Worker, "loop")
  /\ UNCHANGED <<shared, local, released, history, terminated>>

-----------------------------------------------------------------------------
\* The process ended, or the worker was joined and every client left.
Finished ==
  /\ terminated \/ \A c \in Clients : pc[c] \in {"joined", "left"} /\ gil # c
  /\ UNCHANGED vars

ShutdownStep(c) == \/ ShutdownNotify(c) \/ ShutdownSave(c) \/ ShutdownJoin(c)
                   \/ ShutdownRestore(c)
WorkerStep == \/ WorkerLock \/ WorkerEnsure \/ WorkerClear \/ WorkerRelease
              \/ WorkerRun

Next ==
  \/ \E c \in Clients :
       \/ TakeGil(c) \/ DropGil(c) \/ Dispatch(c) \/ DispatchNotify(c)
       \/ ShutdownAgain(c) \/ ShutdownBegin(c) \/ ShutdownStep(c) \/ ClientLeaves(c)
  \/ \E t \in Threads : DispatchStopped(t)
  \/ ShutdownOnWorker
  \/ WorkerStep \/ DispatchInline \/ SpuriousWakeup
  \/ Finished

Spec == Init /\ [][Next]_vars

\* Threads inside the executor run on, and the GIL is handed over fairly: its
\* holders let go of it and a waiting PyGILState_Ensure is served in the end.
FairSpec ==
  /\ Spec
  /\ SF_vars(WorkerEnsure)
  /\ WF_vars(WorkerStep)
  /\ \A c \in Clients :
       /\ WF_vars(DispatchNotify(c))
       /\ WF_vars(DropGil(c) \/ ClientLeaves(c))
       /\ SF_vars(ShutdownRestore(c))
       /\ WF_vars(ShutdownStep(c))

-----------------------------------------------------------------------------
\* A task is invoked and its captures are destroyed under the GIL only ("destroy
\* the captures under GIL too").
TasksTouchedUnderGil == offGil = {}

\* When the shutdown() that stopped the executor returns, every dispatched task
\* has run and is destroyed (only a second, overlapping shutdown() may be early); and
\* until then each thread's tasks run in the order it dispatched them, over any split
\* into batches.
ShutdownDrains ==
  /\ (\E c \in Clients : pc[c] = "joined") =>
       \A t \in Threads, i \in 1..MaxDispatch :
         i <= dispatched[t] => <<t, i>> \in ran \cap destroyed
  /\ \A t \in Threads, i, j \in 1..MaxDispatch :
       i < j /\ <<t, j>> \in ran => <<t, i>> \in ran

\* Every dispatched task runs, although other threads compete for the GIL.
TasksRun ==
  \A t \in Threads, i \in 1..MaxDispatch :
    (dispatched[t] >= i) ~> (terminated \/ <<t, i>> \in ran)

\* shutdown() returns even when its caller holds the GIL the worker needs.
ShutdownReturns ==
  \A c \in Clients : (pc[c] = "stopNotify") ~> (terminated \/ pc[c] = "joined")

-----------------------------------------------------------------------------
(* The inductive invariant behind the safety properties.                   *)

TypeOK ==
  /\ queue \in Seq(Task) /\ batch \in Seq(Task)
  /\ stopping \in BOOLEAN /\ terminated \in BOOLEAN
  /\ pc \in [Threads -> {"idle", "notify", "stopNotify", "save", "join", "restore",
                         "joined", "left", "loop", "wait", "ensure", "run", "release",
                         "exited"}]
  /\ next \in Nat /\ gil \in Threads \cup {None}
  /\ released \in [Clients -> BOOLEAN]
  /\ dispatched \in [Threads -> 0..MaxDispatch]
  /\ ran \in SUBSET Task /\ destroyed \in SUBSET Task /\ offGil \in SUBSET Task

\* The worker holds the GIL from PyGILState_Ensure() to PyGILState_Release().
GilInv ==
  /\ (pc[Worker] \in {"run", "release"}) <=> (gil = Worker)
  /\ offGil = {}

\* Outside a batch nothing is taken; the worker ends stopped and drained, and a
\* joiner passes join() only then.
PlaceInv ==
  /\ next <= Len(batch)
  /\ pc[Worker] \notin {"ensure", "run"} => batch = <<>>
  /\ pc[Worker] # "run" => next = 0
  /\ pc[Worker] = "exited" => stopping /\ queue = <<>>
  /\ \A c \in Clients : pc[c] \in {"restore", "joined"} => pc[Worker] = "exited"

\* A dispatched task is queued, or in the batch, or has run and is gone; those of the
\* batch that were invoked have run.
Present(task) == task \in (ran \cap destroyed) \cup Range(batch) \cup Range(queue)

TaskInv ==
  /\ \A t \in Threads, i \in 1..MaxDispatch :
       i <= dispatched[t] => Present(<<t, i>>)
  /\ \A task \in ran \cup Range(batch) \cup Range(queue) :
       task[2] <= dispatched[task[1]]
  /\ \A k \in 1..next : batch[k] \in ran
  /\ \A i \in 1..dispatched[Worker] : <<Worker, i>> \in ran

\* A task that ran, was taken or is queued has those its thread dispatched before it
\* ahead of itself.
OrderInv ==
  \A t \in Threads, i, j \in 1..MaxDispatch : i < j =>
    /\ <<t, j>> \in ran => <<t, i>> \in ran
    /\ \A k \in 1..Len(batch) : batch[k] = <<t, j>> =>
         <<t, i>> \in ran \/ \E h \in 1..k - 1 : batch[h] = <<t, i>>
    /\ \A k \in 1..Len(queue) : queue[k] = <<t, j>> =>
         <<t, i>> \in ran \cup Range(batch) \/ \E h \in 1..k - 1 : queue[h] = <<t, i>>

IInv == TypeOK /\ GilInv /\ PlaceInv /\ TaskInv /\ OrderInv
=============================================================================
