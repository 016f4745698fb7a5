----------------------------- MODULE UvExecutor -----------------------------
(***************************************************************************)
(* uv_executor (src/dynabridge/extensions/flux_foundry/uv_executor.h): any   *)
(* thread dispatches tasks, the libuv loop thread runs them in rounds of at  *)
(* most max_tasks_per_round, and close() ends with the state_t that holds    *)
(* the queue and the uv_async_t being deleted by the loop.                   *)
(*                                                                          *)
(* libuv is modelled by what the executor relies on: uv_async_send() sets a  *)
(* flag (sends coalesce), an iteration of the loop clears it and calls       *)
(* on_async, and after uv_close() only on_closed is still called.            *)
(*                                                                          *)
(* A definition whose name says what is wrong with it, placed just before    *)
(* the one it varies, is a seeded fault that shows a property can fail; no   *)
(* action uses it.                                                           *)
(***************************************************************************)
EXTENDS Naturals, Sequences, SequencesExt

CONSTANTS
  Producers,          \* threads other than the loop thread
  Loop,               \* the loop thread the executor was constructed on
  MaxDispatch,        \* bound: tasks each thread dispatches
  RoundSize,          \* max_tasks_per_round
  CloseOnLoop,        \* close() is called on the loop thread
  LateDispatch        \* TRUE: a caller may dispatch after close()

ASSUME UvAssumption ==
  /\ Loop \notin Producers
  /\ MaxDispatch \in Nat /\ RoundSize \in Nat \ {0}
  /\ CloseOnLoop \in BOOLEAN /\ LateDispatch \in BOOLEAN

Threads == Producers \cup {Loop}
Task == Threads \X (1..MaxDispatch)   \* the i-th task a thread dispatched

VARIABLES
  tasks, closing,        \* state_t, under its mutex
  stateNull,             \* uv_executor::state_ is nullptr
  sent,                  \* the uv_async_t's pending flag
  handle,                \* open, closing (uv_close called), freed (deleted)
  loopPc,                \* the loop thread: poll, round
  round, rearm, close,   \* on_async's locals
  closer,                \* the thread in close(): idle, lock, send, done
  dispatched,            \* history: how many tasks each thread dispatched
  ran,                   \* history: the tasks that ran, in order
  usedAfterFree,         \* state_t was touched after on_closed deleted it
  terminated             \* std::terminate() was called

state == <<tasks, closing, stateNull>>
onAsync == <<loopPc, round, rearm, close>>
history == <<dispatched, ran, usedAfterFree, terminated>>
vars == <<state, sent, handle, onAsync, closer, history>>

Init ==
  /\ tasks = <<>> /\ closing = FALSE /\ stateNull = FALSE
  /\ sent = FALSE /\ handle = "open"
  /\ loopPc = "poll" /\ round = <<>> /\ rearm = FALSE /\ close = FALSE
  /\ closer = "idle"
  /\ dispatched = [t \in Threads |-> 0]
  /\ ran = <<>> /\ usedAfterFree = FALSE /\ terminated = FALSE

\* The loop thread cannot do anything else while it is inside close().
LoopFree == CloseOnLoop => closer \in {"idle", "done"}

-----------------------------------------------------------------------------
\* The loop thread runs its task inline when nothing is queued, even in the
\* middle of a round.
RunsInline(t) == t = Loop /\ tasks = <<>>

\* tasks.emplace_back().
Queued(task) == Append(tasks, task)

\* dispatch(): run inline, or queue the task and wake the loop under the mutex.
Dispatch(t) ==
  LET task == <<t, dispatched[t] + 1>> IN
  /\ ~terminated /\ ~stateNull /\ ~closing
  /\ t = Loop => LoopFree
  /\ dispatched[t] < MaxDispatch
  /\ dispatched' = [dispatched EXCEPT ![t] = @ + 1]
  /\ \/ RunsInline(t) /\ ran' = Append(ran, task) /\ UNCHANGED <<tasks, sent>>
     \/ ~RunsInline(t) /\ tasks' = Queued(task) /\ sent' = TRUE /\ UNCHANGED ran
  /\ UNCHANGED <<closing, stateNull, handle, onAsync, closer, usedAfterFree, terminated>>

\* dispatch() through a closed executor terminates the process; it reads
\* "closing" only after it found state_ non-null.
DispatchAfterClose ==
  /\ ~terminated /\ LateDispatch
  /\ stateNull \/ closing
  /\ usedAfterFree' = (usedAfterFree \/ (~stateNull /\ handle = "freed"))
  /\ terminated' = TRUE
  /\ UNCHANGED <<state, sent, handle, onAsync, closer, dispatched, ran>>

CloseKeepsState ==
  /\ ~terminated /\ closer = "idle"
  /\ closer' = "lock"
  /\ UNCHANGED <<state, sent, handle, onAsync, history>>

\* close() or the destructor: the executor forgets the state, then "closing" is
\* set under the mutex, then - outside it - the loop is woken.
CloseBegin ==
  /\ ~terminated /\ closer = "idle"
  /\ stateNull' = TRUE
  /\ closer' = "lock"
  /\ UNCHANGED <<tasks, closing, sent, handle, onAsync, history>>

CloseLock ==
  /\ ~terminated /\ closer = "lock"
  /\ closing' = TRUE
  /\ closer' = "send"
  /\ UNCHANGED <<tasks, stateNull, sent, handle, onAsync, history>>

CloseSend ==
  /\ ~terminated /\ closer = "send"
  /\ usedAfterFree' = (usedAfterFree \/ handle = "freed")
  /\ sent' = (sent \/ handle # "freed")
  /\ closer' = "done"
  /\ UNCHANGED <<state, handle, onAsync, dispatched, ran, terminated>>

\* A close() after the first returns at once: state_ is already nullptr.
CloseAgain ==
  /\ ~terminated /\ closer = "done"
  /\ UNCHANGED vars

-----------------------------------------------------------------------------
\* How many tasks the loop in on_async moves into the round.
RoundLength == IF Len(tasks) < RoundSize THEN Len(tasks) ELSE RoundSize

\* on_async, up to the end of its locked block.
OnAsync ==
  LET n == RoundLength IN
  /\ ~terminated /\ LoopFree
  /\ loopPc = "poll" /\ handle = "open" /\ sent
  /\ sent' = FALSE
  /\ round' = SubSeq(tasks, 1, n)
  /\ tasks' = SubSeq(tasks, n + 1, Len(tasks))
  /\ rearm' = (n < Len(tasks))
  /\ close' = (closing /\ n = Len(tasks))
  /\ loopPc' = "round"
  /\ UNCHANGED <<closing, stateNull, handle, closer, history>>

RunTask ==
  /\ ~terminated /\ LoopFree
  /\ loopPc = "round" /\ round # <<>>
  /\ ran' = Append(ran, Head(round))
  /\ round' = Tail(round)
  /\ UNCHANGED <<state, sent, handle, loopPc, rearm, close, closer,
                 dispatched, usedAfterFree, terminated>>

\* The handle is closed if, under the mutex, the queue was empty and closing.
ClosesWhenClosing == closing
ClosesHandle == ~rearm /\ close

\* Tasks left behind by a full round get a wakeup of their own.
NeverRearms == FALSE
Rearms == rearm

\* The end of on_async: wake the loop again, or close the handle.
OnAsyncEnd ==
  /\ ~terminated /\ LoopFree
  /\ loopPc = "round" /\ round = <<>>
  /\ loopPc' = "poll"
  /\ sent' = (sent \/ Rearms)
  /\ handle' = IF ClosesHandle THEN "closing" ELSE handle
  /\ UNCHANGED <<state, round, rearm, close, closer, history>>

\* on_closed deletes the state.
OnClosed ==
  /\ ~terminated /\ LoopFree
  /\ loopPc = "poll" /\ handle = "closing"
  /\ handle' = "freed"
  /\ UNCHANGED <<state, sent, onAsync, closer, history>>

\* Nothing is left to do: the process ended or the loop has nothing to wait for.
Finished ==
  /\ terminated \/ (handle = "freed" /\ closer = "done")
  /\ UNCHANGED vars

LoopStep == OnAsync \/ RunTask \/ OnAsyncEnd \/ OnClosed
CloseStep == CloseLock \/ CloseSend

Next ==
  \/ \E t \in Threads : Dispatch(t)
  \/ DispatchAfterClose
  \/ CloseBegin \/ CloseStep \/ CloseAgain
  \/ LoopStep
  \/ Finished

Spec == Init /\ [][Next]_vars

\* The loop keeps running ("the loop must run after close()") and a thread that
\* is inside close() goes on.
FairSpec == Spec /\ WF_vars(LoopStep) /\ WF_vars(CloseStep)

-----------------------------------------------------------------------------
\* A task runs once; those of one foreign thread run in the order it dispatched them,
\* although they are split over rounds and mixed with inline tasks; and the handle is
\* closed, and its queue deleted, only after every dispatched task ran.
NoTaskLost ==
  /\ IsInjective(ran)
  /\ \A p \in Producers, i, j \in 1..MaxDispatch, b \in 1..Len(ran) :
       i < j /\ ran[b] = <<p, j>> => \E a \in 1..b - 1 : ran[a] = <<p, i>>
  /\ handle # "open" =>
       \A t \in Threads, i \in 1..MaxDispatch :
         i <= dispatched[t] => <<t, i>> \in Range(ran)

\* Nothing touches state_t after on_closed deleted it.
NoUseAfterFree == ~usedAfterFree

\* No wakeup is lost to coalesced sends or a bounded round: every dispatched task
\* eventually runs, and a close() eventually lets the loop delete the state.
TasksRun ==
  /\ \A t \in Threads, i \in 1..MaxDispatch :
       (dispatched[t] >= i) ~> (terminated \/ \E k \in DOMAIN ran : ran[k] = <<t, i>>)
  /\ (closer # "idle") ~> (terminated \/ handle = "freed")

-----------------------------------------------------------------------------
(* The inductive invariant behind the safety properties.                   *)

TypeOK ==
  /\ tasks \in Seq(Task) /\ round \in Seq(Task) /\ ran \in Seq(Task)
  /\ dispatched \in [Threads -> 0..MaxDispatch]
  /\ handle \in {"open", "closing", "freed"} /\ loopPc \in {"poll", "round"}
  /\ closer \in {"idle", "lock", "send", "done"}

\* "closing" follows the forgotten state; on_async sees it, with nothing queued, before
\* it closes the handle - on the loop thread, so after a close() made there returned.
CloseInv ==
  /\ closer # "idle" => stateNull
  /\ closing => closer \in {"send", "done"}
  /\ close \/ handle # "open" => /\ closing /\ tasks = <<>>
                                 /\ CloseOnLoop => closer = "done"
  /\ handle # "open" => loopPc = "poll"
  /\ loopPc = "poll" => round = <<>>
  /\ CloseOnLoop => ~usedAfterFree

\* A dispatched task is in one place: queued, taken by the round, or run.
Placed == Range(ran) \cup Range(round) \cup Range(tasks)

PlaceInv ==
  /\ \A t \in Threads, i \in 1..MaxDispatch : <<t, i>> \in Placed <=> i <= dispatched[t]
  /\ IsInjective(ran) /\ IsInjective(round) /\ IsInjective(tasks)
  /\ Range(ran) \cap (Range(round) \cup Range(tasks)) = {}
  /\ Range(round) \cap Range(tasks) = {}

\* A foreign thread's earlier tasks are ahead of its later ones.
Behind(s, b, task) == \E a \in 1..b - 1 : s[a] = task

OrderInv ==
  \A p \in Producers, i, j \in 1..MaxDispatch : i < j =>
    /\ \A b \in 1..Len(ran) : ran[b] = <<p, j>> => Behind(ran, b, <<p, i>>)
    /\ \A b \in 1..Len(round) : round[b] = <<p, j>> =>
         <<p, i>> \in Range(ran) \/ Behind(round, b, <<p, i>>)
    /\ \A b \in 1..Len(tasks) : tasks[b] = <<p, j>> =>
         <<p, i>> \in Range(ran) \cup Range(round) \/ Behind(tasks, b, <<p, i>>)

IInv == TypeOK /\ CloseInv /\ PlaceInv /\ OrderInv
=============================================================================
