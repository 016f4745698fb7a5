----------------------- MODULE PythonExecutorProofs -----------------------
(***************************************************************************)
(* python_interpreter_executor for any set of client threads and any number *)
(* of tasks.                                                                *)
(***************************************************************************)
EXTENDS PythonExecutor, SequenceTheorems, TLAPS

\* The parts of the state the tasks are in.
taskVars == <<queue, batch, next, dispatched, ran, destroyed>>

\* The steps of a client, each leaving the other threads' places alone, but for a
\* waiting worker that is notified.
ClientStep(c) ==
  \/ TakeGil(c) \/ DropGil(c) \/ Dispatch(c) \/ DispatchNotify(c)
  \/ ShutdownAgain(c) \/ ShutdownBegin(c) \/ ShutdownNotify(c) \/ ShutdownSave(c)
  \/ ShutdownJoin(c) \/ ShutdownRestore(c) \/ ClientLeaves(c)

\* The steps of the worker, and those that end the process.
RunStep ==
  \/ WorkerLock \/ SpuriousWakeup \/ WorkerEnsure \/ WorkerRun \/ DispatchInline
  \/ WorkerClear \/ WorkerRelease \/ ShutdownOnWorker
  \/ \E t \in Threads : DispatchStopped(t)

LEMMA StepCases ==
  [Next]_vars => (\E c \in Clients : ClientStep(c)) \/ RunStep \/ UNCHANGED vars
  BY DEF Next, ClientStep, RunStep, ShutdownStep, WorkerStep, Finished

\* The locked block of dispatch(), run()'s taking, running and clearing of a batch, and
\* an inline dispatch are the only steps that move a task.
LEMMA TaskSteps ==
  [Next]_vars => \/ \E c \in Clients : Dispatch(c)
                 \/ WorkerLock \/ WorkerRun \/ DispatchInline \/ WorkerClear
                 \/ UNCHANGED taskVars
<1> SUFFICES ASSUME [Next]_vars, ~(UNCHANGED taskVars)
             PROVE  \/ \E c \in Clients : Dispatch(c)
                    \/ WorkerLock \/ WorkerRun \/ DispatchInline \/ WorkerClear
  OBVIOUS
<1> USE DEF taskVars, shared, local, history, vars
<1>1. ASSUME NEW c \in Clients, ClientStep(c) PROVE Dispatch(c)
  BY <1>1 DEF ClientStep, TakeGil, DropGil, DispatchNotify, ShutdownAgain,
     ShutdownBegin, ShutdownNotify, ShutdownSave, ShutdownJoin, ShutdownRestore,
     ClientLeaves
<1>2. CASE RunStep
  BY <1>2 DEF RunStep, SpuriousWakeup, WorkerEnsure, WorkerRelease, ShutdownOnWorker,
     DispatchStopped
<1>3. QED
  BY <1>1, <1>2, StepCases

\* What Append does to a sequence and to its range.
LEMMA AppendFacts ==
  ASSUME NEW S, NEW s \in Seq(S), NEW e \in S
  PROVE  /\ Len(s) \in Nat /\ Len(Append(s, e)) = Len(s) + 1
         /\ Append(s, e) \in Seq(S)
         /\ Append(s, e)[Len(s) + 1] = e
         /\ \A k \in 1..Len(s) : Append(s, e)[k] = s[k]
         /\ \A k \in 1..Len(Append(s, e)) : k \in 1..Len(s) \/ k = Len(s) + 1
         /\ Range(Append(s, e)) = Range(s) \cup {e}
<1>1. /\ Len(s) \in Nat /\ Len(Append(s, e)) = Len(s) + 1
      /\ Append(s, e) \in Seq(S)
      /\ Append(s, e)[Len(s) + 1] = e
      /\ \A k \in 1..Len(s) : Append(s, e)[k] = s[k]
  OBVIOUS
<1>2. \A k \in 1..Len(Append(s, e)) : k \in 1..Len(s) \/ k = Len(s) + 1
  BY <1>1
<1>3. DOMAIN s = 1..Len(s) /\ DOMAIN Append(s, e) = 1..Len(s) + 1
  BY <1>1, LenProperties
<1>4. \A x : x \in Range(Append(s, e)) <=> x \in Range(s) \cup {e}
  BY <1>1, <1>2, <1>3 DEF Range
<1>5. QED
  BY <1>1, <1>2, <1>4

\* The range of a sequence, by its indexes.
LEMMA RangeFacts ==
  ASSUME NEW S, NEW s \in Seq(S)
  PROVE  /\ Len(s) \in Nat /\ Range(s) \subseteq S
         /\ \A x : x \in Range(s) <=> \E k \in 1..Len(s) : s[k] = x
  BY LenProperties DEF Range

LEMMA EmptyFacts == Range(<<>>) = {} /\ Len(<<>>) = 0 /\ \A S : <<>> \in Seq(S)
  BY EmptySeq DEF Range

LEMMA InitIInv == Init => IInv
<1> SUFFICES ASSUME Init PROVE IInv
  OBVIOUS
<1> USE PythonAssumption DEF Init, Threads
<1>1. TypeOK
  <2>1. <<>> \in Seq(Task)
    BY EmptyFacts
  <2>2. pc \in [Threads -> {"idle", "loop"}] /\ 0 \in 0..MaxDispatch
    OBVIOUS
  <2>3. QED
    BY <2>1, <2>2 DEF TypeOK
<1>2. GilInv /\ PlaceInv
  BY DEF GilInv, PlaceInv
<1>3. TaskInv
  BY EmptyFacts DEF TaskInv, Present
<1>4. OrderInv
  BY DEF OrderInv
<1>5. QED
  BY <1>1, <1>2, <1>3, <1>4 DEF IInv

-----------------------------------------------------------------------------
(* Types, the GIL and the worker's place.                                   *)

LEMMA TypeStep == TypeOK /\ PlaceInv /\ [Next]_vars => TypeOK'
<1> SUFFICES ASSUME TypeOK, PlaceInv, [Next]_vars PROVE TypeOK'
  OBVIOUS
<1> USE PythonAssumption DEF TypeOK, Threads, Task, shared, local, history, gilState,
           At, Goto, Notify
<1>1. ASSUME NEW c \in Clients, ClientStep(c) PROVE TypeOK'
  <2>1. CASE TakeGil(c) \/ DropGil(c) \/ ClientLeaves(c)
    BY <2>1 DEF TakeGil, DropGil, ClientLeaves
  <2>2. CASE Dispatch(c)
    BY <2>2 DEF Dispatch, Queued
  <2>3. CASE DispatchNotify(c) \/ ShutdownNotify(c)
    BY <2>3 DEF DispatchNotify, ShutdownNotify
  <2>4. CASE ShutdownAgain(c) \/ ShutdownBegin(c) \/ ShutdownJoin(c)
    BY <2>4 DEF ShutdownAgain, ShutdownBegin, ShutdownJoin
  <2>5. CASE ShutdownSave(c)
    BY <2>5 DEF ShutdownSave, HoldsGil
  <2>6. CASE ShutdownRestore(c)
    BY <2>6 DEF ShutdownRestore
  <2>7. QED
    BY <1>1, <2>1, <2>2, <2>3, <2>4, <2>5, <2>6 DEF ClientStep
<1>2. CASE RunStep
  <2>1. CASE WorkerLock
    <3>1. <<>> \in Seq(Task)
      BY EmptyFacts
    <3>2. queue' \in Seq(Task) /\ batch' \in Seq(Task)
      BY <2>1, <3>1 DEF WorkerLock, QueueTaken
    <3>3. QED
      BY <2>1, <3>2 DEF WorkerLock
  <2>2. CASE SpuriousWakeup \/ WorkerEnsure \/ WorkerRelease
    BY <2>2 DEF SpuriousWakeup, WorkerEnsure, WorkerRelease
  <2>3. CASE WorkerRun
    <3>1. next + 1 \in 1..Len(batch)
      BY <2>3 DEF WorkerRun
    <3>2. batch[next + 1] \in Task
      BY <3>1, LenProperties
    <3>3. next' \in Nat /\ ran' \in SUBSET Task /\ offGil' \in SUBSET Task
      BY <2>3, <3>2 DEF WorkerRun, Touch
    <3>4. UNCHANGED <<queue, stopping, terminated, pc, batch, gil, released, dispatched,
                      destroyed>>
      BY <2>3 DEF WorkerRun
    <3>5. QED
      BY <3>3, <3>4
  <2>4. CASE DispatchInline
    BY <2>4 DEF DispatchInline, Touch, InTask
  <2>5. CASE WorkerClear
    <3>1. Range(batch) \in SUBSET Task
      BY RangeFacts
    <3>2. QED
      BY <2>5, <3>1 DEF WorkerClear, Touch
  <2>6. CASE ShutdownOnWorker \/ \E t \in Threads : DispatchStopped(t)
    BY <2>6 DEF ShutdownOnWorker, DispatchStopped
  <2>7. QED
    BY <1>2, <2>1, <2>2, <2>3, <2>4, <2>5, <2>6 DEF RunStep
<1>3. CASE UNCHANGED vars
  BY <1>3 DEF vars
<1>4. QED
  BY <1>1, <1>2, <1>3, StepCases

\* Only the worker takes the GIL for itself, and no other thread takes it from it.
LEMMA GilStep == TypeOK /\ GilInv /\ [Next]_vars => GilInv'
<1> SUFFICES ASSUME TypeOK, GilInv, [Next]_vars PROVE GilInv'
  OBVIOUS
<1> USE PythonAssumption DEF TypeOK, GilInv, Threads, shared, local, history, gilState,
           At, Goto, Notify
<1>1. ASSUME NEW c \in Clients, ClientStep(c) PROVE GilInv'
  <2>1. CASE TakeGil(c) \/ DropGil(c) \/ ClientLeaves(c)
    BY <2>1 DEF TakeGil, DropGil, ClientLeaves
  <2>2. CASE Dispatch(c)
    BY <2>2 DEF Dispatch
  <2>3. CASE DispatchNotify(c) \/ ShutdownNotify(c)
    BY <2>3 DEF DispatchNotify, ShutdownNotify
  <2>4. CASE ShutdownAgain(c) \/ ShutdownBegin(c) \/ ShutdownJoin(c)
    BY <2>4 DEF ShutdownAgain, ShutdownBegin, ShutdownJoin
  <2>5. CASE ShutdownSave(c)
    BY <2>5 DEF ShutdownSave, HoldsGil
  <2>6. CASE ShutdownRestore(c)
    BY <2>6 DEF ShutdownRestore
  <2>7. QED
    BY <1>1, <2>1, <2>2, <2>3, <2>4, <2>5, <2>6 DEF ClientStep
<1>2. CASE RunStep
  <2>1. CASE WorkerLock
    BY <2>1 DEF WorkerLock
  <2>2. CASE SpuriousWakeup \/ WorkerEnsure \/ WorkerRelease
    BY <2>2 DEF SpuriousWakeup, WorkerEnsure, WorkerRelease
  <2>3. CASE WorkerRun
    BY <2>3 DEF WorkerRun, Touch
  <2>4. CASE DispatchInline
    BY <2>4 DEF DispatchInline, Touch, InTask
  <2>5. CASE WorkerClear
    BY <2>5 DEF WorkerClear, Touch
  <2>6. CASE ShutdownOnWorker \/ \E t \in Threads : DispatchStopped(t)
    BY <2>6 DEF ShutdownOnWorker, DispatchStopped
  <2>7. QED
    BY <1>2, <2>1, <2>2, <2>3, <2>4, <2>5, <2>6 DEF RunStep
<1>3. CASE UNCHANGED vars
  BY <1>3 DEF vars
<1>4. QED
  BY <1>1, <1>2, <1>3, StepCases

\* "exited" is reached stopped and drained; stopping_ stays set, so nothing is queued
\* after it.
LEMMA PlaceStep == TypeOK /\ PlaceInv /\ [Next]_vars => PlaceInv'
<1> SUFFICES ASSUME TypeOK, PlaceInv, [Next]_vars PROVE PlaceInv'
  OBVIOUS
<1> USE PythonAssumption DEF TypeOK, PlaceInv, Threads, shared, local, history, gilState,
           At, Goto, Notify
<1>1. ASSUME NEW c \in Clients, ClientStep(c) PROVE PlaceInv'
  <2>1. CASE TakeGil(c) \/ DropGil(c) \/ ClientLeaves(c)
    BY <2>1 DEF TakeGil, DropGil, ClientLeaves
  <2>2. CASE Dispatch(c)
    BY <2>2 DEF Dispatch
  <2>3. CASE DispatchNotify(c) \/ ShutdownNotify(c)
    BY <2>3 DEF DispatchNotify, ShutdownNotify
  <2>4. CASE ShutdownAgain(c) \/ ShutdownBegin(c) \/ ShutdownJoin(c)
    BY <2>4 DEF ShutdownAgain, ShutdownBegin, ShutdownJoin
  <2>5. CASE ShutdownSave(c)
    BY <2>5 DEF ShutdownSave
  <2>6. CASE ShutdownRestore(c)
    BY <2>6 DEF ShutdownRestore
  <2>7. QED
    BY <1>1, <2>1, <2>2, <2>3, <2>4, <2>5, <2>6 DEF ClientStep
<1>2. CASE RunStep
  <2>1. CASE WorkerLock
    BY <2>1 DEF WorkerLock, Leaves, QueueTaken
  <2>2. CASE SpuriousWakeup \/ WorkerEnsure \/ WorkerRelease
    BY <2>2 DEF SpuriousWakeup, WorkerEnsure, WorkerRelease
  <2>3. CASE WorkerRun
    BY <2>3 DEF WorkerRun
  <2>4. CASE DispatchInline
    BY <2>4 DEF DispatchInline
  <2>5. CASE WorkerClear
    BY <2>5 DEF WorkerClear
  <2>6. CASE ShutdownOnWorker \/ \E t \in Threads : DispatchStopped(t)
    BY <2>6 DEF ShutdownOnWorker, DispatchStopped, InTask
  <2>7. QED
    BY <1>2, <2>1, <2>2, <2>3, <2>4, <2>5, <2>6 DEF RunStep
<1>3. CASE UNCHANGED vars
  BY <1>3 DEF vars
<1>4. QED
  BY <1>1, <1>2, <1>3, StepCases

-----------------------------------------------------------------------------
(* The tasks.                                                               *)

\* What the steps that move a task do to the places it can be in.
LEMMA DispatchMoves ==
  ASSUME TypeOK, NEW c \in Clients, Dispatch(c)
  PROVE  /\ <<c, dispatched[c] + 1>> \in Task
         /\ queue' = Append(queue, <<c, dispatched[c] + 1>>)
         /\ Range(queue') = Range(queue) \cup {<<c, dispatched[c] + 1>>}
         /\ dispatched'[c] = dispatched[c] + 1
         /\ \A t \in Threads : t # c => dispatched'[t] = dispatched[t]
         /\ UNCHANGED <<batch, next, ran, destroyed>>
<1>1. /\ queue' = Append(queue, <<c, dispatched[c] + 1>>)
      /\ UNCHANGED <<batch, next, ran, destroyed>>
  BY DEF Dispatch, Queued, local
<1>2. /\ dispatched \in [Threads -> 0..MaxDispatch] /\ c \in Threads
      /\ dispatched' = [dispatched EXCEPT ![c] = @ + 1]
      /\ dispatched[c] < MaxDispatch /\ queue \in Seq(Task)
  BY DEF Dispatch, TypeOK, Threads
<1>3. <<c, dispatched[c] + 1>> \in Task
  BY <1>2, PythonAssumption DEF Task
<1>4. /\ dispatched'[c] = dispatched[c] + 1
      /\ \A t \in Threads : t # c => dispatched'[t] = dispatched[t]
  BY <1>2
<1>5. Range(queue') = Range(queue) \cup {<<c, dispatched[c] + 1>>}
  BY <1>1, <1>2, <1>3, AppendFacts
<1>6. QED
  BY <1>1, <1>3, <1>4, <1>5

LEMMA InlineMoves ==
  ASSUME TypeOK, DispatchInline
  PROVE  /\ dispatched'[Worker] = dispatched[Worker] + 1
         /\ \A t \in Threads : t # Worker => dispatched'[t] = dispatched[t]
         /\ ran' = ran \cup {<<Worker, dispatched[Worker] + 1>>}
         /\ destroyed' = destroyed \cup {<<Worker, dispatched[Worker] + 1>>}
         /\ UNCHANGED <<queue, batch, next>>
  BY DEF DispatchInline, shared, local, TypeOK, Threads

LEMMA LockMoves ==
  ASSUME TypeOK, PlaceInv, WorkerLock
  PROVE  /\ UNCHANGED <<dispatched, ran, destroyed>> /\ next = 0 /\ next' = 0
         /\ Range(batch) = {} /\ Len(batch) = 0
         /\ UNCHANGED <<batch, queue>> \/ (batch' = queue /\ queue' = <<>>)
  BY EmptyFacts DEF WorkerLock, QueueTaken, history, At, PlaceInv

LEMMA RunMoves ==
  ASSUME TypeOK, WorkerRun
  PROVE  /\ next + 1 \in 1..Len(batch) /\ next' = next + 1
         /\ batch[next + 1] \in Range(batch)
         /\ ran' = ran \cup {batch[next + 1]}
         /\ UNCHANGED <<queue, batch, dispatched, destroyed>>
<1>1. /\ next + 1 \in 1..Len(batch) /\ next' = next + 1
      /\ ran' = ran \cup {batch[next + 1]}
      /\ UNCHANGED <<queue, batch, dispatched, destroyed>>
  BY DEF WorkerRun, shared, TypeOK
<1>2. QED
  BY <1>1, RangeFacts DEF TypeOK

\* By TaskInv, all of the batch has run when it is cleared.
LEMMA ClearMoves ==
  ASSUME TypeOK, TaskInv, WorkerClear
  PROVE  /\ Range(batch) \subseteq ran
         /\ destroyed' = destroyed \cup Range(batch)
         /\ batch' = <<>> /\ Range(batch') = {} /\ next' = 0
         /\ UNCHANGED <<queue, dispatched, ran>>
<1>1. /\ next = Len(batch) /\ destroyed' = destroyed \cup Range(batch)
      /\ batch' = <<>> /\ next' = 0
      /\ UNCHANGED <<queue, dispatched, ran>>
  BY DEF WorkerClear, shared
<1>2. Range(batch) \subseteq ran
  BY <1>1, RangeFacts DEF TaskInv, TypeOK
<1>3. QED
  BY <1>1, <1>2, EmptyFacts

\* No step loses a task: it moves from the queue to the batch, runs, and is destroyed.
LEMMA PresentStep ==
  ASSUME TypeOK, PlaceInv, TaskInv, [Next]_vars,
         NEW t \in Threads, NEW i \in 1..MaxDispatch, i <= dispatched'[t]
  PROVE  Present(<<t, i>>)'
<1>1. i <= dispatched[t] => Present(<<t, i>>)
  BY DEF TaskInv
<1>2. ASSUME NEW c \in Clients, Dispatch(c) PROVE Present(<<t, i>>)'
  <2>1. i <= dispatched[t] \/ <<t, i>> = <<c, dispatched[c] + 1>>
    <3>1. dispatched[t] \in Nat /\ dispatched[c] \in Nat
      BY DEF TypeOK, Threads
    <3>2. t = c \/ i <= dispatched[t]
      BY <1>2, DispatchMoves
    <3>3. t = c => i <= dispatched[c] + 1
      BY <1>2, DispatchMoves
    <3>4. QED
      BY <3>1, <3>2, <3>3
  <2>2. QED
    BY <1>1, <1>2, <2>1, DispatchMoves DEF Present
<1>3. CASE WorkerLock
  BY <1>1, <1>3, LockMoves DEF Present
<1>4. CASE WorkerRun
  BY <1>1, <1>4, RunMoves DEF Present
<1>5. CASE DispatchInline
  <2>1. i <= dispatched[t] \/ <<t, i>> = <<Worker, dispatched[Worker] + 1>>
    BY <1>5, InlineMoves DEF TypeOK, Threads
  <2>2. QED
    BY <1>1, <1>5, <2>1, InlineMoves DEF Present
<1>6. CASE WorkerClear
  BY <1>1, <1>6, ClearMoves DEF Present
<1>7. CASE UNCHANGED taskVars
  BY <1>1, <1>7 DEF taskVars, Present
<1>8. QED
  BY <1>2, <1>3, <1>4, <1>5, <1>6, <1>7, TaskSteps

\* Every task anywhere was dispatched, and those invoked have run.
LEMMA TaskStep == TypeOK /\ PlaceInv /\ TaskInv /\ [Next]_vars => TaskInv'
<1> SUFFICES ASSUME TypeOK, PlaceInv, TaskInv, [Next]_vars PROVE TaskInv'
  OBVIOUS
<1> DEFINE Known == ran \cup Range(batch) \cup Range(queue)
           Counted == \A task \in Known : task[2] <= dispatched[task[1]]
           Invoked == \A k \in 1..next : batch[k] \in ran
           Inline == \A i \in 1..dispatched[Worker] : <<Worker, i>> \in ran
<1>1. Counted /\ Invoked /\ Inline
  BY DEF TaskInv
<1>2. Known \subseteq Task
  BY RangeFacts DEF TypeOK
<1>3. SUFFICES Counted' /\ Invoked' /\ Inline'
  BY PresentStep DEF TaskInv
<1>4. Worker \in Threads /\ \A t \in Threads : dispatched[t] \in Nat
  BY DEF Threads, TypeOK
<1>5. ASSUME NEW c \in Clients, Dispatch(c) PROVE Counted' /\ Invoked' /\ Inline'
  <2>1. \A t \in Threads : dispatched[t] <= dispatched'[t]
    <3>1. \A t \in Threads : dispatched'[t] = dispatched[t] \/ dispatched'[t] = dispatched[t] + 1
      BY <1>5, DispatchMoves
    <3>2. QED
      BY <1>4, <3>1
  <2>2. \A task \in Known : task[2] <= dispatched'[task[1]]
    <3> TAKE task \in Known
    <3>1. task[1] \in Threads /\ task[2] \in Nat
      BY <1>2 DEF Task
    <3>2. dispatched'[task[1]] \in Nat
      BY <1>4, <3>1, TypeStep DEF TypeOK
    <3>3. QED
      BY <1>1, <1>4, <2>1, <3>1, <3>2
  <2>3. Known' = Known \cup {<<c, dispatched[c] + 1>>}
    BY <1>5, DispatchMoves
  <2>4. Counted'
    BY <1>5, <1>4, <2>2, <2>3, DispatchMoves DEF Threads
  <2>5. dispatched'[Worker] = dispatched[Worker]
    BY <1>5, <1>4, DispatchMoves, PythonAssumption
  <2>6. QED
    BY <1>5, <1>1, <2>4, <2>5, DispatchMoves
<1>6. CASE WorkerLock
  <2>1. Known' \subseteq Known
    BY <1>6, LockMoves, EmptyFacts
  <2>2. QED
    BY <1>6, <1>1, <2>1, LockMoves
<1>7. CASE WorkerRun
  <2>1. Known' = Known
    BY <1>7, RunMoves
  <2>2. Invoked'
    BY <1>7, <1>1, RunMoves DEF TypeOK
  <2>3. QED
    BY <1>7, <1>1, <2>1, <2>2, RunMoves
<1>8. CASE DispatchInline
  <2>1. \A t \in Threads : dispatched[t] <= dispatched'[t]
    BY <1>8, <1>4, InlineMoves
  <2>2. \A task \in Known : task[2] <= dispatched'[task[1]]
    <3> TAKE task \in Known
    <3>1. task[1] \in Threads /\ task[2] \in Nat
      BY <1>2 DEF Task
    <3>2. QED
      BY <1>8, <1>1, <1>4, <2>1, <3>1, InlineMoves
  <2>3. Known' = Known \cup {<<Worker, dispatched[Worker] + 1>>}
    BY <1>8, InlineMoves
  <2>4. Counted'
    BY <1>8, <1>4, <2>2, <2>3, InlineMoves
  <2>5. \A i \in 1..dispatched'[Worker] :
          i \in 1..dispatched[Worker] \/ i = dispatched[Worker] + 1
    BY <1>8, <1>4, InlineMoves
  <2>6. Inline'
    BY <1>8, <1>1, <2>5, InlineMoves
  <2>7. QED
    BY <1>8, <1>1, <2>4, <2>6, InlineMoves
<1>9. CASE WorkerClear
  <2>1. Known' \subseteq Known
    BY <1>9, ClearMoves
  <2>2. QED
    BY <1>9, <1>1, <2>1, ClearMoves
<1>10. CASE UNCHANGED taskVars
  BY <1>10, <1>1 DEF taskVars
<1>11. QED
  BY <1>5, <1>6, <1>7, <1>8, <1>9, <1>10, TaskSteps

\* A task is appended behind those of its thread, taken with them and run after them.
LEMMA OrderStep == TypeOK /\ PlaceInv /\ TaskInv /\ OrderInv /\ [Next]_vars => OrderInv'
<1> SUFFICES ASSUME TypeOK, PlaceInv, TaskInv, OrderInv, [Next]_vars,
                    NEW t \in Threads, NEW i \in 1..MaxDispatch, NEW j \in 1..MaxDispatch,
                    i < j
             PROVE  (/\ <<t, j>> \in ran => <<t, i>> \in ran
                     /\ \A k \in 1..Len(batch) : batch[k] = <<t, j>> =>
                          <<t, i>> \in ran \/ \E h \in 1..k - 1 : batch[h] = <<t, i>>
                     /\ \A k \in 1..Len(queue) : queue[k] = <<t, j>> =>
                          \/ <<t, i>> \in ran \cup Range(batch)
                          \/ \E h \in 1..k - 1 : queue[h] = <<t, i>>)'
  BY DEF OrderInv
<1> DEFINE Ran == <<t, j>> \in ran => <<t, i>> \in ran
           Taken == \A k \in 1..Len(batch) : batch[k] = <<t, j>> =>
                      <<t, i>> \in ran \/ \E h \in 1..k - 1 : batch[h] = <<t, i>>
           Waiting == \A k \in 1..Len(queue) : queue[k] = <<t, j>> =>
                        \/ <<t, i>> \in ran \cup Range(batch)
                        \/ \E h \in 1..k - 1 : queue[h] = <<t, i>>
<1> SUFFICES Ran' /\ Taken' /\ Waiting'
  OBVIOUS
<1>1. Ran /\ Taken /\ Waiting
  BY DEF OrderInv
<1>2. ASSUME NEW c \in Clients, Dispatch(c) PROVE Ran' /\ Taken' /\ Waiting'
  <2> DEFINE task == <<c, dispatched[c] + 1>>
  <2>1. /\ task \in Task /\ queue' = Append(queue, task)
        /\ UNCHANGED <<batch, ran>>
    BY <1>2, DispatchMoves
  <2>2. ASSUME task = <<t, j>>
        PROVE  <<t, i>> \in ran \cup Range(batch) \cup Range(queue)
    <3>1. i <= dispatched[t]
      BY <2>2 DEF TypeOK
    <3>2. QED
      BY <3>1 DEF TaskInv, Present
  <2>3. Waiting'
    <3> SUFFICES ASSUME NEW k \in 1..Len(queue'), queue'[k] = <<t, j>>,
                        <<t, i>> \notin ran \cup Range(batch)
                 PROVE  \E h \in 1..k - 1 : queue'[h] = <<t, i>>
      BY <2>1
    <3>1. /\ Len(queue) \in Nat
          /\ \A h \in 1..Len(queue) : queue'[h] = queue[h]
          /\ k \in 1..Len(queue) \/ (k = Len(queue) + 1 /\ queue'[k] = task)
      BY <2>1, AppendFacts DEF TypeOK
    <3>2. CASE k \in 1..Len(queue)
      <4>1. PICK h \in 1..k - 1 : queue[h] = <<t, i>>
        BY <1>1, <3>1, <3>2
      <4>2. QED
        BY <3>1, <3>2, <4>1
    <3>3. CASE k = Len(queue) + 1 /\ queue'[k] = task
      <4>1. PICK h \in 1..Len(queue) : queue[h] = <<t, i>>
        BY <2>2, <3>3, RangeFacts DEF TypeOK
      <4>2. QED
        BY <3>1, <3>3, <4>1
    <3>4. QED
      BY <3>1, <3>2, <3>3
  <2>4. QED
    BY <1>1, <2>1, <2>3
<1>3. CASE WorkerLock
  <2>1. CASE UNCHANGED <<batch, queue>>
    BY <1>1, <1>3, <2>1, LockMoves
  <2>2. CASE batch' = queue /\ queue' = <<>>
    <3>1. Len(queue') = 0 /\ ran' = ran /\ Range(batch) = {}
      BY <1>3, <2>2, LockMoves, EmptyFacts
    <3>2. Taken'
      BY <1>1, <2>2, <3>1
    <3>3. Ran'
      BY <1>1, <3>1
    <3>4. Waiting'
      BY <3>1
    <3>5. QED
      BY <3>2, <3>3, <3>4
  <2>3. QED
    BY <1>3, <2>1, <2>2, LockMoves
<1>4. CASE WorkerRun
  <2>1. /\ next + 1 \in 1..Len(batch) /\ ran' = ran \cup {batch[next + 1]}
        /\ UNCHANGED <<queue, batch>>
    BY <1>4, RunMoves
  <2>2. ASSUME batch[next + 1] = <<t, j>> PROVE <<t, i>> \in ran
    <3>1. CASE \E h \in 1..(next + 1) - 1 : batch[h] = <<t, i>>
      <4>1. PICK h \in 1..(next + 1) - 1 : batch[h] = <<t, i>>
        BY <3>1
      <4>2. h \in 1..next
        BY DEF TypeOK
      <4>3. QED
        BY <4>1, <4>2 DEF TaskInv
    <3>2. QED
      BY <1>1, <2>1, <2>2, <3>1
  <2>3. QED
    BY <1>1, <2>1, <2>2
<1>5. CASE DispatchInline
  <2>1. /\ ran' = ran \cup {<<Worker, dispatched[Worker] + 1>>}
        /\ UNCHANGED <<queue, batch>>
    BY <1>5, InlineMoves
  <2>2. ASSUME <<t, j>> = <<Worker, dispatched[Worker] + 1>> PROVE <<t, i>> \in ran
    <3>1. t = Worker /\ j = dispatched[Worker] + 1
      BY <2>2
    <3>2. dispatched[Worker] \in Nat
      BY DEF TypeOK, Threads
    <3>3. i \in 1..dispatched[Worker]
      BY <3>1, <3>2
    <3>4. QED
      BY <3>1, <3>3 DEF TaskInv
  <2>3. QED
    BY <1>1, <2>1, <2>2
<1>6. CASE WorkerClear
  <2>1. Len(batch') = 0
    BY <1>6, ClearMoves, EmptyFacts
  <2>2. queue' = queue /\ ran' = ran /\ Range(batch) \subseteq ran
    BY <1>6, ClearMoves
  <2>3. Taken' /\ Ran'
    BY <1>1, <2>1, <2>2
  <2>4. Waiting'
    BY <1>1, <2>2
  <2>5. QED
    BY <2>3, <2>4
<1>7. CASE UNCHANGED taskVars
  BY <1>1, <1>7 DEF taskVars
<1>8. QED
  BY <1>2, <1>3, <1>4, <1>5, <1>6, <1>7, TaskSteps

-----------------------------------------------------------------------------
\* The inductive invariant holds in every reachable state.
THEOREM Invariance == Spec => []IInv
<1>1. IInv /\ [Next]_vars => IInv'
  BY TypeStep, GilStep, PlaceStep, TaskStep, OrderStep DEF IInv
<1>2. QED
  BY InitIInv, <1>1, PTL DEF Spec

\* Tasks are invoked and destroyed under the GIL only, whatever the clients do with it.
THEOREM GilHeldForTasks == Spec => []TasksTouchedUnderGil
<1>1. IInv => TasksTouchedUnderGil
  BY DEF IInv, GilInv, TasksTouchedUnderGil
<1>2. QED
  BY Invariance, <1>1, PTL

\* When the shutdown() that stopped the executor returns, every task has run and is
\* destroyed, and tasks of one thread run in their order.
THEOREM ShutdownDrainsQueue == Spec => []ShutdownDrains
<1>1. IInv => ShutdownDrains
  <2> SUFFICES ASSUME IInv PROVE ShutdownDrains
    OBVIOUS
  <2>1. ASSUME NEW c \in Clients, pc[c] = "joined"
        PROVE  \A t \in Threads, i \in 1..MaxDispatch :
                 i <= dispatched[t] => <<t, i>> \in ran \cap destroyed
    <3>1. batch = <<>> /\ queue = <<>>
      BY <2>1 DEF IInv, PlaceInv
    <3>2. QED
      BY <3>1, EmptyFacts DEF IInv, TaskInv, Present
  <2>2. QED
    BY <2>1 DEF IInv, OrderInv, ShutdownDrains
<1>2. QED
  BY Invariance, <1>1, PTL
=============================================================================
