------------------------- MODULE UvExecutorProofs -------------------------
(***************************************************************************)
(* uv_executor for any set of foreign threads, any number of tasks and any  *)
(* max_tasks_per_round.                                                     *)
(***************************************************************************)
EXTENDS UvExecutor, SequenceTheorems, TLAPS

-----------------------------------------------------------------------------
(* Sequences: their ranges, and what appending, splitting and removing the  *)
(* head do to them.                                                         *)

LEMMA EmptyFacts ==
  /\ Range(<<>>) = {} /\ Len(<<>>) = 0 /\ IsInjective(<<>>)
  /\ \A S : <<>> \in Seq(S)
  BY EmptySeq DEF Range, IsInjective

LEMMA RangeFacts ==
  ASSUME NEW S, NEW s \in Seq(S)
  PROVE  /\ Len(s) \in Nat /\ DOMAIN s = 1..Len(s) /\ Range(s) \subseteq S
         /\ \A x : x \in Range(s) <=> \E k \in 1..Len(s) : s[k] = x
  BY LenProperties DEF Range

LEMMA AppendFacts ==
  ASSUME NEW S, NEW s \in Seq(S), NEW e \in S
  PROVE  /\ Len(s) \in Nat /\ Len(Append(s, e)) = Len(s) + 1
         /\ Append(s, e) \in Seq(S)
         /\ Append(s, e)[Len(s) + 1] = e
         /\ \A k \in 1..Len(s) : Append(s, e)[k] = s[k]
         /\ \A k \in 1..Len(Append(s, e)) : k \in 1..Len(s) \/ k = Len(s) + 1
         /\ Range(Append(s, e)) = Range(s) \cup {e}
         /\ IsInjective(s) /\ e \notin Range(s) => IsInjective(Append(s, e))
<1>1. /\ Len(s) \in Nat /\ Len(Append(s, e)) = Len(s) + 1
      /\ Append(s, e) \in Seq(S)
      /\ Append(s, e)[Len(s) + 1] = e
      /\ \A k \in 1..Len(s) : Append(s, e)[k] = s[k]
  OBVIOUS
<1>2. \A k \in 1..Len(Append(s, e)) : k \in 1..Len(s) \/ k = Len(s) + 1
  BY <1>1
<1>3. DOMAIN s = 1..Len(s) /\ DOMAIN Append(s, e) = 1..Len(s) + 1
  BY <1>1, LenProperties
<1>4. \A x : x \in Range(Append(s, e)) <=> x \in Range(s) \cup {e}
  BY <1>1, <1>2, <1>3 DEF Range
<1>5. IsInjective(s) /\ e \notin Range(s) => IsInjective(Append(s, e))
  <2> SUFFICES ASSUME IsInjective(s), e \notin Range(s) PROVE IsInjective(Append(s, e))
    OBVIOUS
  <2>1. \A k \in 1..Len(s) : s[k] # e
    BY <1>3 DEF Range
  <2>2. \A a, b \in 1..Len(s) : s[a] = s[b] => a = b
    BY <1>3 DEF IsInjective
  <2>3. QED
    BY <1>1, <1>2, <1>3, <2>1, <2>2 DEF IsInjective
<1>6. QED
  BY <1>1, <1>2, <1>4, <1>5

LEMMA SplitFacts ==
  ASSUME NEW S, NEW s \in Seq(S), NEW n \in 0..Len(s)
  PROVE  LET f == SubSeq(s, 1, n)
             r == SubSeq(s, n + 1, Len(s))
         IN
         /\ f \in Seq(S) /\ Len(f) = n /\ \A k \in 1..n : f[k] = s[k]
         /\ r \in Seq(S) /\ Len(r) = Len(s) - n
         /\ \A k \in 1..Len(s) - n : r[k] = s[n + k]
         /\ Range(s) = Range(f) \cup Range(r)
         /\ IsInjective(s) => /\ IsInjective(f) /\ IsInjective(r)
                              /\ Range(f) \cap Range(r) = {}
<1> DEFINE f == SubSeq(s, 1, n)
           r == SubSeq(s, n + 1, Len(s))
<1>1. Len(s) \in Nat /\ \A k \in 1..Len(s) : s[k] \in S
  BY LenProperties
<1>2. f \in Seq(S) /\ Len(f) = n /\ \A k \in 1..n : f[k] = s[k]
  <2>1. \A k \in 1..n : s[k] \in S
    BY <1>1
  <2>2. QED
    BY <1>1, <2>1, SubSeqProperties
<1>3. /\ r \in Seq(S) /\ Len(r) = Len(s) - n
      /\ \A k \in 1..Len(s) - n : r[k] = s[n + k]
  <2>1. \A k \in n + 1..Len(s) : s[k] \in S
    BY <1>1
  <2>2. QED
    BY <1>1, <2>1, SubSeqProperties
<1> HIDE DEF f, r
<1>4. DOMAIN s = 1..Len(s) /\ DOMAIN f = 1..n /\ DOMAIN r = 1..Len(s) - n
  BY <1>2, <1>3, LenProperties
<1>5. \A x : x \in Range(f) <=> \E k \in 1..n : s[k] = x
  BY <1>2, <1>4 DEF Range
<1>6. \A x : x \in Range(r) <=> \E k \in n + 1..Len(s) : s[k] = x
  <2> TAKE x
  <2>1. ASSUME NEW k \in 1..Len(s) - n, r[k] = x PROVE \E h \in n + 1..Len(s) : s[h] = x
    <3>1. n + k \in n + 1..Len(s) /\ s[n + k] = x
      BY <1>1, <1>3, <2>1
    <3>2. QED
      BY <3>1
  <2>2. ASSUME NEW h \in n + 1..Len(s), s[h] = x PROVE \E k \in 1..Len(s) - n : r[k] = x
    <3>1. h - n \in 1..Len(s) - n /\ n + (h - n) = h
      BY <1>1
    <3>2. QED
      BY <1>3, <2>2, <3>1
  <2>3. QED
    BY <1>4, <2>1, <2>2 DEF Range
<1>7. \A k \in 1..Len(s) : k \in 1..n \/ k \in n + 1..Len(s)
  BY <1>1
<1>8. \A k : k \in 1..n \/ k \in n + 1..Len(s) => k \in 1..Len(s)
  BY <1>1
<1>9. \A x : x \in Range(s) <=> \E k \in 1..Len(s) : s[k] = x
  BY <1>4 DEF Range
<1>10. Range(s) = Range(f) \cup Range(r)
  BY <1>5, <1>6, <1>7, <1>8, <1>9
<1>11. ASSUME IsInjective(s)
       PROVE  IsInjective(f) /\ IsInjective(r) /\ Range(f) \cap Range(r) = {}
  <2>1. \A a, b \in 1..Len(s) : s[a] = s[b] => a = b
    BY <1>4, <1>11 DEF IsInjective
  <2>2. IsInjective(f)
    BY <1>1, <1>2, <1>4, <2>1 DEF IsInjective
  <2>3. IsInjective(r)
    <3> SUFFICES ASSUME NEW a \in 1..Len(s) - n, NEW b \in 1..Len(s) - n, r[a] = r[b]
                 PROVE  a = b
      BY <1>4 DEF IsInjective
    <3>1. n + a \in 1..Len(s) /\ n + b \in 1..Len(s) /\ s[n + a] = s[n + b]
      BY <1>1, <1>3
    <3>2. QED
      BY <2>1, <3>1
  <2>4. \A a \in 1..n, b \in n + 1..Len(s) : a # b /\ a \in 1..Len(s) /\ b \in 1..Len(s)
    BY <1>1
  <2>5. Range(f) \cap Range(r) = {}
    BY <1>5, <1>6, <2>1, <2>4
  <2>6. QED
    BY <2>2, <2>3, <2>5
<1>12. QED
  BY <1>2, <1>3, <1>10, <1>11 DEF f, r

LEMMA TailFacts ==
  ASSUME NEW S, NEW s \in Seq(S), s # <<>>
  PROVE  /\ Head(s) \in S /\ Tail(s) \in Seq(S) /\ Len(Tail(s)) = Len(s) - 1
         /\ Len(s) \in Nat \ {0} /\ Head(s) = s[1]
         /\ \A k \in 1..Len(s) - 1 : Tail(s)[k] = s[k + 1]
         /\ Range(s) = {Head(s)} \cup Range(Tail(s))
         /\ IsInjective(s) => IsInjective(Tail(s)) /\ Head(s) \notin Range(Tail(s))
<1>1. /\ Head(s) \in S /\ Tail(s) \in Seq(S) /\ Len(Tail(s)) = Len(s) - 1
      /\ Len(s) \in Nat \ {0} /\ Head(s) = s[1]
      /\ \A k \in 1..Len(s) - 1 : Tail(s)[k] = s[k + 1]
  <2>1. Len(s) \in Nat \ {0}
    BY EmptySeq
  <2>2. /\ Head(s) \in S /\ Tail(s) \in Seq(S) /\ Len(Tail(s)) = Len(s) - 1
        /\ \A k \in 1..Len(Tail(s)) : Tail(s)[k] = s[k + 1]
    BY HeadTailProperties
  <2>3. Head(s) = s[1]
    BY <2>1
  <2>4. QED
    BY <2>1, <2>2, <2>3
<1>2. PICK n \in 0..Len(s) : n = 1
  BY <1>1
<1>3. PICK f : f = SubSeq(s, 1, n)
  OBVIOUS
<1>4. /\ f \in Seq(S) /\ Len(f) = 1 /\ f[1] = s[1]
      /\ Range(s) = Range(f) \cup Range(Tail(s))
      /\ IsInjective(s) => /\ IsInjective(Tail(s))
                           /\ Range(f) \cap Range(Tail(s)) = {}
  <2>1. Tail(s) = SubSeq(s, n + 1, Len(s))
    BY <1>2, TailIsSubSeq
  <2>2. /\ f \in Seq(S) /\ Len(f) = n /\ \A k \in 1..n : f[k] = s[k]
        /\ Range(s) = Range(f) \cup Range(SubSeq(s, n + 1, Len(s)))
        /\ IsInjective(s) =>
             /\ IsInjective(SubSeq(s, n + 1, Len(s)))
             /\ Range(f) \cap Range(SubSeq(s, n + 1, Len(s))) = {}
    BY <1>3, SplitFacts
  <2>3. Len(f) = 1 /\ f[1] = s[1]
    BY <1>2, <2>2
  <2>4. QED
    BY <2>1, <2>2, <2>3
<1>5. Range(f) = {Head(s)}
  BY <1>1, <1>4, RangeFacts
<1>6. QED
  BY <1>1, <1>4, <1>5

-----------------------------------------------------------------------------
(* The steps.                                                               *)

\* Where the tasks are.
taskVars == <<tasks, round, ran, dispatched>>

LEMMA StepCases ==
  [Next]_vars => \/ \E t \in Threads : Dispatch(t)
                 \/ DispatchAfterClose \/ CloseBegin \/ CloseLock \/ CloseSend
                 \/ OnAsync \/ RunTask \/ OnAsyncEnd \/ OnClosed
                 \/ UNCHANGED vars
  BY DEF Next, CloseStep, LoopStep, CloseAgain, Finished

LEMMA TaskSteps ==
  [Next]_vars => \/ \E t \in Threads : Dispatch(t)
                 \/ OnAsync \/ RunTask \/ UNCHANGED taskVars
<1> SUFFICES ASSUME [Next]_vars, ~(UNCHANGED taskVars)
             PROVE  (\E t \in Threads : Dispatch(t)) \/ OnAsync \/ RunTask
  OBVIOUS
<1> USE DEF taskVars, state, onAsync, history, vars
<1>1. ~DispatchAfterClose
  BY DEF DispatchAfterClose
<1>2. ~CloseBegin /\ ~CloseLock /\ ~CloseSend
  BY DEF CloseBegin, CloseLock, CloseSend
<1>3. ~OnAsyncEnd /\ ~OnClosed
  BY DEF OnAsyncEnd, OnClosed
<1>4. QED
  BY <1>1, <1>2, <1>3, StepCases

LEMMA InitIInv == Init => IInv
<1> SUFFICES ASSUME Init PROVE IInv
  OBVIOUS
<1>1. TypeOK
  <2>1. tasks \in Seq(Task) /\ round \in Seq(Task) /\ ran \in Seq(Task)
    BY EmptyFacts DEF Init
  <2>2. dispatched \in [Threads -> 0..MaxDispatch]
    BY UvAssumption DEF Init
  <2>3. QED
    BY <2>1, <2>2 DEF Init, TypeOK
<1>2. CloseInv
  BY DEF Init, CloseInv
<1>3. PlaceInv
  BY EmptyFacts DEF Init, PlaceInv, Placed
<1>4. OrderInv
  BY EmptyFacts DEF Init, OrderInv
<1>5. QED
  BY <1>1, <1>2, <1>3, <1>4 DEF IInv

\* A dispatch on the loop runs at once if the queue is empty; any other is queued.
LEMMA DispatchMoves ==
  ASSUME TypeOK, PlaceInv, NEW t \in Threads, Dispatch(t)
  PROVE  /\ <<t, dispatched[t] + 1>> \in Task \ Placed
         /\ dispatched' = [dispatched EXCEPT ![t] = @ + 1]
         /\ dispatched' \in [Threads -> 0..MaxDispatch]
         /\ round' = round
         /\ \/ t = Loop /\ ran' = Append(ran, <<t, dispatched[t] + 1>>) /\ tasks' = tasks
            \/ tasks' = Append(tasks, <<t, dispatched[t] + 1>>) /\ ran' = ran
<1>1. /\ dispatched \in [Threads -> 0..MaxDispatch] /\ dispatched[t] < MaxDispatch
      /\ dispatched' = [dispatched EXCEPT ![t] = @ + 1]
  BY DEF Dispatch, TypeOK
<1>2. dispatched[t] + 1 \in 1..MaxDispatch /\ ~(dispatched[t] + 1 <= dispatched[t])
  BY <1>1, UvAssumption
<1>3. <<t, dispatched[t] + 1>> \in Task \ Placed
  BY <1>2 DEF Task, PlaceInv
<1>4. dispatched' \in [Threads -> 0..MaxDispatch]
  BY <1>1, <1>2
<1>5. /\ round' = round
      /\ \/ t = Loop /\ ran' = Append(ran, <<t, dispatched[t] + 1>>) /\ tasks' = tasks
         \/ tasks' = Append(tasks, <<t, dispatched[t] + 1>>) /\ ran' = ran
  BY DEF Dispatch, RunsInline, Queued, onAsync
<1>6. QED
  BY <1>1, <1>3, <1>4, <1>5

\* on_async takes the head of the queue, at most max_tasks_per_round long.
LEMMA OnAsyncMoves ==
  ASSUME TypeOK, CloseInv, OnAsync
  PROVE  \E n \in 0..Len(tasks) :
           /\ round' = SubSeq(tasks, 1, n) /\ tasks' = SubSeq(tasks, n + 1, Len(tasks))
           /\ close' = (closing /\ n = Len(tasks))
           /\ round = <<>> /\ UNCHANGED <<ran, dispatched>>
<1>1. Len(tasks) \in Nat
  BY RangeFacts DEF TypeOK
<1>2. RoundLength \in 0..Len(tasks)
  BY <1>1, UvAssumption DEF RoundLength
<1>3. QED
  BY <1>2 DEF OnAsync, CloseInv, history

LEMMA TypeStep == TypeOK /\ CloseInv /\ PlaceInv /\ [Next]_vars => TypeOK'
<1> SUFFICES ASSUME TypeOK, CloseInv, PlaceInv, [Next]_vars PROVE TypeOK'
  OBVIOUS
<1> DEFINE Sequences1 == tasks \in Seq(Task) /\ round \in Seq(Task) /\ ran \in Seq(Task)
           Counts == dispatched \in [Threads -> 0..MaxDispatch]
<1>1. Sequences1' /\ Counts'
  <2>1. ASSUME NEW t \in Threads, Dispatch(t) PROVE Sequences1' /\ Counts'
    <3> DEFINE task == <<t, dispatched[t] + 1>>
    <3>1. task \in Task
      BY <2>1, DispatchMoves
    <3>2. Append(ran, task) \in Seq(Task) /\ Append(tasks, task) \in Seq(Task)
      BY <3>1, AppendFacts DEF TypeOK
    <3>3. QED
      BY <2>1, <3>2, DispatchMoves DEF TypeOK
  <2>2. CASE OnAsync
    <3>1. PICK n \in 0..Len(tasks) :
            /\ round' = SubSeq(tasks, 1, n) /\ tasks' = SubSeq(tasks, n + 1, Len(tasks))
            /\ UNCHANGED <<ran, dispatched>>
      BY <2>2, OnAsyncMoves
    <3>2. tasks \in Seq(Task)
      BY DEF TypeOK
    <3>3. round' \in Seq(Task) /\ tasks' \in Seq(Task)
      BY <3>1, <3>2, SplitFacts
    <3>4. QED
      BY <3>1, <3>3 DEF TypeOK
  <2>3. CASE RunTask
    BY <2>3, TailFacts, AppendFacts DEF TypeOK, RunTask, state
  <2>4. CASE UNCHANGED taskVars
    BY <2>4 DEF TypeOK, taskVars
  <2>5. QED
    BY <2>1, <2>2, <2>3, <2>4, TaskSteps
<1>2. (/\ handle \in {"open", "closing", "freed"} /\ loopPc \in {"poll", "round"}
       /\ closer \in {"idle", "lock", "send", "done"})'
  BY StepCases DEF TypeOK, state, onAsync, history, vars, Dispatch, DispatchAfterClose,
     CloseBegin, CloseLock, CloseSend, OnAsync, RunTask, OnAsyncEnd, OnClosed
<1>3. QED
  BY <1>1, <1>2 DEF TypeOK

-----------------------------------------------------------------------------
(* Closing.                                                                 *)

LEMMA CloseInvStep == TypeOK /\ CloseInv /\ [Next]_vars => CloseInv'
<1> SUFFICES ASSUME TypeOK, CloseInv, [Next]_vars PROVE CloseInv'
  OBVIOUS
<1> USE DEF state, onAsync, history
<1>1. ASSUME NEW t \in Threads, Dispatch(t) PROVE CloseInv'
  BY <1>1 DEF Dispatch, CloseInv
<1>2. CASE DispatchAfterClose
  BY <1>2 DEF DispatchAfterClose, CloseInv
<1>3. CASE CloseBegin
  BY <1>3 DEF CloseBegin, CloseInv
<1>4. CASE CloseLock
  BY <1>4 DEF CloseLock, CloseInv
<1>5. CASE CloseSend
  BY <1>5 DEF CloseSend, CloseInv
<1>6. CASE OnAsync
  <2>1. PICK n \in 0..Len(tasks) :
          /\ tasks' = SubSeq(tasks, n + 1, Len(tasks))
          /\ close' = (closing /\ n = Len(tasks))
    BY <1>6, OnAsyncMoves
  <2>2. n = Len(tasks) => tasks' = <<>>
    <3>1. n = Len(tasks) => n \in Int /\ n + 1 \in Int /\ n < n + 1
      BY RangeFacts DEF TypeOK
    <3>2. QED
      BY <2>1, <3>1, SubSeqEmpty
  <2>3. close' => closing /\ tasks' = <<>>
    BY <2>1, <2>2
  <2>4. closing /\ CloseOnLoop => closer = "done"
    BY <1>6 DEF OnAsync, LoopFree, CloseInv
  <2>5. QED
    BY <1>6, <2>3, <2>4 DEF OnAsync, CloseInv
<1>7. CASE RunTask
  BY <1>7 DEF RunTask, CloseInv
<1>8. CASE OnAsyncEnd
  BY <1>8 DEF OnAsyncEnd, ClosesHandle, CloseInv
<1>9. CASE OnClosed
  BY <1>9 DEF OnClosed, CloseInv
<1>10. CASE UNCHANGED vars
  BY <1>10 DEF vars, CloseInv
<1>11. QED
  BY <1>1, <1>2, <1>3, <1>4, <1>5, <1>6, <1>7, <1>8, <1>9, <1>10, StepCases

-----------------------------------------------------------------------------
(* No task is lost or run twice.                                            *)

LEMMA PlaceStep == TypeOK /\ CloseInv /\ PlaceInv /\ [Next]_vars => PlaceInv'
<1> SUFFICES ASSUME TypeOK, CloseInv, PlaceInv, [Next]_vars PROVE PlaceInv'
  OBVIOUS
<1> DEFINE Kept == \A t \in Threads, i \in 1..MaxDispatch :
                     <<t, i>> \in Placed <=> i <= dispatched[t]
           Once == /\ IsInjective(ran) /\ IsInjective(round) /\ IsInjective(tasks)
                   /\ Range(ran) \cap (Range(round) \cup Range(tasks)) = {}
                   /\ Range(round) \cap Range(tasks) = {}
<1> SUFFICES Kept' /\ Once'
  BY DEF PlaceInv
<1>1. Kept /\ Once
  BY DEF PlaceInv
<1>2. tasks \in Seq(Task) /\ round \in Seq(Task) /\ ran \in Seq(Task)
  BY DEF TypeOK
<1>3. ASSUME NEW t \in Threads, Dispatch(t) PROVE Kept' /\ Once'
  <2> DEFINE task == <<t, dispatched[t] + 1>>
  <2>1. /\ task \in Task \ Placed /\ round' = round
        /\ \/ ran' = Append(ran, task) /\ tasks' = tasks
           \/ tasks' = Append(tasks, task) /\ ran' = ran
    BY <1>3, DispatchMoves
  <2> HIDE DEF task
  <2>2. Range(Append(ran, task)) = Range(ran) \cup {task}
        /\ Range(Append(tasks, task)) = Range(tasks) \cup {task}
    <3>1. task \in Task
      BY <2>1
    <3>2. QED
      BY <1>2, <3>1, AppendFacts
  <2>3. IsInjective(Append(ran, task)) /\ IsInjective(Append(tasks, task))
    BY <1>1, <1>2, <2>1, AppendFacts DEF Placed
  <2>4. Placed' = Placed \cup {task}
    BY <2>1, <2>2 DEF Placed
  <2>5. Once'
    BY <1>1, <2>1, <2>2, <2>3 DEF Placed
  <2>6. ASSUME NEW u \in Threads, NEW i \in 1..MaxDispatch
        PROVE  <<u, i>> \in Placed' <=> i <= dispatched'[u]
    <3>1. dispatched[u] \in Nat /\ dispatched[t] \in Nat
      BY DEF TypeOK
    <3>2. dispatched' = [dispatched EXCEPT ![t] = @ + 1]
          /\ dispatched \in [Threads -> 0..MaxDispatch]
      BY <1>3, DispatchMoves DEF TypeOK
    <3>3. CASE u = t
      <4>1. dispatched'[u] = dispatched[t] + 1
        BY <3>2, <3>3
      <4>2. i <= dispatched'[u] <=> (i <= dispatched[t] \/ i = dispatched[t] + 1)
        BY <3>1, <4>1
      <4>3. QED
        BY <1>1, <2>4, <3>3, <4>2 DEF task
    <3>4. CASE u # t
      BY <1>1, <2>4, <3>2, <3>4 DEF task
    <3>5. QED
      BY <3>3, <3>4
  <2>7. QED
    BY <2>5, <2>6
<1>4. CASE OnAsync
  <2>1. PICK n \in 0..Len(tasks) :
          /\ round' = SubSeq(tasks, 1, n) /\ tasks' = SubSeq(tasks, n + 1, Len(tasks))
          /\ round = <<>> /\ UNCHANGED <<ran, dispatched>>
    BY <1>4, OnAsyncMoves
  <2>2. /\ Range(tasks) = Range(round') \cup Range(tasks')
        /\ IsInjective(round') /\ IsInjective(tasks')
        /\ Range(round') \cap Range(tasks') = {}
    BY <1>1, <1>2, <2>1, SplitFacts
  <2>3. Range(round) = {}
    BY <2>1, EmptyFacts
  <2>4. Placed' = Placed
    BY <2>1, <2>2, <2>3 DEF Placed
  <2>5. Once'
    BY <1>1, <2>1, <2>2, <2>3
  <2>6. QED
    BY <1>1, <2>1, <2>4, <2>5
<1>5. CASE RunTask
  <2>1. /\ round # <<>> /\ ran' = Append(ran, Head(round)) /\ round' = Tail(round)
        /\ UNCHANGED <<tasks, dispatched>>
    BY <1>5 DEF RunTask, state
  <2>2. /\ Range(round) = {Head(round)} \cup Range(round') /\ Head(round) \in Task
        /\ IsInjective(round') /\ Head(round) \notin Range(round')
    BY <1>1, <1>2, <2>1, TailFacts
  <2>3. Head(round) \notin Range(ran) /\ Head(round) \notin Range(tasks)
    BY <1>1, <2>2
  <2>4. Range(ran') = Range(ran) \cup {Head(round)} /\ IsInjective(ran')
    BY <1>1, <1>2, <2>1, <2>2, <2>3, AppendFacts
  <2>5. Placed' = Placed
    BY <2>1, <2>2, <2>4 DEF Placed
  <2>6. Once'
    BY <1>1, <2>1, <2>2, <2>3, <2>4
  <2>7. QED
    BY <1>1, <2>1, <2>5, <2>6
<1>6. CASE UNCHANGED taskVars
  BY <1>1, <1>6 DEF taskVars, Placed
<1>7. QED
  BY <1>3, <1>4, <1>5, <1>6, TaskSteps

-----------------------------------------------------------------------------
(* The order of a foreign thread's tasks.                                   *)

LEMMA OrderStep ==
  TypeOK /\ CloseInv /\ PlaceInv /\ OrderInv /\ [Next]_vars => OrderInv'
<1> SUFFICES ASSUME TypeOK, CloseInv, PlaceInv, OrderInv, [Next]_vars,
                    NEW p \in Producers, NEW i \in 1..MaxDispatch, NEW j \in 1..MaxDispatch,
                    i < j
             PROVE  (/\ \A b \in 1..Len(ran) : ran[b] = <<p, j>> => Behind(ran, b, <<p, i>>)
                     /\ \A b \in 1..Len(round) : round[b] = <<p, j>> =>
                          <<p, i>> \in Range(ran) \/ Behind(round, b, <<p, i>>)
                     /\ \A b \in 1..Len(tasks) : tasks[b] = <<p, j>> =>
                          \/ <<p, i>> \in Range(ran) \cup Range(round)
                          \/ Behind(tasks, b, <<p, i>>))'
  BY DEF OrderInv
<1> DEFINE Ran == \A b \in 1..Len(ran) : ran[b] = <<p, j>> => Behind(ran, b, <<p, i>>)
           Taken == \A b \in 1..Len(round) : round[b] = <<p, j>> =>
                      <<p, i>> \in Range(ran) \/ Behind(round, b, <<p, i>>)
           Waiting == \A b \in 1..Len(tasks) : tasks[b] = <<p, j>> =>
                        \/ <<p, i>> \in Range(ran) \cup Range(round)
                        \/ Behind(tasks, b, <<p, i>>)
<1> SUFFICES Ran' /\ Taken' /\ Waiting'
  OBVIOUS
<1>1. Ran /\ Taken /\ Waiting
  BY DEF OrderInv
<1>2. tasks \in Seq(Task) /\ round \in Seq(Task) /\ ran \in Seq(Task)
  BY DEF TypeOK
\* What an appended element leaves as it was.
<1>3. ASSUME NEW s \in Seq(Task), NEW e \in Task,
             NEW b \in 1..Len(Append(s, e)), Append(s, e)[b] = <<p, j>>,
             \A k \in 1..Len(s) : s[k] = <<p, j>> => Behind(s, k, <<p, i>>),
             e = <<p, j>> => <<p, i>> \in Range(s)
      PROVE  Behind(Append(s, e), b, <<p, i>>)
  <2>1. /\ Len(s) \in Nat /\ \A k \in 1..Len(s) : Append(s, e)[k] = s[k]
        /\ b \in 1..Len(s) \/ (b = Len(s) + 1 /\ Append(s, e)[b] = e)
    BY <1>3, AppendFacts
  <2>2. PICK a \in 1..b - 1 : a \in 1..Len(s) /\ s[a] = <<p, i>>
    <3>1. CASE b \in 1..Len(s)
      <4>1. PICK a \in 1..b - 1 : s[a] = <<p, i>>
        BY <1>3, <2>1, <3>1 DEF Behind
      <4>2. QED
        BY <2>1, <3>1, <4>1
    <3>2. CASE b = Len(s) + 1 /\ Append(s, e)[b] = e
      <4>1. PICK a \in 1..Len(s) : s[a] = <<p, i>>
        BY <1>3, <3>2, RangeFacts
      <4>2. QED
        BY <2>1, <3>2, <4>1
    <3>3. QED
      BY <2>1, <3>1, <3>2
  <2>3. QED
    BY <2>1, <2>2 DEF Behind
<1>4. ASSUME NEW t \in Threads, Dispatch(t) PROVE Ran' /\ Taken' /\ Waiting'
  <2> DEFINE task == <<t, dispatched[t] + 1>>
  <2>1. /\ task \in Task \ Placed /\ round' = round
        /\ \/ t = Loop /\ ran' = Append(ran, task) /\ tasks' = tasks
           \/ tasks' = Append(tasks, task) /\ ran' = ran
    BY <1>4, DispatchMoves
  <2>2. CASE t = Loop /\ ran' = Append(ran, task) /\ tasks' = tasks
    <3>1. task # <<p, j>>
      BY <2>2, UvAssumption
    <3>2. Ran'
      BY <1>1, <1>2, <1>3, <2>1, <2>2, <3>1
    <3>3. Range(ran') = Range(ran) \cup {task}
      <4>1. task \in Task
        BY <2>1
      <4> HIDE DEF task
      <4>2. QED
        BY <1>2, <2>2, <4>1, AppendFacts
    <3>4. QED
      BY <1>1, <2>1, <2>2, <3>2, <3>3
  <2>3. CASE tasks' = Append(tasks, task) /\ ran' = ran
    <3>1. task = <<p, j>> => <<p, i>> \in Placed
      <4>1. p \in Threads /\ (task = <<p, j>> => i <= dispatched[p])
        BY DEF TypeOK, Threads
      <4>2. QED
        BY <4>1 DEF PlaceInv
    <3>2. Waiting'
      <4> SUFFICES ASSUME <<p, i>> \notin Range(ran) \cup Range(round) PROVE Waiting'
        BY <2>1, <2>3
      <4>1. \A k \in 1..Len(tasks) : tasks[k] = <<p, j>> => Behind(tasks, k, <<p, i>>)
        BY <1>1
      <4>2. task = <<p, j>> => <<p, i>> \in Range(tasks)
        BY <3>1 DEF Placed
      <4>3. QED
        BY <1>2, <1>3, <2>1, <2>3, <4>1, <4>2
    <3>3. QED
      BY <1>1, <2>1, <2>3, <3>2
  <2>4. QED
    BY <2>1, <2>2, <2>3
<1>5. CASE OnAsync
  <2>1. PICK n \in 0..Len(tasks) :
          /\ round' = SubSeq(tasks, 1, n) /\ tasks' = SubSeq(tasks, n + 1, Len(tasks))
          /\ round = <<>> /\ UNCHANGED <<ran, dispatched>>
    BY <1>5, OnAsyncMoves
  <2>2. /\ Len(round') = n /\ \A k \in 1..n : round'[k] = tasks[k]
        /\ Len(tasks') = Len(tasks) - n
        /\ \A k \in 1..Len(tasks) - n : tasks'[k] = tasks[n + k]
        /\ round' \in Seq(Task)
    <3>1. tasks \in Seq(Task)
      BY <1>2
    <3>2. /\ SubSeq(tasks, 1, n) \in Seq(Task) /\ Len(SubSeq(tasks, 1, n)) = n
          /\ \A k \in 1..n : SubSeq(tasks, 1, n)[k] = tasks[k]
          /\ Len(SubSeq(tasks, n + 1, Len(tasks))) = Len(tasks) - n
          /\ \A k \in 1..Len(tasks) - n : SubSeq(tasks, n + 1, Len(tasks))[k] = tasks[n + k]
      BY <3>1, SplitFacts
    <3>3. QED
      BY <2>1, <3>2
  <2>3. Range(round) = {} /\ Len(tasks) \in Nat
    BY <1>2, <2>1, EmptyFacts, RangeFacts
  <2>4. Taken'
    <3> SUFFICES ASSUME NEW b \in 1..n, tasks[b] = <<p, j>>, <<p, i>> \notin Range(ran)
                 PROVE  Behind(round', b, <<p, i>>)
      BY <2>1, <2>2
    <3>1. b \in 1..Len(tasks)
      BY <2>3
    <3>2. PICK a \in 1..b - 1 : tasks[a] = <<p, i>>
      BY <1>1, <2>3, <3>1 DEF Behind
    <3>3. a \in 1..n
      OBVIOUS
    <3>4. round'[a] = <<p, i>>
      BY <2>2, <3>2, <3>3
    <3>5. QED
      BY <3>4 DEF Behind
  <2>5. Waiting'
    <3> SUFFICES ASSUME NEW b \in 1..Len(tasks) - n, tasks[n + b] = <<p, j>>,
                        <<p, i>> \notin Range(ran) \cup Range(round')
                 PROVE  Behind(tasks', b, <<p, i>>)
      BY <2>1, <2>2
    <3>1. n + b \in 1..Len(tasks)
      BY <2>3
    <3>2. PICK a \in 1..(n + b) - 1 : tasks[a] = <<p, i>>
      <4>1. <<p, i>> \notin Range(ran) \cup Range(round)
        BY <2>3
      <4>2. Behind(tasks, n + b, <<p, i>>)
        BY <1>1, <3>1, <4>1
      <4>3. QED
        BY <4>2 DEF Behind
    <3>3. a \notin 1..n
      <4>1. \A k \in 1..n : round'[k] \in Range(round')
        BY <2>2, RangeFacts
      <4>2. QED
        BY <2>2, <3>2, <4>1
    <3>4. a - n \in 1..b - 1 /\ a - n \in 1..Len(tasks) - n /\ n + (a - n) = a
      BY <2>3, <3>3
    <3>5. tasks'[a - n] = <<p, i>>
      BY <2>2, <3>2, <3>4
    <3>6. QED
      BY <3>4, <3>5 DEF Behind
  <2>6. QED
    BY <1>1, <2>1, <2>4, <2>5
<1>6. CASE RunTask
  <2>1. /\ round # <<>> /\ ran' = Append(ran, Head(round)) /\ round' = Tail(round)
        /\ UNCHANGED <<tasks, dispatched>>
    BY <1>6 DEF RunTask, state
  <2>2. /\ Len(round) \in Nat \ {0} /\ Head(round) = round[1] /\ Head(round) \in Task
        /\ Len(round') = Len(round) - 1
        /\ \A k \in 1..Len(round) - 1 : round'[k] = round[k + 1]
        /\ Range(round) = {Head(round)} \cup Range(round')
    BY <1>2, <2>1, TailFacts
  <2>3. Range(ran') = Range(ran) \cup {Head(round)}
    BY <1>2, <2>1, <2>2, AppendFacts
  <2>4. Ran'
    <3>1. Head(round) = <<p, j>> => <<p, i>> \in Range(ran)
      BY <1>1, <2>2 DEF Behind
    <3>2. QED
      BY <1>1, <1>2, <1>3, <2>1, <2>2, <3>1
  <2>5. Taken'
    <3> SUFFICES ASSUME NEW b \in 1..Len(round) - 1, round[b + 1] = <<p, j>>,
                        <<p, i>> \notin Range(ran')
                 PROVE  Behind(round', b, <<p, i>>)
      BY <2>2
    <3>1. b + 1 \in 1..Len(round) /\ (b + 1) - 1 = b
      BY <2>2
    <3>2. PICK a \in 1..b : round[a] = <<p, i>>
      BY <1>1, <2>3, <3>1 DEF Behind
    <3>3. a # 1
      BY <2>2, <2>3, <3>2
    <3>4. a - 1 \in 1..b - 1 /\ a - 1 \in 1..Len(round) - 1 /\ (a - 1) + 1 = a
      BY <2>2, <3>3
    <3>5. QED
      BY <2>2, <3>2, <3>4 DEF Behind
  <2>6. QED
    BY <1>1, <2>1, <2>2, <2>3, <2>4, <2>5
<1>7. CASE UNCHANGED taskVars
  BY <1>1, <1>7 DEF taskVars, Behind
<1>8. QED
  BY <1>4, <1>5, <1>6, <1>7, TaskSteps

-----------------------------------------------------------------------------
\* The inductive invariant holds in every reachable state.
THEOREM Invariance == Spec => []IInv
<1>1. IInv /\ [Next]_vars => IInv'
  BY TypeStep, CloseInvStep, PlaceStep, OrderStep DEF IInv
<1>2. QED
  BY InitIInv, <1>1, PTL DEF Spec

\* Tasks run once and in their thread's order, and the handle is closed only when all
\* of them have run, for every number of threads, of tasks and every round size.
THEOREM TasksSurviveClose == Spec => []NoTaskLost
<1>1. IInv => NoTaskLost
  <2> SUFFICES ASSUME IInv PROVE NoTaskLost
    OBVIOUS
  <2>1. handle # "open" => Placed = Range(ran)
    BY EmptyFacts DEF IInv, CloseInv, Placed
  <2>2. handle # "open" => \A t \in Threads, i \in 1..MaxDispatch :
                             i <= dispatched[t] => <<t, i>> \in Range(ran)
    BY <2>1 DEF IInv, PlaceInv
  <2>3. \A p \in Producers, i, j \in 1..MaxDispatch, b \in 1..Len(ran) :
          i < j /\ ran[b] = <<p, j>> => \E a \in 1..b - 1 : ran[a] = <<p, i>>
    BY DEF IInv, OrderInv, Behind
  <2>4. QED
    BY <2>2, <2>3 DEF IInv, PlaceInv, NoTaskLost
<1>2. QED
  BY Invariance, <1>1, PTL

\* If close() is called on the loop thread, nothing touches state_t after on_closed
\* deleted it.
THEOREM DeletedLast == ASSUME CloseOnLoop PROVE Spec => []NoUseAfterFree
<1>1. IInv => NoUseAfterFree
  BY DEF IInv, CloseInv, NoUseAfterFree
<1>2. QED
  BY Invariance, <1>1, PTL
=============================================================================
