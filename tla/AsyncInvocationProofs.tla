----------------------- MODULE AsyncInvocationProofs -----------------------
(***************************************************************************)
(* For any number of token copies and any schedule, the safety properties   *)
(* of AsyncInvocation.  Each flag of operation_state is a claim that one     *)
(* thread makes under the mutex; the parts of IInv say what the claimant     *)
(* then owns, and each part has one lemma that every step preserves it.      *)
(***************************************************************************)
EXTENDS FluxAwaitable, TLAPS

\* A cold invocation, which owns everything and claims nothing, satisfies IInv.
LEMMA InitIInv == Init => IInv
<1> SUFFICES ASSUME Init PROVE IInv
  OBVIOUS
<1> USE ThreadsAssumption DEF Threads
<1>1. TypeOK
  BY DEF Init, TypeOK, Labels
<1>2. SubmissionInv
  BY DEF Init, SubmissionInv, Delivering, Resetting
<1>3. DeliveryInv
  <2>1. \A t \in Threads : ~consume[t] /\ pc[t] \in {"cold", "none"}
    BY DEF Init
  <2>2. handler /\ deliveries = 0 /\ outcome = None
    BY DEF Init
  <2>3. QED
    BY <2>1, <2>2 DEF DeliveryInv
<1>4. RetirementInv
  BY DEF Init, RetirementInv, Alive, Retiring, Delivering
<1>5. CleanupInv
  BY DEF Init, CleanupInv, Alive, Resetting
<1>6. RejectionInv
  BY DEF Init, RejectionInv, NoFinishYet
<1>7. ObligationInv
  BY DEF Init, ObligationInv
<1>8. QED
  BY <1>1, <1>2, <1>3, <1>4, <1>5, <1>6, <1>7 DEF IInv

\* TypeOK in two halves: the Boolean flags and slots, and the rest.
FlagTypes ==
  /\ delivered \in BOOLEAN /\ retired \in BOOLEAN
  /\ submitting \in BOOLEAN /\ cleaned \in BOOLEAN
  /\ context \in BOOLEAN /\ operation \in BOOLEAN
  /\ handler \in BOOLEAN /\ access \in BOOLEAN
  /\ aborted \in BOOLEAN

ThreadTypes ==
  /\ pc \in [Threads -> Labels]
  /\ call \in [Threads -> {"none", "finish", "detach"}]
  /\ result \in [Threads -> Threads \cup {None}]
  /\ consume \in [Threads -> BOOLEAN]
  /\ releaseAccess \in [Threads -> BOOLEAN]
  /\ pendingDetach \in Callers \cup {None}
  /\ verdict \in {"none", "accepted", "rejected"}
  /\ outcome \in Threads \cup {None}
  /\ deliveries \in Nat

\* Every step keeps the flags and the slots of operation_state Boolean.
LEMMA FlagTypesStep == FlagTypes /\ [Next]_vars => FlagTypes'
<1> SUFFICES ASSUME FlagTypes, [Next]_vars PROVE FlagTypes'
  OBVIOUS
<1> USE DEF FlagTypes, flags, slots, locals, ghosts
<1>1. CASE Start
  BY <1>1, Zenon DEF Start
<1>2. CASE Discard
  BY <1>2, Zenon DEF Discard
<1>3. CASE Accept
  BY <1>3, Zenon DEF Accept
<1>4. CASE Reject
  BY <1>4, Zenon DEF Reject
<1>5. CASE RejectCheck
  BY <1>5, Zenon DEF RejectCheck
<1>6. CASE Submitted
  BY <1>6, Zenon DEF Submitted
<1>7. CASE StartAgain
  BY <1>7, Zenon DEF StartAgain
<1>8. ASSUME NEW c \in Callers, Finish(c) PROVE FlagTypes'
  BY <1>8, Zenon DEF Finish
<1>9. ASSUME NEW c \in Callers, Detach(c) PROVE FlagTypes'
  BY <1>9, Zenon DEF Detach
<1>10. ASSUME NEW c \in Callers, Drop(c) PROVE FlagTypes'
  BY <1>10, Zenon DEF Drop
<1>11. ASSUME NEW t \in Threads, DeliverLock(t) PROVE FlagTypes'
  BY <1>11, Zenon DEF DeliverLock
<1>12. ASSUME NEW t \in Threads, TakeHandler(t) PROVE FlagTypes'
  BY <1>12, Zenon DEF TakeHandler
<1>13. ASSUME NEW t \in Threads, ReleaseAccess(t) PROVE FlagTypes'
  BY <1>13, Zenon DEF ReleaseAccess
<1>14. ASSUME NEW t \in Threads, InvokeCallback(t) PROVE FlagTypes'
  BY <1>14, Zenon DEF InvokeCallback
<1>15. ASSUME NEW t \in Threads, CallbackReturns(t) PROVE FlagTypes'
  BY <1>15, Zenon DEF CallbackReturns
<1>16. ASSUME NEW t \in Threads, CallbackThrows(t) PROVE FlagTypes'
  BY <1>16, Zenon DEF CallbackThrows
<1>17. ASSUME NEW t \in Threads, CleanupLock(t) PROVE FlagTypes'
  BY <1>17, Zenon DEF CleanupLock
<1>18. ASSUME NEW t \in Threads, ResetOperation(t) PROVE FlagTypes'
  BY <1>18, Zenon DEF ResetOperation
<1>19. ASSUME NEW t \in Threads, ResetContext(t) PROVE FlagTypes'
  BY <1>19, Zenon DEF ResetContext
<1>20. ASSUME NEW t \in Threads, ReleaseState(t) PROVE FlagTypes'
  BY <1>20, Zenon DEF ReleaseState
<1>21. CASE Finished
  BY <1>21, Zenon DEF Finished, vars
<1>22. CASE UNCHANGED vars
  BY <1>22, Zenon DEF vars
<1>23. QED
  BY <1>1, <1>2, <1>3, <1>4, <1>5, <1>6, <1>7, <1>8, <1>9, <1>10, <1>11,
     <1>12, <1>13, <1>14, <1>15, <1>16, <1>17, <1>18, <1>19, <1>20, <1>21, <1>22
  DEF Next, Step

\* Every step keeps each thread's place and locals, and the results, typed.
LEMMA ThreadTypesStep == IInv /\ [Next]_vars => ThreadTypes'
<1> SUFFICES ASSUME IInv, [Next]_vars PROVE ThreadTypes'
  OBVIOUS
<1> ThreadTypes
  BY DEF IInv, TypeOK, ThreadTypes
<1> USE ThreadsAssumption DEF ThreadTypes, Threads, At, Goto, Retires, Provisional,
           DeferredDetach, flags, slots, locals, ghosts, Labels
<1>1. ClaimsHandler \in BOOLEAN
  BY Zenon DEF ClaimsHandler
<1>2. ASSUME NEW t \in Threads, Return(t)
      PROVE  pc' \in [Threads -> Labels] /\ call' \in [Threads -> {"none", "finish", "detach"}]
  BY <1>2 DEF Return
<1>3. CASE Start
  BY <1>3 DEF Start
<1>4. CASE Discard
  BY <1>4 DEF Discard
<1>5. CASE Accept
  BY <1>5 DEF Accept
<1>6. CASE Reject
  BY <1>6 DEF Reject
<1>7. CASE RejectCheck
  <2>1. CASE retired
    BY <1>7, <2>1 DEF RejectCheck
  <2>2. CASE ~retired
    BY <1>7, <2>2 DEF RejectCheck
  <2>3. QED
    BY <2>1, <2>2
<1>8. CASE Submitted
  <2>1. CASE pendingDetach # None
    BY <1>8, <2>1 DEF Submitted
  <2>2. CASE pendingDetach = None
    BY <1>8, <2>2 DEF Submitted
  <2>3. QED
    BY <2>1, <2>2
<1>9. CASE StartAgain
  BY <1>9 DEF StartAgain
<1>10. ASSUME NEW c \in Callers, Finish(c) PROVE ThreadTypes'
  BY <1>10 DEF Finish
<1>11. ASSUME NEW c \in Callers, Detach(c) PROVE ThreadTypes'
  BY <1>11 DEF Detach
<1>12. ASSUME NEW c \in Callers, Drop(c) PROVE ThreadTypes'
  BY <1>12 DEF Drop
<1>13. ASSUME NEW t \in Threads, DeliverLock(t) PROVE ThreadTypes'
  <2>1. CASE call[t] = "detach" /\ submitting
    <3>1. t \in Callers /\ result[t] = t
      BY <1>13, <2>1 DEF DeliverLock, IInv, SubmissionInv, Delivering, Resetting
    <3>2. QED
      BY <1>2, <1>13, <2>1, <3>1 DEF DeliverLock
  <2>2. CASE call[t] = "finish" /\ retired
    BY <1>2, <1>13, <2>2 DEF DeliverLock
  <2>3. CASE call[t] = "finish" /\ ~retired
    <3>1. /\ pc' = [pc EXCEPT ![t] = "take"]
          /\ consume' = [consume EXCEPT ![t] = ClaimsHandler]
          /\ releaseAccess' = [releaseAccess EXCEPT ![t] = Retires(t)]
          /\ UNCHANGED <<call, pendingDetach, result, verdict, outcome, deliveries>>
      BY <1>13, <2>3 DEF DeliverLock
    <3>2. Retires(t) \in BOOLEAN
      BY Zenon DEF Retires
    <3>3. QED
      BY <1>1, <3>1, <3>2
  <2>4. CASE call[t] = "detach" /\ ~submitting
    <3>1. /\ pc' = [pc EXCEPT ![t] = "take"]
          /\ consume' = [consume EXCEPT ![t] = ClaimsHandler]
          /\ releaseAccess' = [releaseAccess EXCEPT ![t] = Retires(t)]
          /\ UNCHANGED <<call, pendingDetach, result, verdict, outcome, deliveries>>
      BY <1>13, <2>4 DEF DeliverLock
    <3>2. Retires(t) \in BOOLEAN
      BY Zenon DEF Retires
    <3>3. QED
      BY <1>1, <3>1, <3>2
  <2>5. QED
    BY <1>13, <2>1, <2>2, <2>3, <2>4 DEF DeliverLock, IInv, SubmissionInv
<1>14. ASSUME NEW t \in Threads, TakeHandler(t) PROVE ThreadTypes'
  BY <1>14 DEF TakeHandler
<1>15. ASSUME NEW t \in Threads, ReleaseAccess(t) PROVE ThreadTypes'
  BY <1>15 DEF ReleaseAccess
<1>16. ASSUME NEW t \in Threads, InvokeCallback(t) PROVE ThreadTypes'
  BY <1>16 DEF InvokeCallback
<1>17. ASSUME NEW t \in Threads, CallbackReturns(t) PROVE ThreadTypes'
  BY <1>17 DEF CallbackReturns
<1>18. ASSUME NEW t \in Threads, CallbackThrows(t) PROVE ThreadTypes'
  BY <1>18 DEF CallbackThrows
<1>19. ASSUME NEW t \in Threads, CleanupLock(t) PROVE ThreadTypes'
  <2>1. CASE ~MayCleanUp
    BY <1>2, <1>19, <2>1 DEF CleanupLock
  <2>2. CASE MayCleanUp
    BY <1>19, <2>2 DEF CleanupLock
  <2>3. QED
    BY <2>1, <2>2
<1>20. ASSUME NEW t \in Threads, ResetOperation(t) PROVE ThreadTypes'
  BY <1>20 DEF ResetOperation
<1>21. ASSUME NEW t \in Threads, ResetContext(t) PROVE ThreadTypes'
  BY <1>2, <1>21 DEF ResetContext
<1>22. ASSUME NEW t \in Threads, ReleaseState(t) PROVE ThreadTypes'
  BY <1>22 DEF ReleaseState
<1>23. CASE Finished
  BY <1>23 DEF Finished, vars
<1>24. CASE UNCHANGED vars
  BY <1>24 DEF vars
<1>25. QED
  BY <1>3, <1>4, <1>5, <1>6, <1>7, <1>8, <1>9, <1>10, <1>11, <1>12, <1>13,
     <1>14, <1>15, <1>16, <1>17, <1>18, <1>19, <1>20, <1>21, <1>22, <1>23, <1>24
  DEF Next, Step

\* Every step of start(), of a token call and of cleanup() keeps the types.
LEMMA TypeStep == IInv /\ [Next]_vars => TypeOK'
<1>1. IInv => FlagTypes
  BY DEF IInv, TypeOK, FlagTypes
<1>2. FlagTypes' /\ ThreadTypes' => TypeOK'
  BY DEF TypeOK, FlagTypes, ThreadTypes
<1>3. QED
  BY <1>1, <1>2, FlagTypesStep, ThreadTypesStep

\* "submitting" follows the starter's path through start().
LEMMA SubmissionInvStep == IInv /\ [Next]_vars => SubmissionInv'
<1> SUFFICES ASSUME IInv, [Next]_vars PROVE SubmissionInv'
  OBVIOUS
<1> USE ThreadsAssumption DEF IInv, TypeOK, SubmissionInv, Threads, At, Goto, Retires, Provisional,
           ClaimsHandler, DeferredDetach, MayCleanUp,
           flags, slots, locals, ghosts, Delivering, Resetting
<1>1. CASE Start
  <2>1. /\ pc[Starter] = "cold"
        /\ pc'[Starter] = "body"
        /\ \A c \in Callers : pc'[c] = "idle"
    BY <1>1 DEF Start
  <2>2. UNCHANGED <<locals, flags, slots, ghosts>>
    BY <1>1 DEF Start
  <2>3. QED
    BY <2>1, <2>2 DEF SubmissionInv
<1>2. CASE Discard
  BY <1>2 DEF Discard
<1>3. CASE Accept
  BY <1>3 DEF Accept
<1>4. CASE Reject
  BY <1>4 DEF Reject
<1>5. CASE RejectCheck
  BY <1>5 DEF RejectCheck
<1>6. CASE Submitted
  BY <1>6 DEF Submitted
<1>7. CASE StartAgain
  BY <1>7 DEF StartAgain
<1>8. ASSUME NEW c \in Callers, Finish(c) PROVE SubmissionInv'
  BY <1>8 DEF Finish
<1>9. ASSUME NEW c \in Callers, Detach(c) PROVE SubmissionInv'
  BY <1>9 DEF Detach
<1>10. ASSUME NEW c \in Callers, Drop(c) PROVE SubmissionInv'
  BY <1>10 DEF Drop
<1>11. ASSUME NEW t \in Threads, DeliverLock(t) PROVE SubmissionInv'
  BY <1>11 DEF DeliverLock, Return
<1>12. ASSUME NEW t \in Threads, TakeHandler(t) PROVE SubmissionInv'
  BY <1>12 DEF TakeHandler
<1>13. ASSUME NEW t \in Threads, ReleaseAccess(t) PROVE SubmissionInv'
  BY <1>13 DEF ReleaseAccess
<1>14. ASSUME NEW t \in Threads, InvokeCallback(t) PROVE SubmissionInv'
  BY <1>14 DEF InvokeCallback
<1>15. ASSUME NEW t \in Threads, CallbackReturns(t) PROVE SubmissionInv'
  BY <1>15 DEF CallbackReturns
<1>16. ASSUME NEW t \in Threads, CallbackThrows(t) PROVE SubmissionInv'
  BY <1>16 DEF CallbackThrows
<1>17. ASSUME NEW t \in Threads, CleanupLock(t) PROVE SubmissionInv'
  BY <1>17 DEF CleanupLock, Return
<1>18. ASSUME NEW t \in Threads, ResetOperation(t) PROVE SubmissionInv'
  BY <1>18 DEF ResetOperation
<1>19. ASSUME NEW t \in Threads, ResetContext(t) PROVE SubmissionInv'
  BY <1>19 DEF ResetContext, Return
<1>20. ASSUME NEW t \in Threads, ReleaseState(t) PROVE SubmissionInv'
  BY <1>20 DEF ReleaseState
<1>21. CASE Finished
  BY <1>21 DEF Finished, vars
<1>22. CASE UNCHANGED vars
  BY <1>22 DEF vars
<1>23. QED
  BY <1>1, <1>2, <1>3, <1>4, <1>5, <1>6, <1>7, <1>8, <1>9, <1>10, <1>11,
     <1>12, <1>13, <1>14, <1>15, <1>16, <1>17, <1>18, <1>19, <1>20, <1>21, <1>22
  DEF Next, Step

\* The claim of "delivered" stays with one thread and the handler with it.
LEMMA DeliveryStep == IInv /\ [Next]_vars => DeliveryInv'
<1> SUFFICES ASSUME IInv, [Next]_vars PROVE DeliveryInv'
  OBVIOUS
<1> USE ThreadsAssumption DEF IInv, TypeOK, DeliveryInv, Threads, At, Goto, Retires, Provisional,
           ClaimsHandler, DeferredDetach, MayCleanUp,
           flags, slots, locals, ghosts, Alive, Delivering
<1>1. CASE Start
  <2>1. /\ pc[Starter] = "cold"
        /\ pc'[Starter] = "body"
        /\ \A c \in Callers : pc'[c] = "idle"
    BY <1>1 DEF Start
  <2>2. UNCHANGED <<locals, flags, slots, ghosts>>
    BY <1>1 DEF Start
  <2>3. QED
    BY <2>1, <2>2 DEF SubmissionInv
<1>2. CASE Discard
  <2>1. /\ pc[Starter] = "cold"
        /\ \A t \in Threads : pc'[t] = "done"
    BY <1>2 DEF Discard
  <2>2. UNCHANGED <<locals, flags, ghosts>>
    BY <1>2 DEF Discard
  <2>3. \A t \in Threads : ~consume[t]
    BY <2>1 DEF SubmissionInv
  <2>4. QED
    BY <2>1, <2>2, <2>3
<1>3. CASE Accept
  BY <1>3 DEF Accept
<1>4. CASE Reject
  BY <1>4 DEF Reject
<1>5. CASE RejectCheck
  BY <1>5 DEF RejectCheck
<1>6. CASE Submitted
  BY <1>6 DEF Submitted
<1>7. CASE StartAgain
  BY <1>7 DEF StartAgain
<1>8. ASSUME NEW c \in Callers, Finish(c) PROVE DeliveryInv'
  BY <1>8 DEF Finish
<1>9. ASSUME NEW c \in Callers, Detach(c) PROVE DeliveryInv'
  BY <1>9 DEF Detach
<1>10. ASSUME NEW c \in Callers, Drop(c) PROVE DeliveryInv'
  BY <1>10 DEF Drop
<1>11. ASSUME NEW t \in Threads, DeliverLock(t) PROVE DeliveryInv'
  BY <1>11 DEF DeliverLock, Return
<1>12. ASSUME NEW t \in Threads, TakeHandler(t) PROVE DeliveryInv'
  BY <1>12 DEF TakeHandler
<1>13. ASSUME NEW t \in Threads, ReleaseAccess(t) PROVE DeliveryInv'
  BY <1>13 DEF ReleaseAccess
<1>14. ASSUME NEW t \in Threads, InvokeCallback(t) PROVE DeliveryInv'
  BY <1>14 DEF InvokeCallback
<1>15. ASSUME NEW t \in Threads, CallbackReturns(t) PROVE DeliveryInv'
  BY <1>15 DEF CallbackReturns
<1>16. ASSUME NEW t \in Threads, CallbackThrows(t) PROVE DeliveryInv'
  BY <1>16 DEF CallbackThrows
<1>17. ASSUME NEW t \in Threads, CleanupLock(t) PROVE DeliveryInv'
  BY <1>17 DEF CleanupLock, Return
<1>18. ASSUME NEW t \in Threads, ResetOperation(t) PROVE DeliveryInv'
  BY <1>18 DEF ResetOperation
<1>19. ASSUME NEW t \in Threads, ResetContext(t) PROVE DeliveryInv'
  BY <1>19 DEF ResetContext, Return
<1>20. ASSUME NEW t \in Threads, ReleaseState(t) PROVE DeliveryInv'
  BY <1>20 DEF ReleaseState
<1>21. CASE Finished
  BY <1>21 DEF Finished, vars
<1>22. CASE UNCHANGED vars
  BY <1>22 DEF vars
<1>23. QED
  BY <1>1, <1>2, <1>3, <1>4, <1>5, <1>6, <1>7, <1>8, <1>9, <1>10, <1>11,
     <1>12, <1>13, <1>14, <1>15, <1>16, <1>17, <1>18, <1>19, <1>20, <1>21, <1>22
  DEF Next, Step

\* The claim of "retired" stays with one finish() and takes the access owner.
LEMMA RetirementStep == IInv /\ [Next]_vars => RetirementInv'
<1> SUFFICES ASSUME IInv, [Next]_vars PROVE RetirementInv'
  OBVIOUS
<1> USE ThreadsAssumption DEF IInv, TypeOK, RetirementInv, Threads, At, Goto, Retires, Provisional,
           ClaimsHandler, DeferredDetach, MayCleanUp,
           flags, slots, locals, ghosts,
           Alive, Delivering, Retiring, SubmissionInv
<1>1. CASE Start
  BY <1>1 DEF Start
<1>2. CASE Discard
  BY <1>2 DEF Discard
<1>3. CASE Accept
  BY <1>3 DEF Accept
<1>4. CASE Reject
  BY <1>4 DEF Reject
<1>5. CASE RejectCheck
  BY <1>5 DEF RejectCheck
<1>6. CASE Submitted
  BY <1>6 DEF Submitted
<1>7. CASE StartAgain
  BY <1>7 DEF StartAgain
<1>8. ASSUME NEW c \in Callers, Finish(c) PROVE RetirementInv'
  BY <1>8 DEF Finish
<1>9. ASSUME NEW c \in Callers, Detach(c) PROVE RetirementInv'
  BY <1>9 DEF Detach
<1>10. ASSUME NEW c \in Callers, Drop(c) PROVE RetirementInv'
  BY <1>10 DEF Drop
<1>11. ASSUME NEW t \in Threads, DeliverLock(t) PROVE RetirementInv'
  BY <1>11 DEF DeliverLock, Return
<1>12. ASSUME NEW t \in Threads, TakeHandler(t) PROVE RetirementInv'
  BY <1>12 DEF TakeHandler
<1>13. ASSUME NEW t \in Threads, ReleaseAccess(t) PROVE RetirementInv'
  BY <1>13 DEF ReleaseAccess
<1>14. ASSUME NEW t \in Threads, InvokeCallback(t) PROVE RetirementInv'
  BY <1>14 DEF InvokeCallback
<1>15. ASSUME NEW t \in Threads, CallbackReturns(t) PROVE RetirementInv'
  BY <1>15 DEF CallbackReturns
<1>16. ASSUME NEW t \in Threads, CallbackThrows(t) PROVE RetirementInv'
  BY <1>16 DEF CallbackThrows
<1>17. ASSUME NEW t \in Threads, CleanupLock(t) PROVE RetirementInv'
  BY <1>17 DEF CleanupLock, Return
<1>18. ASSUME NEW t \in Threads, ResetOperation(t) PROVE RetirementInv'
  BY <1>18 DEF ResetOperation
<1>19. ASSUME NEW t \in Threads, ResetContext(t) PROVE RetirementInv'
  BY <1>19 DEF ResetContext, Return
<1>20. ASSUME NEW t \in Threads, ReleaseState(t) PROVE RetirementInv'
  BY <1>20 DEF ReleaseState
<1>21. CASE Finished
  BY <1>21 DEF Finished, vars
<1>22. CASE UNCHANGED vars
  BY <1>22 DEF vars
<1>23. QED
  BY <1>1, <1>2, <1>3, <1>4, <1>5, <1>6, <1>7, <1>8, <1>9, <1>10, <1>11,
     <1>12, <1>13, <1>14, <1>15, <1>16, <1>17, <1>18, <1>19, <1>20, <1>21, <1>22
  DEF Next, Step

\* The claim of "cleaned" stays with one thread, and someone always makes it.
LEMMA CleanupStep == IInv /\ [Next]_vars => CleanupInv'
<1> SUFFICES ASSUME IInv, [Next]_vars PROVE CleanupInv'
  OBVIOUS
<1> USE ThreadsAssumption DEF IInv, TypeOK, CleanupInv, Threads, At, Goto, Retires, Provisional,
           ClaimsHandler, DeferredDetach, MayCleanUp,
           flags, slots, locals, ghosts,
           Alive, Resetting, Delivering, WillCleanUp, SubmissionInv, RetirementInv
<1>1. CASE Start
  BY <1>1 DEF Start
<1>2. CASE Discard
  BY <1>2 DEF Discard
<1>3. CASE Accept
  BY <1>3 DEF Accept
<1>4. CASE Reject
  BY <1>4 DEF Reject
<1>5. CASE RejectCheck
  BY <1>5 DEF RejectCheck
<1>6. CASE Submitted
  BY <1>6 DEF Submitted
<1>7. CASE StartAgain
  BY <1>7 DEF StartAgain
<1>8. ASSUME NEW c \in Callers, Finish(c) PROVE CleanupInv'
  BY <1>8 DEF Finish
<1>9. ASSUME NEW c \in Callers, Detach(c) PROVE CleanupInv'
  BY <1>9 DEF Detach
<1>10. ASSUME NEW c \in Callers, Drop(c) PROVE CleanupInv'
  BY <1>10 DEF Drop
<1>11. ASSUME NEW t \in Threads, DeliverLock(t) PROVE CleanupInv'
  BY <1>11 DEF DeliverLock, Return
<1>12. ASSUME NEW t \in Threads, TakeHandler(t) PROVE CleanupInv'
  BY <1>12 DEF TakeHandler
<1>13. ASSUME NEW t \in Threads, ReleaseAccess(t) PROVE CleanupInv'
  BY <1>13 DEF ReleaseAccess
<1>14. ASSUME NEW t \in Threads, InvokeCallback(t) PROVE CleanupInv'
  BY <1>14 DEF InvokeCallback
<1>15. ASSUME NEW t \in Threads, CallbackReturns(t) PROVE CleanupInv'
  BY <1>15 DEF CallbackReturns
<1>16. ASSUME NEW t \in Threads, CallbackThrows(t) PROVE CleanupInv'
  BY <1>16 DEF CallbackThrows
<1>17. ASSUME NEW t \in Threads, CleanupLock(t) PROVE CleanupInv'
  BY <1>17 DEF CleanupLock, Return
<1>18. ASSUME NEW t \in Threads, ResetOperation(t) PROVE CleanupInv'
  BY <1>18 DEF ResetOperation
<1>19. ASSUME NEW t \in Threads, ResetContext(t) PROVE CleanupInv'
  BY <1>19 DEF ResetContext, Return
<1>20. ASSUME NEW t \in Threads, ReleaseState(t) PROVE CleanupInv'
  BY <1>20 DEF ReleaseState
<1>21. CASE Finished
  BY <1>21 DEF Finished, vars
<1>22. CASE UNCHANGED vars
  BY <1>22 DEF vars
<1>23. QED
  BY <1>1, <1>2, <1>3, <1>4, <1>5, <1>6, <1>7, <1>8, <1>9, <1>10, <1>11,
     <1>12, <1>13, <1>14, <1>15, <1>16, <1>17, <1>18, <1>19, <1>20, <1>21, <1>22
  DEF Next, Step

\* Before the first finish(), only the rejection can deliver during submission.
LEMMA RejectionStep == IInv /\ [Next]_vars => RejectionInv'
<1> SUFFICES ASSUME IInv, [Next]_vars PROVE RejectionInv'
  OBVIOUS
<1> USE ThreadsAssumption DEF IInv, TypeOK, RejectionInv, Threads, At, Goto, Retires, Provisional,
           ClaimsHandler, DeferredDetach, MayCleanUp,
           flags, slots, locals, ghosts,
           NoFinishYet, Delivering, Resetting, SubmissionInv, DeliveryInv, RetirementInv
<1>1. CASE Start
  BY <1>1 DEF Start
<1>2. CASE Discard
  BY <1>2 DEF Discard
<1>3. CASE Accept
  BY <1>3 DEF Accept
<1>4. CASE Reject
  BY <1>4 DEF Reject
<1>5. CASE RejectCheck
  BY <1>5 DEF RejectCheck
<1>6. CASE Submitted
  BY <1>6 DEF Submitted
<1>7. CASE StartAgain
  BY <1>7 DEF StartAgain
<1>8. ASSUME NEW c \in Callers, Finish(c) PROVE RejectionInv'
  BY <1>8 DEF Finish
<1>9. ASSUME NEW c \in Callers, Detach(c) PROVE RejectionInv'
  BY <1>9 DEF Detach
<1>10. ASSUME NEW c \in Callers, Drop(c) PROVE RejectionInv'
  BY <1>10 DEF Drop
<1>11. ASSUME NEW t \in Threads, DeliverLock(t) PROVE RejectionInv'
  BY <1>11 DEF DeliverLock, Return
<1>12. ASSUME NEW t \in Threads, TakeHandler(t) PROVE RejectionInv'
  BY <1>12 DEF TakeHandler
<1>13. ASSUME NEW t \in Threads, ReleaseAccess(t) PROVE RejectionInv'
  BY <1>13 DEF ReleaseAccess
<1>14. ASSUME NEW t \in Threads, InvokeCallback(t) PROVE RejectionInv'
  BY <1>14 DEF InvokeCallback
<1>15. ASSUME NEW t \in Threads, CallbackReturns(t) PROVE RejectionInv'
  BY <1>15 DEF CallbackReturns
<1>16. ASSUME NEW t \in Threads, CallbackThrows(t) PROVE RejectionInv'
  BY <1>16 DEF CallbackThrows
<1>17. ASSUME NEW t \in Threads, CleanupLock(t) PROVE RejectionInv'
  BY <1>17 DEF CleanupLock, Return
<1>18. ASSUME NEW t \in Threads, ResetOperation(t) PROVE RejectionInv'
  BY <1>18 DEF ResetOperation
<1>19. ASSUME NEW t \in Threads, ResetContext(t) PROVE RejectionInv'
  BY <1>19 DEF ResetContext, Return
<1>20. ASSUME NEW t \in Threads, ReleaseState(t) PROVE RejectionInv'
  BY <1>20 DEF ReleaseState
<1>21. CASE Finished
  BY <1>21 DEF Finished, vars
<1>22. CASE UNCHANGED vars
  BY <1>22 DEF vars
<1>23. QED
  BY <1>1, <1>2, <1>3, <1>4, <1>5, <1>6, <1>7, <1>8, <1>9, <1>10, <1>11,
     <1>12, <1>13, <1>14, <1>15, <1>16, <1>17, <1>18, <1>19, <1>20, <1>21, <1>22
  DEF Next, Step

\* Accepted work is always owed a finish(), and posted results stay attributed.
LEMMA ObligationStep == IInv /\ [Next]_vars => ObligationInv'
<1> SUFFICES ASSUME IInv, [Next]_vars PROVE ObligationInv'
  OBVIOUS
<1> USE ThreadsAssumption DEF IInv, TypeOK, ObligationInv, Threads, At, Goto, Retires, Provisional,
           ClaimsHandler, DeferredDetach, MayCleanUp,
           flags, slots, locals, ghosts,
           Alive, CanFinish, OthersFinish, SubmissionInv, Delivering, Resetting, RetirementInv
<1>1. CASE Start
  BY <1>1 DEF Start
<1>2. CASE Discard
  BY <1>2 DEF Discard
<1>3. CASE Accept
  BY <1>3 DEF Accept
<1>4. CASE Reject
  BY <1>4 DEF Reject
<1>5. CASE RejectCheck
  BY <1>5 DEF RejectCheck
<1>6. CASE Submitted
  BY <1>6 DEF Submitted
<1>7. CASE StartAgain
  BY <1>7 DEF StartAgain
<1>8. ASSUME NEW c \in Callers, Finish(c) PROVE ObligationInv'
  BY <1>8 DEF Finish
<1>9. ASSUME NEW c \in Callers, Detach(c) PROVE ObligationInv'
  BY <1>9 DEF Detach
<1>10. ASSUME NEW c \in Callers, Drop(c) PROVE ObligationInv'
  BY <1>10 DEF Drop
<1>11. ASSUME NEW t \in Threads, DeliverLock(t) PROVE ObligationInv'
  BY <1>11 DEF DeliverLock, Return
<1>12. ASSUME NEW t \in Threads, TakeHandler(t) PROVE ObligationInv'
  BY <1>12 DEF TakeHandler
<1>13. ASSUME NEW t \in Threads, ReleaseAccess(t) PROVE ObligationInv'
  BY <1>13 DEF ReleaseAccess
<1>14. ASSUME NEW t \in Threads, InvokeCallback(t) PROVE ObligationInv'
  <2>1. result[t] \in Callers => call[result[t]] # "none"
    BY <1>14 DEF InvokeCallback, RejectionInv
  <2>2. QED
    BY <1>14, <2>1 DEF InvokeCallback
<1>15. ASSUME NEW t \in Threads, CallbackReturns(t) PROVE ObligationInv'
  BY <1>15 DEF CallbackReturns
<1>16. ASSUME NEW t \in Threads, CallbackThrows(t) PROVE ObligationInv'
  BY <1>16 DEF CallbackThrows
<1>17. ASSUME NEW t \in Threads, CleanupLock(t) PROVE ObligationInv'
  BY <1>17 DEF CleanupLock, Return
<1>18. ASSUME NEW t \in Threads, ResetOperation(t) PROVE ObligationInv'
  BY <1>18 DEF ResetOperation
<1>19. ASSUME NEW t \in Threads, ResetContext(t) PROVE ObligationInv'
  BY <1>19 DEF ResetContext, Return
<1>20. ASSUME NEW t \in Threads, ReleaseState(t) PROVE ObligationInv'
  BY <1>20 DEF ReleaseState
<1>21. CASE Finished
  BY <1>21 DEF Finished, vars
<1>22. CASE UNCHANGED vars
  BY <1>22 DEF vars
<1>23. QED
  BY <1>1, <1>2, <1>3, <1>4, <1>5, <1>6, <1>7, <1>8, <1>9, <1>10, <1>11,
     <1>12, <1>13, <1>14, <1>15, <1>16, <1>17, <1>18, <1>19, <1>20, <1>21, <1>22
  DEF Next, Step

\* The inductive invariant holds in every reachable state.
THEOREM Invariance == Spec => []IInv
<1>1. IInv /\ [Next]_vars => IInv'
  BY TypeStep, SubmissionInvStep, DeliveryStep, RetirementStep, CleanupStep,
     RejectionStep, ObligationStep DEF IInv
<1>2. QED
  BY InitIInv, <1>1, PTL DEF Spec

-----------------------------------------------------------------------------
\* Every variable keeps its type, for any set of token copies.
THEOREM TypeCorrect == Spec => []TypeOK
<1>1. IInv => TypeOK
  BY DEF IInv
<1>2. QED
  BY Invariance, <1>1, PTL

\* However many finish(), detach() and rejections race, the continuation runs at
\* most once.
THEOREM AtMostOneDelivery == Spec => []DeliveredAtMostOnce
<1>1. IInv => DeliveredAtMostOnce
  BY DEF IInv, DeliveryInv, DeliveredAtMostOnce
<1>2. QED
  BY Invariance, <1>1, PTL

\* Context, operation and access owner live as long as the backend or the submit
\* body may use them.
THEOREM LifetimeSafety == Spec => []ResourcesAlive
<1>1. IInv => (pc[Starter] = "body" => context /\ operation)
  BY ThreadsAssumption DEF IInv, CleanupInv, SubmissionInv, Threads, Alive
<1>2. ASSUME IInv, ~retired, pc[Starter] # "cold", \E t \in Threads : pc[t] # "done"
      PROVE  context /\ operation /\ access
  BY <1>2 DEF IInv, CleanupInv, RetirementInv, Alive
<1>3. IInv => ResourcesAlive
  BY <1>1, <1>2 DEF ResourcesAlive
<1>4. QED
  BY Invariance, <1>3, PTL

\* What the code touches outside the mutex, the handler slot and the resources that
\* cleanup() resets, has one claimant.
THEOREM ExclusiveAccess == Spec => []SlotsExclusive
<1>1. ASSUME IInv, NEW t \in Threads, pc[t] = "take", consume[t]
      PROVE  handler /\ \A s \in Threads \ {t} : ~(pc[s] = "take" /\ consume[s])
  BY <1>1 DEF IInv, DeliveryInv
<1>2. ASSUME IInv, NEW t \in Threads, pc[t] \in {"resetOperation", "resetContext"}
      PROVE  /\ pc[Starter] # "body"
             /\ context
             /\ \A s \in Threads \ {t} : pc[s] \notin {"resetOperation", "resetContext"}
  BY <1>2, ThreadsAssumption DEF IInv, CleanupInv, SubmissionInv, Threads, Resetting
<1>3. IInv => SlotsExclusive
  BY <1>1, <1>2 DEF SlotsExclusive
<1>4. QED
  BY Invariance, <1>3, PTL

\* The access owner is released before the continuation of the retiring call.
THEOREM AccessReleasedFirst == Spec => []AccessReleasedBeforeTerminal
<1>1. IInv => AccessReleasedBeforeTerminal
  BY DEF IInv, RetirementInv, Retiring, Delivering, AccessReleasedBeforeTerminal
<1>2. QED
  BY Invariance, <1>1, PTL

\* No interleaving of submission and retirement loses the cleanup.
THEOREM CleanupNeverLost == Spec => []NoLostCleanup
<1>1. IInv => NoLostCleanup
  BY DEF IInv, CleanupInv, RetirementInv, Resetting, WillCleanUp, NoLostCleanup
<1>2. QED
  BY Invariance, <1>1, PTL

\* Under the backend's contract an explicit rejection wins over every detach()
\* made during submission, and the process is never aborted.
THEOREM RejectionSafety == Spec => []RejectionWins
<1>1. IInv => RejectionWins
  BY ThreadsAssumption DEF IInv, RejectionInv, DeliveryInv, RejectionWins
<1>2. QED
  BY Invariance, <1>1, PTL

-----------------------------------------------------------------------------
(* The refinement: which abstract step each step of the threads is.        *)

\* Before anything happened the invocation is the abstract cold one.
LEMMA InitContract == Init => Contract!Init
  BY ThreadsAssumption DEF Init, Contract!Init, Delivery, Storage, Threads

\* When the last owner leaves, the resources have been released already.
LEMMA LastOwnerFindsNothing ==
  ASSUME IInv, Disciplined, NEW t \in Threads, pc[t] = "return",
         \A s \in Threads \ {t} : pc[s] = "done"
  PROVE  ~context /\ ~access
<1> USE ThreadsAssumption DEF IInv, Threads
<1>1. retired
  BY DEF ObligationInv, Alive, CanFinish, TypeOK
<1>2. ~submitting
  BY DEF ObligationInv, Alive
<1>3. \A s \in Threads : ~WillCleanUp(s) /\ pc[s] \notin Resetting
  BY DEF WillCleanUp, Resetting
<1>4. cleaned
  BY <1>1, <1>2, <1>3 DEF CleanupInv
<1>5. QED
  BY <1>1, <1>3, <1>4 DEF CleanupInv, RetirementInv

\* Every step of the threads is one abstract step or a stuttering one.
LEMMA StepContract ==
  ASSUME IInv, Disciplined, [Next]_vars
  PROVE  [Contract!Next]_Contract!vars
<1> USE ThreadsAssumption DEF IInv, TypeOK, Threads, At, Goto, Retires, Provisional,
           ClaimsHandler, DeferredDetach, MayCleanUp,
           flags, slots, locals, ghosts, Delivery, Storage, Contract!vars
<1> DEFINE Stutter == UNCHANGED Contract!vars
<1>1. CASE Start
  <2>1. pc'[Starter] = "body" /\ outcome = None /\ context /\ ~retired
    BY <1>1 DEF Start, SubmissionInv, CleanupInv, Alive
  <2>2. Contract!Submit
    BY <1>1, <2>1 DEF Start, Contract!Submit
  <2>3. QED
    BY <2>2 DEF Contract!Next
<1>2. CASE Discard
  <2>1. pc'[Starter] = "done"
    BY <1>2 DEF Discard
  <2>2. Contract!Abandon
    BY <1>2, <2>1 DEF Discard, SubmissionInv, Contract!Abandon
  <2>3. QED
    BY <2>2 DEF Contract!Next
<1>3. CASE Accept \/ Reject
  <2>1. Contract!BodyReturns
    BY <1>3 DEF Accept, Reject, Contract!BodyReturns
  <2>2. QED
    BY <2>1 DEF Contract!Next
<1>4. CASE RejectCheck
  <2>1. Stutter
    BY <1>4 DEF RejectCheck, ObligationInv
  <2>2. QED
    BY <2>1
<1>5. CASE Submitted
  <2>1. Stutter
    BY <1>5 DEF Submitted, ObligationInv
  <2>2. QED
    BY <2>1
<1>6. CASE StartAgain \/ Finished
  <2>1. Stutter
    BY <1>6 DEF StartAgain, Finished, vars
  <2>2. QED
    BY <2>1
<1>7. ASSUME NEW c \in Callers, Finish(c) \/ Detach(c) \/ Drop(c)
      PROVE  [Contract!Next]_Contract!vars
  <2>1. outcome # c
    BY <1>7 DEF Finish, Detach, Drop, SubmissionInv, ObligationInv
  <2>2. Stutter
    BY <1>7, <2>1 DEF Finish, Detach, Drop
  <2>3. QED
    BY <2>2
<1>8. ASSUME NEW t \in Threads, DeliverLock(t)
      PROVE  [Contract!Next]_Contract!vars
  <2>1. pc[Starter] \notin {"cold", "body"} \/ (t # Starter /\ pc[Starter] # "cold")
    BY <1>8 DEF DeliverLock, SubmissionInv
  <2>2. (pc[Starter] = "body") <=> (pc'[Starter] = "body")
    BY <1>8 DEF DeliverLock, Return
  <2>3. pc'[Starter] # "cold"
    BY <1>8, <2>1 DEF DeliverLock, Return
  <2>4. Delivery' = Delivery
    BY <1>8 DEF DeliverLock, Return
  <2>5. CASE call[t] = "finish" /\ ~retired
    <3>1. context /\ access
      BY <1>8, <2>5 DEF DeliverLock, CleanupInv, RetirementInv, Alive
    <3>2. retired' /\ ~access' /\ context' = context
      BY <1>8, <2>5 DEF DeliverLock
    <3>3. Contract!Retire
      BY <2>1, <2>2, <2>3, <2>4, <2>5, <3>1, <3>2 DEF Contract!Retire
    <3>4. QED
      BY <3>3 DEF Contract!Next
  <2>6. CASE ~(call[t] = "finish" /\ ~retired)
    <3>1. UNCHANGED <<retired, access, context>>
      BY <1>8, <2>6 DEF DeliverLock
    <3>2. Stutter
      BY <2>1, <2>2, <2>3, <2>4, <3>1
    <3>3. QED
      BY <3>2
  <2>7. QED
    BY <2>5, <2>6
<1>9. ASSUME NEW t \in Threads,
             TakeHandler(t) \/ ReleaseAccess(t) \/ CallbackReturns(t) \/ CallbackThrows(t)
               \/ CleanupLock(t) \/ ResetOperation(t)
      PROVE  [Contract!Next]_Contract!vars
  <2>1. Stutter
    BY <1>9 DEF TakeHandler, ReleaseAccess, CallbackReturns, CallbackThrows,
                CleanupLock, ResetOperation, Return
  <2>2. QED
    BY <2>1
<1>10. ASSUME NEW t \in Threads, InvokeCallback(t)
       PROVE  [Contract!Next]_Contract!vars
  <2>1. outcome = None /\ outcome' = result[t]
    BY <1>10 DEF InvokeCallback, DeliveryInv
  <2>2. /\ pc'[Starter] # "cold" /\ pc[Starter] # "cold"
        /\ pc'[Starter] = "body" <=> pc[Starter] = "body"
        /\ UNCHANGED <<call, retired, access, context>>
    BY <1>10 DEF InvokeCallback, SubmissionInv
  <2>3. CASE call[t] = "finish"
    <3>1. retired /\ ~access
      BY <1>10, <2>3 DEF InvokeCallback, RetirementInv, Delivering
    <3>2. Delivery' = "terminal"
      BY <2>1, <2>2, <2>3 DEF SubmissionInv, RejectionInv
    <3>3. Contract!DeliverTerminal
      BY <2>1, <2>2, <3>1, <3>2 DEF Contract!DeliverTerminal
    <3>4. QED
      BY <3>3 DEF Contract!Next
  <2>4. CASE call[t] = "detach"
    <3>1. pc[Starter] # "body"
      BY <1>10, <2>4 DEF InvokeCallback, RetirementInv, Delivering, SubmissionInv
    <3>2. result[t] \in Callers /\ call[result[t]] = "detach"
      BY <2>4 DEF SubmissionInv, ObligationInv
    <3>3. Delivery' = "observer"
      BY <2>1, <2>2, <3>2
    <3>4. Contract!DeliverObserver
      BY <2>1, <2>2, <3>1, <3>3 DEF Contract!DeliverObserver
    <3>5. QED
      BY <3>4 DEF Contract!Next
  <2>5. call[t] # "none"
    BY <1>10 DEF InvokeCallback, SubmissionInv, Delivering
  <2>6. QED
    BY <2>3, <2>4, <2>5
<1>11. ASSUME NEW t \in Threads, ResetContext(t)
       PROVE  [Contract!Next]_Contract!vars
  <2>1. /\ context /\ ~context' /\ retired /\ ~submitting
        /\ UNCHANGED <<outcome, retired, access>>
    BY <1>11 DEF ResetContext, CleanupInv, Resetting
  <2>2. pc[Starter] \notin {"cold", "body"} /\ pc'[Starter] \notin {"cold", "body"}
    BY <1>11, <2>1 DEF ResetContext, Return, SubmissionInv
  <2>3. Delivery' = Delivery
    BY <1>11 DEF ResetContext, Return
  <2>4. Contract!Reclaim
    BY <2>1, <2>2, <2>3 DEF Contract!Reclaim
  <2>5. QED
    BY <2>4 DEF Contract!Next
<1>12. ASSUME NEW t \in Threads, ReleaseState(t)
       PROVE  [Contract!Next]_Contract!vars
  <2>1. UNCHANGED <<context, access>>
    BY <1>12, LastOwnerFindsNothing DEF ReleaseState
  <2>2. Stutter
    BY <1>12, <2>1 DEF ReleaseState
  <2>3. QED
    BY <2>2
<1>13. CASE UNCHANGED vars
  BY <1>13 DEF vars
<1>14. QED
  BY <1>1, <1>2, <1>3, <1>4, <1>5, <1>6, <1>7, <1>8, <1>9, <1>10, <1>11, <1>12, <1>13
  DEF Next, Step

\* For any number of token copies, an invocation whose backend keeps its contract
\* implements AsyncContract.
THEOREM Implementation == ASSUME Disciplined PROVE Spec => ImplementsContract
<1>1. IInv /\ [Next]_vars => [Contract!Next]_Contract!vars
  BY StepContract
<1>2. QED
  BY InitContract, Invariance, <1>1, PTL DEF Spec, ImplementsContract, Contract!Spec

-----------------------------------------------------------------------------
(* A Flux Foundry flow that awaits the invocation.                          *)

\* Every step of the flow is a step of the invocation or leaves it alone.
LEMMA FluxStepsInvocation == [FluxNext]_<<vars, flux>> => [Next]_vars
<1> SUFFICES ASSUME [FluxNext]_<<vars, flux>> PROVE [Next]_vars
  OBVIOUS
<1>1. CASE FlowStep
  BY <1>1 DEF FlowStep, SlotThrows, BlueprintFails, RunFlow, AwaitableFails, Construct, Next
<1>2. CASE SubmitStep
  BY <1>2 DEF SubmitStep, SubmitError, TakeCall, StartThrows, Caught, StartCall, Started,
     Return0, Next
<1>3. CASE SubmissionStep
  BY <1>3 DEF SubmissionStep, Next
<1>4. CASE Emit \/ Ended
  BY <1>4 DEF Emit, Ended
<1>5. ASSUME NEW t \in Threads, Forward(t) \/ InvocationStep(t) PROVE [Next]_vars
  <2>1. Step(t)
    BY <1>5 DEF Forward, InvocationStep, Step
  <2>2. QED
    BY <2>1 DEF Next
<1>6. ASSUME NEW c \in Callers, UseToken(c) PROVE [Next]_vars
  BY <1>6 DEF UseToken, Next
<1>7. CASE UNCHANGED <<vars, flux>>
  BY <1>7
<1>8. QED
  BY <1>1, <1>2, <1>3, <1>4, <1>5, <1>6, <1>7 DEF FluxNext

\* So what IInv says of the invocation holds in the flow.
LEMMA FluxInvariance == FluxSpec => []IInv
<1>1. IInv /\ [Next]_vars => IInv'
  BY TypeStep, SubmissionInvStep, DeliveryStep, RetirementStep, CleanupStep,
     RejectionStep, ObligationStep DEF IInv
<1>2. FluxInit => IInv
  BY InitIInv DEF FluxInit
<1>3. QED
  BY <1>1, <1>2, FluxStepsInvocation, PTL DEF FluxSpec

\* A cold invocation has delivered nothing and no thread works on it.
LEMMA ColdFacts ==
  ASSUME IInv, pc[Starter] = "cold"
  PROVE  ~Working /\ ~Over /\ deliveries = 0
<1>1. \A c \in Callers : pc[c] = "none"
  BY DEF IInv, SubmissionInv
<1>2. deliveries = 0
  BY DEF IInv, SubmissionInv, DeliveryInv
<1>3. QED
  BY <1>1, <1>2 DEF Working, Over, Threads

LEMMA DiscardFacts ==
  ASSUME Discard
  PROVE  Over' /\ ~Working' /\ pc[Starter] = "cold" /\ UNCHANGED <<deliveries, outcome>>
  BY DEF Discard, Over, Working, At, ghosts

\* Steps of the invocation that do not deliver are invisible to the flow.
LEMMA QuietStep ==
  ASSUME IInv, FluxInv, Working, UNCHANGED <<flux, deliveries, outcome>>
  PROVE  FluxInv'
<1>1. pc[Starter] # "cold" /\ ~Over
  BY ColdFacts DEF Working, Over
<1>2. flow \notin {"blueprint", "construct", "submit", "start", "catch", "thrown"}
  BY <1>1 DEF FluxInv, FlowInv
<1>3. FluxTypeOK'
  BY DEF FluxInv, FluxTypeOK, flux
<1>4. FlowInv'
  BY <1>2 DEF FluxInv, FlowInv, flux, sink
<1>5. SinkInv'
  BY <1>1 DEF FluxInv, SinkInv, flux, sink
<1>6. QED
  BY <1>3, <1>4, <1>5 DEF FluxInv

\* Resuming a flow that waits, through a live awaitable.
LEMMA FirstResume ==
  ASSUME NEW r, results = <<>>, awaitable = "live", ~touched, Resume(r)
  PROVE  results' = <<r>> /\ ~touched'
<1>1. ~(touched \/ awaitable # "live")
  OBVIOUS
<1>2. ~touched'
  BY <1>1 DEF Resume, TouchAwaitable
<1>3. QED
  BY <1>2 DEF Resume

LEMMA InitFluxInv == FluxInit => FluxInv
<1> SUFFICES ASSUME FluxInit PROVE FluxInv
  OBVIOUS
<1>1. IInv
  BY InitIInv DEF FluxInit
<1>2. pc[Starter] = "cold"
  BY DEF FluxInit, Init, Threads
<1>3. ~Working /\ deliveries = 0
  BY <1>1, <1>2, ColdFacts
<1>4. QED
  BY <1>2, <1>3 DEF FluxInit, FluxInv, FluxTypeOK, FlowInv, SinkInv

\* start_invocation() and the flow up to submit().
LEMMA FlowStepInv == IInv /\ FluxInv /\ FlowStep => FluxInv'
<1> SUFFICES ASSUME IInv, FluxInv, FlowStep PROVE FluxInv'
  OBVIOUS
<1> USE DEF FluxInv, FluxTypeOK, FlowInv, SinkInv, sink
<1>1. CASE SlotThrows
  <2>1. /\ Over' /\ ~Working' /\ deliveries' = 0
        /\ results' = <<>> /\ handled = <<>> /\ flow' = "thrown" /\ ~touched'
        /\ UNCHANGED <<input, awaitable, emitted, slot, handled>>
    BY <1>1, DiscardFacts, ColdFacts DEF SlotThrows
  <2>2. QED
    BY <2>1
<1>2. CASE BlueprintFails
  <2>1. /\ Over' /\ ~Working' /\ deliveries' = 0
        /\ results' = <<>> /\ emitted' = 0 /\ awaitable' = awaitable /\ ~touched'
        /\ input' = input /\ flow' = "done"
    BY <1>2, DiscardFacts, ColdFacts DEF BlueprintFails
  <2>2. slot' = FALSE /\ handled' = <<"not_enough_memory">>
    BY <1>2 DEF BlueprintFails, Emplace
  <2>3. QED
    BY <2>1, <2>2
<1>3. CASE RunFlow
  BY <1>3 DEF RunFlow, vars, ghosts, Working, Over
<1>4. CASE AwaitableFails
  <2>1. ~Working' /\ deliveries' = 0
    BY <1>4, DiscardFacts, ColdFacts DEF AwaitableFails, vars, ghosts, Working
  <2>2. /\ results' = <<"awaitable_creating_error">> /\ flow' = "done"
        /\ UNCHANGED <<input, awaitable, emitted, slot, handled, touched>>
    BY <1>4 DEF AwaitableFails
  <2>3. emitted' = 0 /\ handled' = <<>>
    BY <1>4, <2>2 DEF AwaitableFails
  <2>4. QED
    BY <2>1, <2>2, <2>3 DEF Results
<1>5. CASE Construct
  BY <1>5 DEF Construct, vars, ghosts, Working, Over
<1>6. QED
  BY <1>1, <1>2, <1>3, <1>4, <1>5 DEF FlowStep

\* submit(), on the starter thread.
LEMMA SubmitStepInv == IInv /\ FluxInv /\ SubmitStep => FluxInv'
<1> SUFFICES ASSUME IInv, FluxInv, SubmitStep PROVE FluxInv'
  OBVIOUS
<1> USE DEF FluxInv, FluxTypeOK, FlowInv, SinkInv, sink
<1>1. CASE SubmitError
  <2>1. ~Working' /\ deliveries' = 0
    BY <1>1, ColdFacts DEF SubmitError, vars, ghosts, Working
  <2>2. /\ results' = <<"input_error">> /\ flow' = "return" /\ ~touched'
        /\ UNCHANGED <<input, awaitable, emitted, slot, handled>>
    BY <1>1, FirstResume DEF SubmitError
  <2>3. emitted' = 0 /\ handled' = <<>>
    BY <1>1, <2>2 DEF SubmitError
  <2>4. QED
    BY <2>1, <2>2, <2>3 DEF Results
<1>2. CASE TakeCall
  BY <1>2 DEF TakeCall, TouchAwaitable, vars, ghosts, Working, Over
<1>3. CASE StartThrows
  <2>1. Over' /\ ~Working' /\ deliveries' = 0
    BY <1>3, DiscardFacts, ColdFacts DEF StartThrows
  <2>2. QED
    BY <1>3, <2>1 DEF StartThrows
<1>4. CASE Caught
  <2>1. ~Working' /\ deliveries' = 0
    <3>1. deliveries = 0
      BY <1>4 DEF Caught, IInv, DeliveryInv
    <3>2. QED
      BY <1>4, <3>1 DEF Caught, vars, ghosts, Working, Over
  <2>2. /\ results' = <<"current_exception">> /\ flow' = "return" /\ ~touched'
        /\ UNCHANGED <<input, awaitable, emitted, slot, handled>>
    BY <1>4, FirstResume DEF Caught
  <2>3. emitted' = 0 /\ handled' = <<>>
    BY <1>4, <2>2 DEF Caught
  <2>4. QED
    BY <2>1, <2>2, <2>3 DEF Results
<1>5. CASE StartCall
  <2>1. deliveries' = 0
    BY <1>5, ColdFacts DEF StartCall, Start, ghosts
  <2>2. QED
    BY <1>5, <2>1 DEF StartCall
<1>6. CASE Started
  BY <1>6 DEF Started, vars, ghosts, Working, Over
<1>7. CASE Return0
  BY <1>7 DEF Return0, SubmitStatus, vars, ghosts, Working, Over
<1>8. QED
  BY <1>1, <1>2, <1>3, <1>4, <1>5, <1>6, <1>7 DEF SubmitStep

\* The continuation: the thread that owns the handler is the first to resume the flow.
LEMMA ForwardInv == ASSUME IInv, FluxInv, NEW t \in Threads, Forward(t) PROVE FluxInv'
<1>1. pc[t] = "invoke" /\ Working /\ consume[t] /\ deliveries = 0
  BY DEF Forward, InvokeCallback, At, Working, IInv, DeliveryInv
<1>2. pc[Starter] # "cold" /\ ~Over
  BY <1>1, ColdFacts DEF Over
<1>3. /\ flow \notin {"blueprint", "construct", "submit", "start", "catch", "thrown"}
      /\ results = <<>> /\ handled = <<>> /\ awaitable = "live" /\ ~touched /\ slot
      /\ emitted = 0
  BY <1>1, <1>2 DEF FluxInv, FlowInv, SinkInv
<1>4. /\ results' = <<outcome'>> /\ ~touched' /\ deliveries' = 1
      /\ UNCHANGED <<input, flow, awaitable, emitted, slot, handled>>
  BY <1>1, <1>3, FirstResume DEF Forward, InvokeCallback, sink
<1>5. outcome' \in Results
  BY DEF Forward, InvokeCallback, IInv, TypeOK, Results
<1>6. FluxTypeOK'
  BY <1>4, <1>5 DEF FluxInv, FluxTypeOK
<1>7. FlowInv'
  BY <1>3, <1>4 DEF FlowInv
<1>8. SinkInv'
  BY <1>3, <1>4 DEF SinkInv
<1>9. QED
  BY <1>6, <1>7, <1>8 DEF FluxInv

\* The sink takes the one result and the flow lets go of the awaitable.
LEMMA EmitInv == IInv /\ FluxInv /\ Emit => FluxInv'
<1> SUFFICES ASSUME IInv, FluxInv, Emit PROVE FluxInv'
  OBVIOUS
<1>1. PICK r \in Results : results = <<r>>
  BY DEF FluxInv, FluxTypeOK, SinkInv, Emit
<1>2. emitted = 0 /\ handled = <<>> /\ slot
  BY <1>1 DEF FluxInv, SinkInv, Emit
<1>3. /\ emitted' = 1 /\ results' = results /\ handled' = results /\ slot' = FALSE
      /\ UNCHANGED <<vars, input, flow, touched>> /\ awaitable' \in {"none", "live", "released"}
  BY <1>1, <1>2 DEF Emit, Emplace, FluxInv, FluxTypeOK
<1>4. flow \notin {"blueprint", "construct", "submit", "start", "catch", "thrown"}
      /\ ~(Working /\ deliveries = 0)
  BY <1>1 DEF FluxInv, FlowInv
<1>5. FluxTypeOK'
  BY <1>3 DEF FluxInv, FluxTypeOK
<1>6. FlowInv'
  BY <1>3, <1>4 DEF FluxInv, FlowInv, vars, ghosts, Working
<1>7. SinkInv'
  BY <1>1, <1>3 DEF SinkInv
<1>8. QED
  BY <1>5, <1>6, <1>7 DEF FluxInv

LEMMA FluxInvStep == IInv /\ FluxInv /\ [FluxNext]_<<vars, flux>> => FluxInv'
<1> SUFFICES ASSUME IInv, FluxInv, [FluxNext]_<<vars, flux>> PROVE FluxInv'
  OBVIOUS
<1>1. CASE FlowStep
  BY <1>1, FlowStepInv
<1>2. CASE SubmitStep
  BY <1>2, SubmitStepInv
<1>3. CASE SubmissionStep
  <2>1. Working
    BY <1>3 DEF SubmissionStep, Accept, Reject, RejectCheck, Submitted, At, Working, Threads
  <2>2. UNCHANGED <<flux, deliveries, outcome>>
    BY <1>3 DEF SubmissionStep, Accept, Reject, RejectCheck, Submitted, ghosts
  <2>3. QED
    BY <2>1, <2>2, QuietStep
<1>4. CASE Emit
  BY <1>4, EmitInv
<1>5. ASSUME NEW t \in Threads, Forward(t) PROVE FluxInv'
  BY <1>5, ForwardInv
<1>6. ASSUME NEW t \in Threads, InvocationStep(t) PROVE FluxInv'
  <2>1. Working
    BY <1>6 DEF InvocationStep, DeliverLock, TakeHandler, ReleaseAccess, CallbackReturns,
       CleanupLock, ResetOperation, ResetContext, ReleaseState, At, Working
  <2>2. UNCHANGED <<flux, deliveries, outcome>>
    BY <1>6 DEF InvocationStep, DeliverLock, TakeHandler, ReleaseAccess, CallbackReturns,
       CleanupLock, ResetOperation, ResetContext, ReleaseState, ghosts
  <2>3. QED
    BY <2>1, <2>2, QuietStep
<1>7. ASSUME NEW c \in Callers, UseToken(c) PROVE FluxInv'
  <2>1. Working
    BY <1>7 DEF UseToken, Finish, Detach, Drop, At, Working, Threads
  <2>2. UNCHANGED <<flux, deliveries, outcome>>
    BY <1>7 DEF UseToken, Finish, Detach, Drop, ghosts
  <2>3. QED
    BY <2>1, <2>2, QuietStep
<1>8. CASE Ended \/ UNCHANGED <<vars, flux>>
  BY <1>8 DEF Ended, vars, ghosts, flux, sink, FluxInv, FluxTypeOK, FlowInv, SinkInv,
     Working, Over
<1>9. QED
  BY <1>1, <1>2, <1>3, <1>4, <1>5, <1>6, <1>7, <1>8 DEF FluxNext

\* For any number of token copies: the flow is resumed once, the handler is called once
\* and with the delivered result, and the released awaitable is not used.
THEOREM FlowResumedOnce == FluxSpec => []ResumedOnce
<1>1. IInv /\ FluxInv => ResumedOnce
  <2> SUFFICES ASSUME IInv, FluxInv PROVE ResumedOnce
    OBVIOUS
  <2>1. Len(results) <= 1 /\ Len(handled) <= 1
    <3>1. Len(<<>>) = 0 /\ \A r : Len(<<r>>) = 1
      OBVIOUS
    <3>2. Len(results) = 0 \/ Len(results) = 1
      BY <3>1 DEF FluxInv, FluxTypeOK
    <3>3. Len(handled) = 0 \/ Len(handled) = 1
      BY <3>1, <3>2 DEF FluxInv, SinkInv
    <3>4. \A n : n = 0 \/ n = 1 => n <= 1
      OBVIOUS
    <3>5. QED
      BY <3>2, <3>3, <3>4
  <2>2. ASSUME outcome # None, handled # <<>> PROVE handled = <<outcome>>
    <3>1. results = <<outcome>>
      BY <2>2 DEF IInv, DeliveryInv, FluxInv, FlowInv
    <3>2. QED
      BY <2>2, <3>1 DEF FluxInv, SinkInv
  <2>3. QED
    BY <2>1, <2>2 DEF FluxInv, FlowInv, ResumedOnce
<1>2. QED
  BY <1>1, InitFluxInv, FluxInvStep, FluxInvariance, PTL DEF FluxSpec

\* Inside a flow as outside it, a backend that keeps its contract makes the invocation
\* implement AsyncContract.
THEOREM FlowImplements == ASSUME Disciplined PROVE FluxSpec => ImplementsContract
<1>1. IInv /\ [FluxNext]_<<vars, flux>> => [Contract!Next]_Contract!vars
  BY StepContract, FluxStepsInvocation
<1>2. FluxInit => Contract!Init
  BY InitContract DEF FluxInit
<1>3. QED
  BY <1>1, <1>2, FluxInvariance, PTL DEF FluxSpec, ImplementsContract, Contract!Spec
=============================================================================
