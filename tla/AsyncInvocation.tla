-------------------------- MODULE AsyncInvocation --------------------------
(***************************************************************************)
(* One asynchronous invocation of dynabridge (src/dynabridge/async.h): the  *)
(* cold static_invocation, its start(), and the shared operation_state that *)
(* the submit body and the copies of the completion token work on.          *)
(*                                                                          *)
(* Threads are the starter (which runs start()) and the callers, each of    *)
(* which owns one copy of the completion token and makes at most one call   *)
(* of finish() or detach() through it.  A call made inline by the submit    *)
(* body, or from inside a running continuation, is the special case of a    *)
(* caller that runs while the other thread makes no step.                   *)
(*                                                                          *)
(* Every lock_guard block is one step (the flags are only read and written  *)
(* under the mutex); everything the code does outside the mutex - moving    *)
(* the handler out, dropping the access owner, running the continuation,    *)
(* resetting the operation and the context - is a step of its own, because  *)
(* other threads run in between.                                            *)
(*                                                                          *)
(* A definition whose name says what is wrong with it, placed just before    *)
(* the one it varies (DeferredLost, CleanUpTwice, ...), is a seeded fault     *)
(* that shows a property can fail; no action uses it.                        *)
(***************************************************************************)
EXTENDS Naturals

CONSTANTS
  Callers,      \* copies of the completion token, one thread each
  Starter,      \* the thread that runs static_invocation::start()
  None,         \* "no result"
  Disciplined   \* TRUE: backend and continuation obey the documented contract

ASSUME ThreadsAssumption ==
  /\ Starter \notin Callers
  /\ None \notin Callers \cup {Starter}
  /\ Disciplined \in BOOLEAN

Threads == Callers \cup {Starter}

VARIABLES
  pc,             \* where each thread is
  call,           \* the call a thread is making or has made: finish / detach
  result,         \* deliver()'s argument r: the call whose result it carries
  consume,        \* deliver()'s local: this thread owns the moved-out handler
  releaseAccess,  \* deliver()'s local release_access is non-null
  delivered, retired, submitting, cleaned,  \* operation_state's flags
  pendingDetach,  \* operation_state::pending_detach
  context, operation, handler,  \* the slots still own their object
  access,         \* the slot still owns the access owner
  verdict,        \* what the submit body returned
  outcome,        \* the result the continuation was invoked with
  deliveries,     \* how often the continuation was invoked
  aborted         \* std::abort() or std::terminate() was called

flags  == <<delivered, retired, submitting, cleaned, pendingDetach>>
slots  == <<context, operation, handler, access>>
locals == <<call, result, consume, releaseAccess>>
ghosts == <<verdict, outcome, deliveries, aborted>>
vars   == <<pc, locals, flags, slots, ghosts>>

Goto(t, label) == pc' = [pc EXCEPT ![t] = label]
At(t, label)   == pc[t] = label /\ ~aborted

\* Token copies that can still finish the operation.
CanFinish(c) == \/ pc[c] = "idle"
                \/ pc[c] = "lock" /\ call[c] = "finish"

\* The accepted operation is, or will still be, retired without caller c.
OthersFinish(c) == retired \/ \E d \in Callers \ {c} : CanFinish(d)

Init ==
  /\ pc = [t \in Threads |-> IF t = Starter THEN "cold" ELSE "none"]
  /\ call = [t \in Threads |-> "none"]
  /\ result = [t \in Threads |-> None]
  /\ consume = [t \in Threads |-> FALSE]
  /\ releaseAccess = [t \in Threads |-> FALSE]
  /\ delivered = FALSE /\ retired = FALSE /\ submitting = TRUE /\ cleaned = FALSE
  /\ pendingDetach = None
  /\ context = TRUE /\ operation = TRUE /\ handler = TRUE /\ access = TRUE
  /\ verdict = "none" /\ outcome = None /\ deliveries = 0 /\ aborted = FALSE

-----------------------------------------------------------------------------
(* The starter: static_invocation::start().                                *)

\* start() on an engaged invocation: the state is allocated, every owner moves
\* into it and the submit body is entered with the first token.
Start ==
  /\ At(Starter, "cold")
  /\ pc' = [t \in Threads |-> IF t = Starter THEN "body" ELSE "idle"]
  /\ UNCHANGED <<locals, flags, slots, ghosts>>

\* The invocation goes away without having submitted: it is destroyed cold, or
\* make_shared / the capture of the handler throws out of start().
Discard ==
  /\ At(Starter, "cold")
  /\ pc' = [t \in Threads |-> "done"]
  /\ context' = FALSE /\ operation' = FALSE /\ handler' = FALSE /\ access' = FALSE
  /\ UNCHANGED <<locals, flags, ghosts>>

\* The body returns accept(): someone has taken responsibility to finish.
Accept ==
  /\ At(Starter, "body")
  /\ Disciplined => \/ retired
                    \/ \E c \in Callers : CanFinish(c)
  /\ verdict' = "accepted"
  /\ Goto(Starter, "submitted")
  /\ UNCHANGED <<locals, flags, slots, outcome, deliveries, aborted>>

\* The body returns reject(e) or throws.  Legal only when nothing completes.
Reject ==
  /\ At(Starter, "body")
  /\ Disciplined => \A c \in Callers : call[c] # "finish"
  /\ verdict' = "rejected"
  /\ Goto(Starter, "reject")
  /\ UNCHANGED <<locals, flags, slots, outcome, deliveries, aborted>>

\* operation_state::reject(): require(!retired) under the mutex, then finish().
RejectCheck ==
  /\ At(Starter, "reject")
  /\ IF retired
     THEN aborted' = TRUE /\ UNCHANGED <<pc, call, result>>
     ELSE /\ Goto(Starter, "lock")
          /\ call' = [call EXCEPT ![Starter] = "finish"]
          /\ result' = [result EXCEPT ![Starter] = Starter]
          /\ UNCHANGED aborted
  /\ UNCHANGED <<consume, releaseAccess, flags, slots, verdict, outcome, deliveries>>

\* submitted() finds a detach() recorded during submission.
DeferredLost == FALSE
DeferredDetach == pendingDetach # None

\* operation_state::submitted(): the locked block, then the deferred detach().
Submitted ==
  /\ At(Starter, "submitted")
  /\ submitting' = FALSE
  /\ pendingDetach' = None
  /\ IF DeferredDetach
     THEN /\ Goto(Starter, "lock")
          /\ call' = [call EXCEPT ![Starter] = "detach"]
          /\ result' = [result EXCEPT ![Starter] = pendingDetach]
     ELSE /\ Goto(Starter, "cleanup")
          /\ call' = [call EXCEPT ![Starter] = "none"]
          /\ UNCHANGED result
  /\ UNCHANGED <<consume, releaseAccess, delivered, retired, cleaned, slots, ghosts>>

\* start() or the erased start() on a moved-from invocation: require() fails.
StartAgain ==
  /\ At(Starter, "done")
  /\ ~Disciplined
  /\ aborted' = TRUE
  /\ UNCHANGED <<pc, locals, flags, slots, verdict, outcome, deliveries>>

-----------------------------------------------------------------------------
(* The callers: completion::finish(), completion::detach() and the token's  *)
(* destruction.                                                             *)

Finish(c) ==
  /\ At(c, "idle")
  /\ Disciplined => verdict # "rejected"
  /\ Goto(c, "lock")
  /\ call' = [call EXCEPT ![c] = "finish"]
  /\ result' = [result EXCEPT ![c] = c]
  /\ UNCHANGED <<consume, releaseAccess, flags, slots, ghosts>>

Detach(c) ==
  /\ At(c, "idle")
  /\ Disciplined /\ verdict = "accepted" => OthersFinish(c)
  /\ Goto(c, "lock")
  /\ call' = [call EXCEPT ![c] = "detach"]
  /\ result' = [result EXCEPT ![c] = c]
  /\ UNCHANGED <<consume, releaseAccess, flags, slots, ghosts>>

\* A token copy is destroyed without a call.
Drop(c) ==
  /\ At(c, "idle")
  /\ Disciplined /\ verdict = "accepted" => OthersFinish(c)
  /\ Goto(c, "return")
  /\ UNCHANGED <<locals, flags, slots, ghosts>>

-----------------------------------------------------------------------------
(* operation_state::deliver(r, retire), with retire = (call = "finish").    *)

\* Where a thread goes when deliver() or cleanup() returns: start() goes on
\* after reject() with submitted(), after the deferred detach() with cleanup().
Return(t) ==
  /\ Goto(t, IF t = Starter /\ call[t] = "finish" THEN "submitted"
             ELSE IF t = Starter /\ call[t] = "detach" THEN "cleanup"
             ELSE "return")
  /\ call' = [call EXCEPT ![t] = IF t = Starter THEN "none" ELSE @]

\* finish() retires the operation, detach() does not.
Retires(t) == call[t] = "finish"

\* A detach() during submission is only recorded, for submitted() to post.
NeverProvisional(t) == FALSE
Provisional(t) == ~Retires(t) /\ submitting

\* Whoever finds "delivered" unset takes the handler.
ClaimsUnchecked == TRUE
ClaimsAfterSubmission == ~delivered /\ ~submitting
ClaimsHandler == ~delivered

\* The locked block of deliver().
DeliverLock(t) ==
  /\ At(t, "lock")
  /\ \/ /\ Provisional(t)
        /\ pendingDetach' = IF pendingDetach = None THEN result[t] ELSE pendingDetach
        /\ Return(t)
        /\ UNCHANGED <<consume, releaseAccess, delivered, retired, access>>
     \/ /\ Retires(t) /\ retired
        /\ Return(t)
        /\ UNCHANGED <<consume, releaseAccess, delivered, retired, pendingDetach, access>>
     \/ /\ ~Provisional(t) /\ ~(Retires(t) /\ retired)
        /\ retired' = (retired \/ Retires(t))
        /\ releaseAccess' = [releaseAccess EXCEPT ![t] = Retires(t)]
        /\ access' = (access /\ ~Retires(t))
        /\ delivered' = TRUE
        /\ consume' = [consume EXCEPT ![t] = ClaimsHandler]
        /\ Goto(t, "take")
        /\ UNCHANGED <<call, pendingDetach>>
  /\ UNCHANGED <<result, submitting, cleaned, context, operation, handler, ghosts>>

TakeThenInvoke(t) ==
  /\ At(t, "take")
  /\ handler' = (handler /\ ~consume[t])
  /\ Goto(t, IF consume[t] THEN "invoke" ELSE "release")
  /\ UNCHANGED <<locals, flags, context, operation, access, ghosts>>

\* The handler is moved out of its slot and the slot is reset.
TakeHandler(t) ==
  /\ At(t, "take")
  /\ handler' = (handler /\ ~consume[t])
  /\ Goto(t, "release")
  /\ UNCHANGED <<locals, flags, context, operation, access, ghosts>>

\* release_access.reset().
ReleaseAccess(t) ==
  /\ At(t, "release")
  /\ releaseAccess' = [releaseAccess EXCEPT ![t] = FALSE]
  /\ Goto(t, IF consume[t] THEN "invoke" ELSE "cleanup")
  /\ UNCHANGED <<call, result, consume, flags, slots, ghosts>>

\* (*callback)(std::move(r)): the continuation starts to run.
InvokeCallback(t) ==
  /\ At(t, "invoke")
  /\ consume' = [consume EXCEPT ![t] = FALSE]
  /\ outcome' = result[t]
  /\ deliveries' = deliveries + 1
  /\ Goto(t, "callback")
  /\ UNCHANGED <<call, result, releaseAccess, flags, slots, verdict, aborted>>

CallbackReturnsUncleaned(t) ==
  /\ At(t, "callback")
  /\ Goto(t, "return")
  /\ UNCHANGED <<locals, flags, slots, ghosts>>

\* The continuation returns; deliver() goes on to cleanup().
CallbackReturns(t) ==
  /\ At(t, "callback")
  /\ Goto(t, "cleanup")
  /\ UNCHANGED <<locals, flags, slots, ghosts>>

\* A continuation that throws is turned into std::terminate().
CallbackThrows(t) ==
  /\ At(t, "callback")
  /\ ~Disciplined
  /\ aborted' = TRUE
  /\ UNCHANGED <<pc, locals, flags, slots, verdict, outcome, deliveries>>

-----------------------------------------------------------------------------
(* operation_state::cleanup().                                             *)

\* One claimant cleans up, after retirement and after submission.
CleanUpDuringSubmission == retired /\ ~cleaned
CleanUpTwice == retired /\ ~submitting
MayCleanUp == retired /\ ~submitting /\ ~cleaned

\* The locked block of cleanup().
CleanupLock(t) ==
  /\ At(t, "cleanup")
  /\ IF MayCleanUp
     THEN cleaned' = TRUE /\ Goto(t, "resetOperation") /\ UNCHANGED call
     ELSE Return(t) /\ UNCHANGED cleaned
  /\ UNCHANGED <<result, consume, releaseAccess, delivered, retired, submitting,
                 pendingDetach, slots, ghosts>>

ResetOperation(t) ==
  /\ At(t, "resetOperation")
  /\ operation' = FALSE
  /\ Goto(t, "resetContext")
  /\ UNCHANGED <<locals, flags, context, handler, access, ghosts>>

ResetContext(t) ==
  /\ At(t, "resetContext")
  /\ context' = FALSE
  /\ Return(t)
  /\ UNCHANGED <<result, consume, releaseAccess, flags, operation, handler, access, ghosts>>

\* The thread gives up its shared_ptr to the operation_state; the last owner
\* runs the destructor, which drops whatever the slots still own.
ReleaseState(t) ==
  LET last == \A s \in Threads \ {t} : pc[s] = "done" IN
  /\ At(t, "return")
  /\ Goto(t, "done")
  /\ context' = (context /\ ~last)
  /\ operation' = (operation /\ ~last)
  /\ handler' = (handler /\ ~last)
  /\ access' = (access /\ ~last)
  /\ UNCHANGED <<locals, flags, ghosts>>

-----------------------------------------------------------------------------
\* The steps a thread takes by itself once it is inside async.h.
Step(t) ==
  \/ DeliverLock(t)
  \/ TakeHandler(t)
  \/ ReleaseAccess(t)
  \/ InvokeCallback(t)
  \/ CallbackReturns(t)
  \/ CleanupLock(t)
  \/ ResetOperation(t)
  \/ ResetContext(t)
  \/ ReleaseState(t)

\* The process ended, or every owner of the state is gone.
Finished ==
  /\ aborted \/ \A t \in Threads : pc[t] = "done"
  /\ UNCHANGED vars

Next ==
  \/ Start \/ Discard \/ Accept \/ Reject \/ RejectCheck \/ Submitted \/ StartAgain
  \/ \E c \in Callers : Finish(c) \/ Detach(c) \/ Drop(c)
  \/ \E t \in Threads : Step(t) \/ CallbackThrows(t)
  \/ Finished

Spec == Init /\ [][Next]_vars

\* Threads keep running: the submit body returns, a continuation returns, and a
\* thread that waits for the mutex gets it (each locked block is short).
ThreadFairness ==
  /\ WF_vars(Accept \/ Reject)
  /\ WF_vars(RejectCheck)
  /\ WF_vars(Submitted)
  /\ \A t \in Threads : WF_vars(Step(t))

\* The backend may keep its tokens forever.
ThreadFairSpec == Spec /\ ThreadFairness

-----------------------------------------------------------------------------
(* Safety.                                                                 *)

Labels == {"cold", "none", "idle", "body", "reject", "submitted", "lock", "take",
           "release", "invoke", "callback", "cleanup", "resetOperation",
           "resetContext", "return", "done"}

\* Every variable has the type its C++ field has.
TypeOK ==
  /\ pc \in [Threads -> Labels]
  /\ call \in [Threads -> {"none", "finish", "detach"}]
  /\ result \in [Threads -> Threads \cup {None}]
  /\ consume \in [Threads -> BOOLEAN]
  /\ releaseAccess \in [Threads -> BOOLEAN]
  /\ delivered \in BOOLEAN /\ retired \in BOOLEAN
  /\ submitting \in BOOLEAN /\ cleaned \in BOOLEAN
  /\ pendingDetach \in Callers \cup {None}
  /\ context \in BOOLEAN /\ operation \in BOOLEAN
  /\ handler \in BOOLEAN /\ access \in BOOLEAN
  /\ verdict \in {"none", "accepted", "rejected"}
  /\ outcome \in Threads \cup {None}
  /\ deliveries \in Nat
  /\ aborted \in BOOLEAN

\* However many finish(), detach() and reject() calls race, the continuation is
\* invoked at most once (deliver()'s "delivered" claim, reference.md "Tokens
\* prevent duplicate delivery").
DeliveredAtMostOnce == deliveries <= 1

\* While the submit body runs, the operation it is a member of and the context
\* it borrows exist, even if another thread has already finished the call; and
\* until the backend retires the operation (or every token is gone) nothing it may
\* still use has been dropped: a detach() leaves context, operation and access
\* owner alive.
ResourcesAlive ==
  /\ pc[Starter] = "body" => context /\ operation
  /\ ~retired /\ pc[Starter] # "cold" /\ (\E t \in Threads : pc[t] # "done") =>
       context /\ operation /\ access

\* The access owner is gone when the continuation of a retiring call runs.
AccessReleasedBeforeTerminal ==
  \A t \in Threads : pc[t] = "callback" /\ call[t] = "finish" =>
    ~access /\ \A s \in Threads : ~releaseAccess[s]

\* What is touched outside the mutex has one claimant.  The thread about to move the
\* handler out finds it in its slot and is alone ("The delivered flag grants exclusive
\* access to the slot"); operation and context are reset by one thread, which no
\* submit body and no second one overlaps.
SlotsExclusive ==
  \A t \in Threads :
    /\ pc[t] = "take" /\ consume[t] =>
         /\ handler
         /\ \A s \in Threads \ {t} : ~(pc[s] = "take" /\ consume[s])
    /\ pc[t] \in {"resetOperation", "resetContext"} =>
         /\ pc[Starter] # "body"
         /\ context
         /\ \A s \in Threads \ {t} : pc[s] \notin {"resetOperation", "resetContext"}

\* Thread t has yet to run, or is running, a cleanup().
WillCleanUp(t) ==
  \/ pc[t] \in {"take", "release", "invoke", "callback", "cleanup",
               "resetOperation", "resetContext"}
  \/ t = Starter /\ pc[t] = "lock"

\* No cleanup is lost between a finish() that still saw "submitting" and a
\* submitted() that did not yet see "retired": once both have happened and no
\* thread has a cleanup() ahead of it, the operation's resources are gone,
\* although late token copies still keep the control state valid.
NoLostCleanup ==
  retired /\ ~submitting /\ ~(\E t \in Threads : WillCleanUp(t)) =>
    ~context /\ ~operation /\ ~access

\* With a backend and a continuation that keep the contract, an explicit rejection
\* wins over any detach() made during submission, and never finds the operation
\* retired already, which would abort the process.
RejectionWins ==
  Disciplined =>
    /\ ~aborted
    /\ verdict = "rejected" /\ outcome # None => outcome = Starter

-----------------------------------------------------------------------------
(* The invocation implements AsyncContract.                                *)

\* A delivered result is terminal if a finish() or the rejection passed it in.
Delivery ==
  IF outcome = None THEN "none"
  ELSE IF outcome = Starter \/ call[outcome] = "finish" THEN "terminal"
  ELSE "observer"

Storage ==
  IF pc[Starter] = "cold" THEN "cold"
  ELSE IF ~context THEN "reclaimed"
  ELSE IF retired THEN "retired"
  ELSE "live"

Contract == INSTANCE AsyncContract
              WITH delivery <- Delivery, storage <- Storage,
                   access <- access, running <- pc[Starter] = "body"

\* Under the backend's contract every step of the threads is a step of the
\* abstract invocation or changes nothing it can observe.
ImplementsContract == Contract!Spec

-----------------------------------------------------------------------------
(* Liveness.                                                               *)

\* A submitted invocation delivers a result, if the backend uses its tokens in the end.
StartedDelivers == (pc[Starter] = "body") ~> (outcome # None)

\* detach() reaches the observer even if the backend never finishes: after a
\* detach() during submission the result is posted by submitted().
DetachDelivers ==
  \A c \in Callers : (call[c] = "detach") ~> (aborted \/ outcome # None)

-----------------------------------------------------------------------------
(* The inductive invariant behind the safety properties: what each flag of  *)
(* operation_state says about the threads.                                  *)

Delivering == {"take", "release", "invoke", "callback"}
Retiring(t) == pc[t] \in Delivering /\ call[t] = "finish"
Resetting  == {"resetOperation", "resetContext"}
Alive      == \E t \in Threads : pc[t] # "done"

\* "submitting" is set exactly while start() has not run submitted()'s block.
SubmissionInv ==
  /\ pc[Starter] \in {"cold", "body", "reject", "submitted"} => submitting
  /\ pc[Starter] \in {"cold", "body", "reject", "submitted"} => call[Starter] = "none"
  /\ pc[Starter] \in {"lock", "cleanup"} \cup Delivering \cup Resetting =>
       (submitting <=> call[Starter] = "finish")
  /\ pc[Starter] \in {"lock"} \cup Delivering => call[Starter] # "none"
  /\ pc[Starter] # "idle" /\ pc[Starter] # "none"
  /\ \A c \in Callers :
       /\ pc[c] \notin {"cold", "body", "reject", "submitted"}
       /\ pc[c] = "none" <=> pc[Starter] = "cold"
       /\ pc[c] \in {"lock"} \cup Delivering => call[c] # "none"
       /\ pc[c] \in {"none", "idle"} => call[c] = "none"
       /\ call[c] # "none" => result[c] = c
  /\ pc[Starter] = "cold" =>
       ~retired /\ ~delivered /\ verdict = "none" /\ outcome = None

\* "delivered" is claimed by one thread, which then owns the handler.
DeliveryInv ==
  /\ \A t \in Threads : consume[t] =>
       pc[t] \in {"take", "release", "invoke"} /\ delivered /\ deliveries = 0
  /\ \A s, t \in Threads : consume[s] /\ consume[t] => s = t
  /\ \A t \in Threads : pc[t] = "invoke" => consume[t]
  /\ deliveries \in {0, 1}
  /\ deliveries = 1 => delivered
  /\ outcome # None => deliveries = 1
  /\ ~delivered /\ Alive => handler
  /\ \A t \in Threads : pc[t] = "take" /\ consume[t] => handler

\* "retired" is claimed by one finish(), which takes the access owner with it.
RetirementInv ==
  /\ retired => ~access
  /\ ~retired /\ Alive => access
  /\ \A t \in Threads : pc[t] \in Delivering =>
       IF call[t] = "finish" THEN retired ELSE ~submitting
  /\ \A s, t \in Threads : Retiring(s) /\ Retiring(t) => s = t
  /\ \A t \in Threads : releaseAccess[t] =>
       pc[t] \in {"take", "release"} /\ call[t] = "finish"

\* "cleaned" is claimed by one thread, after retirement and submission.
CleanupInv ==
  /\ cleaned => retired /\ ~submitting
  /\ \A t \in Threads : pc[t] \in Resetting => cleaned /\ context
  /\ \A s, t \in Threads : pc[s] \in Resetting /\ pc[t] \in Resetting => s = t
  /\ \A t \in Threads : pc[t] = "resetContext" => ~operation
  /\ ~cleaned /\ Alive => context /\ operation
  /\ cleaned => \/ ~context /\ ~operation
                \/ \E t \in Threads : pc[t] \in Resetting
  /\ retired /\ ~submitting /\ ~cleaned => \E t \in Threads : WillCleanUp(t)

\* Until a finish() is called, only the rejection can deliver during submission.
NoFinishYet == \A c \in Callers : call[c] # "finish"

RejectionInv ==
  /\ NoFinishYet /\ submitting /\
     (pc[Starter] \in {"body", "reject", "lock"} \/ verdict = "accepted") =>
       ~delivered /\ ~retired
  /\ pc[Starter] = "body" => verdict = "none"
  /\ pc[Starter] = "reject" \/ call[Starter] = "finish" => verdict = "rejected"
  /\ call[Starter] = "finish" => result[Starter] = Starter
  /\ Disciplined /\ verdict = "rejected" =>
       /\ NoFinishYet
       /\ ~aborted
       /\ \/ pc[Starter] \in {"reject", "lock"} /\ ~delivered /\ submitting
          \/ /\ delivered /\ outcome \in {None, Starter}
             /\ \A t \in Threads : consume[t] => t = Starter /\ call[t] = "finish"
  /\ Disciplined => ~aborted

\* Somebody still owes the finish() of accepted work, and a posted result keeps
\* the call it came from.
ObligationInv ==
  /\ verdict = "none" => pc[Starter] \in {"cold", "body"} \/ ~Alive
  /\ verdict = "accepted" /\ ~retired /\ Disciplined => \E c \in Callers : CanFinish(c)
  /\ verdict = "rejected" /\ ~retired =>
       pc[Starter] = "reject" \/ (pc[Starter] = "lock" /\ call[Starter] = "finish")
  /\ pc[Starter] \in {"return", "done"} /\ Alive => ~submitting
  /\ pendingDetach # None => call[pendingDetach] = "detach"
  /\ call[Starter] = "detach" =>
       result[Starter] \in Callers /\ call[result[Starter]] = "detach"
  /\ outcome \in Callers => call[outcome] # "none"

IInv == /\ TypeOK /\ SubmissionInv /\ DeliveryInv /\ RetirementInv
        /\ CleanupInv /\ RejectionInv /\ ObligationInv
=============================================================================
