--------------------------- MODULE AsyncContract ---------------------------
(***************************************************************************)
(* What an owned asynchronous invocation promises (docs/reference.md,       *)
(* "Delivery and retirement are separate"), without threads, tokens or      *)
(* locks: one delivery, one retirement, and resources that outlive both the *)
(* submit body and every use the backend may still make of them.            *)
(***************************************************************************)

VARIABLES
  delivery,  \* none, or the kind of call whose result the observer received
  storage,   \* context and operation: cold, live, retired, reclaimed
  access,    \* the per-call access owner is held
  running    \* the submit body is executing

vars == <<delivery, storage, access, running>>

Init ==
  /\ delivery = "none"
  /\ storage = "cold"
  /\ access = TRUE
  /\ running = FALSE

\* Submission starts.
Submit ==
  /\ storage = "cold"
  /\ storage' = "live"
  /\ running' = TRUE
  /\ UNCHANGED <<delivery, access>>

\* An invocation destroyed before submission runs no work.
Abandon ==
  /\ storage = "cold"
  /\ storage' = "reclaimed"
  /\ access' = FALSE
  /\ UNCHANGED <<delivery, running>>

BodyReturns ==
  /\ running
  /\ running' = FALSE
  /\ UNCHANGED <<delivery, storage, access>>

\* finish() or a rejection retires the operation and takes the access owner out.
Retire ==
  /\ storage = "live"
  /\ storage' = "retired"
  /\ access' = FALSE
  /\ UNCHANGED <<delivery, running>>

\* The observer receives the terminal result: the operation has retired.
DeliverTerminal ==
  /\ delivery = "none"
  /\ storage \in {"retired", "reclaimed"}
  /\ ~access
  /\ delivery' = "terminal"
  /\ UNCHANGED <<storage, access, running>>

\* The observer is detached; the body has returned, the operation may live on.
DeliverObserver ==
  /\ delivery = "none"
  /\ storage # "cold"
  /\ ~running
  /\ delivery' = "observer"
  /\ UNCHANGED <<storage, access, running>>

\* Context and operation disappear after retirement and after the submit body.
Reclaim ==
  /\ storage = "retired"
  /\ ~running
  /\ storage' = "reclaimed"
  /\ UNCHANGED <<delivery, access, running>>

Next == Submit \/ Abandon \/ BodyReturns \/ Retire \/ DeliverTerminal
          \/ DeliverObserver \/ Reclaim

Spec == Init /\ [][Next]_vars
=============================================================================
