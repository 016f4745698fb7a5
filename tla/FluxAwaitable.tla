--------------------------- MODULE FluxAwaitable ---------------------------
(***************************************************************************)
(* extensions/flux_foundry/async.h on top of AsyncInvocation: one run of a  *)
(* Flux Foundry flow that awaits an invocation, from start_invocation() (or *)
(* a blueprint that gets its input from upstream) to the handler in the     *)
(* sink.  The starter thread runs submit(), and the invocation's            *)
(* continuation is the one submit() passes to start(): it resumes the flow  *)
(* on whichever thread delivers, before or after submit() returns.          *)
(*                                                                          *)
(* Flux Foundry itself is external: it constructs the awaitable, calls      *)
(* submit(), carries a resumed result to the sink (inline or through an     *)
(* executor) and may release the awaitable from then on.                    *)
(* StatusOfOutcome and CaughtSilently are seeded faults.                    *)
(***************************************************************************)
EXTENDS AsyncInvocation, Sequences

VARIABLES
  input,      \* what the flow is run with: a call or an upstream error
  flow,       \* where start_invocation(), and then submit(), is
  awaitable,  \* none, live, released
  results,    \* what the flow was given at the awaiting node, in order
  emitted,    \* how many of them have reached the sink
  slot,       \* the sink's handler is still in its slot
  handled,    \* what the handler was called with
  touched     \* a released awaitable was used

sink == <<emitted, slot, handled>>
flux == <<input, flow, awaitable, results, sink, touched>>

FluxInit ==
  /\ Init
  /\ input \in {"call", "error"}
  /\ flow = "blueprint"
  /\ awaitable = "none"
  /\ results = <<>>
  /\ emitted = 0 /\ slot = TRUE /\ handled = <<>>
  /\ touched = FALSE

\* Any use of `this` in submit() or in the continuation it passed to start().
TouchAwaitable == touched' = (touched \/ awaitable # "live")

\* awaitable->resume(): the flow goes on with the result.
Resume(r) == results' = Append(results, r) /\ TouchAwaitable

\* invocation_sink::emplace(): only the first result finds the handler.
Emplace(r) ==
  /\ slot' = FALSE
  /\ handled' = IF slot THEN Append(handled, r) ELSE handled

-----------------------------------------------------------------------------
(* Before submit().                                                         *)

\* start_invocation() cannot make the slot, or the handler's copy throws: the exception
\* leaves to the caller and unwinding destroys the call.
SlotThrows ==
  /\ flow = "blueprint" /\ input = "call"
  /\ Discard
  /\ flow' = "thrown"
  /\ UNCHANGED <<input, awaitable, results, sink, touched>>

\* start_invocation() cannot allocate the blueprint: the call is destroyed, then the
\* handler is told.
BlueprintFails ==
  /\ flow = "blueprint" /\ input = "call"
  /\ Discard
  /\ Emplace("not_enough_memory")
  /\ flow' = "done"
  /\ UNCHANGED <<input, awaitable, results, emitted, touched>>

RunFlow ==
  /\ flow = "blueprint"
  /\ flow' = "construct"
  /\ UNCHANGED <<vars, input, awaitable, results, sink, touched>>

\* Flux Foundry cannot allocate the awaitable: awaitable_creating_error.
AwaitableFails ==
  /\ flow = "construct"
  /\ IF input = "call" THEN Discard ELSE UNCHANGED vars
  /\ results' = Append(results, "awaitable_creating_error")
  /\ flow' = "done"
  /\ UNCHANGED <<input, awaitable, sink, touched>>

\* invocation_awaitable(input): the call or the upstream error moves in.
Construct ==
  /\ flow = "construct"
  /\ awaitable' = "live"
  /\ flow' = "submit"
  /\ UNCHANGED <<vars, input, results, sink, touched>>

-----------------------------------------------------------------------------
(* submit().                                                                *)

\* There is no call: the upstream error is passed on.
SubmitError ==
  /\ flow = "submit" /\ input = "error"
  /\ Resume("input_error")
  /\ flow' = "return"
  /\ UNCHANGED <<vars, input, awaitable, sink>>

\* "A local copy keeps the invocation alive across an inline continuation."
TakeCall ==
  /\ flow = "submit" /\ input = "call"
  /\ TouchAwaitable
  /\ flow' = "start"
  /\ UNCHANGED <<vars, input, awaitable, results, sink>>

\* start() throws before it submits (the state cannot be allocated): unwinding
\* destroys the local copy before the catch block runs.
StartThrows ==
  /\ flow = "start"
  /\ Discard
  /\ flow' = "catch"
  /\ UNCHANGED <<input, awaitable, results, sink, touched>>

CaughtSilently ==
  /\ flow = "catch"
  /\ flow' = "return"
  /\ UNCHANGED <<vars, input, awaitable, results, sink, touched>>

Caught ==
  /\ flow = "catch"
  /\ Resume("current_exception")
  /\ flow' = "return"
  /\ UNCHANGED <<vars, input, awaitable, sink>>

StartCall ==
  /\ flow = "start"
  /\ Start
  /\ flow' = "started"
  /\ UNCHANGED <<input, awaitable, results, sink, touched>>

\* start() has returned.
Started ==
  /\ flow = "started" /\ pc[Starter] = "done"
  /\ flow' = "return"
  /\ UNCHANGED <<vars, input, awaitable, results, sink, touched>>

StatusOfOutcome == IF verdict = "rejected" THEN 1 ELSE 0
\* What submit() returns: "Typed rejection already completed the FF protocol".
SubmitStatus == 0

\* For a submission that failed Flux Foundry passes on async_submission_failed_error.
Return0 ==
  /\ flow = "return"
  /\ flow' = "done"
  /\ results' = IF SubmitStatus = 0 THEN results
                ELSE Append(results, "async_submission_failed_error")
  /\ UNCHANGED <<vars, input, awaitable, sink, touched>>

-----------------------------------------------------------------------------
(* The invocation, on whichever thread, and the flow after the node.        *)

\* The continuation of start(): forward_result::finish() resumes the awaitable.
Forward(t) ==
  /\ InvokeCallback(t)
  /\ Resume(outcome')
  /\ UNCHANGED <<input, flow, awaitable, sink>>

InvocationStep(t) ==
  /\ \/ DeliverLock(t) \/ TakeHandler(t) \/ ReleaseAccess(t) \/ CallbackReturns(t)
     \/ CleanupLock(t) \/ ResetOperation(t) \/ ResetContext(t) \/ ReleaseState(t)
  /\ UNCHANGED flux

SubmissionStep ==
  /\ Accept \/ Reject \/ RejectCheck \/ Submitted
  /\ UNCHANGED flux

UseToken(c) == (Finish(c) \/ Detach(c) \/ Drop(c)) /\ UNCHANGED flux

\* A result has travelled down the flow: the sink takes it, the awaitable goes.
Emit ==
  /\ emitted < Len(results)
  /\ emitted' = emitted + 1
  /\ Emplace(results[emitted + 1])
  /\ awaitable' = IF awaitable = "live" THEN "released" ELSE awaitable
  /\ UNCHANGED <<vars, input, flow, results, touched>>

Ended ==
  /\ flow \in {"done", "thrown"} /\ emitted = Len(results)
  /\ input = "call" => \A t \in Threads : pc[t] = "done"
  /\ UNCHANGED <<vars, flux>>

-----------------------------------------------------------------------------
FlowStep == SlotThrows \/ BlueprintFails \/ RunFlow \/ AwaitableFails \/ Construct
SubmitStep == SubmitError \/ TakeCall \/ StartThrows \/ Caught \/ StartCall
                \/ Started \/ Return0

FluxNext ==
  \/ FlowStep \/ SubmitStep \/ SubmissionStep \/ Emit \/ Ended
  \/ \E t \in Threads : Forward(t) \/ InvocationStep(t)
  \/ \E c \in Callers : UseToken(c)

FluxSpec == FluxInit /\ [][FluxNext]_<<vars, flux>>

\* Flux Foundry, submit() and the threads inside async.h run on. "A backend that
\* accepts work must eventually finish it": every token copy is used or destroyed in
\* the end, and by the guards of Detach and Drop the last one able to finish does so.
FluxFairSpec ==
  /\ FluxSpec
  /\ WF_<<vars, flux>>(FlowStep) /\ WF_<<vars, flux>>(SubmitStep)
  /\ WF_<<vars, flux>>(SubmissionStep) /\ WF_<<vars, flux>>(Emit)
  /\ \A t \in Threads : WF_<<vars, flux>>(Forward(t) \/ InvocationStep(t))
  /\ \A c \in Callers : WF_<<vars, flux>>(UseToken(c))

-----------------------------------------------------------------------------
\* Inline, late, rejected and failed submissions alike: the flow is given one result,
\* the handler is called once and with the result the invocation delivered, not at all
\* if start_invocation() threw to its caller, and nobody uses the awaitable after the
\* resumed flow has released it, although submit() may still be running then.
ResumedOnce ==
  /\ Len(results) <= 1 /\ Len(handled) <= 1
  /\ outcome # None /\ handled # <<>> => handled = <<outcome>>
  /\ flow = "thrown" => handled = <<>>
  /\ ~touched

\* Every run of the flow ends in the handler: no failing allocation, throwing start(),
\* rejection or detached operation leaves the caller without a result.  The one
\* exception is a handler that could not be stored: start_invocation() then throws.
HandlerServed == <>(handled # <<>> \/ flow = "thrown")

-----------------------------------------------------------------------------
(* The inductive invariant behind ResumedOnce, next to AsyncInvocation's.   *)

\* The invocation was started and some thread still owns its state.
Working == \E t \in Threads : pc[t] \notin {"cold", "none", "done"}
Over == \A t \in Threads : pc[t] = "done"

Results == Threads \cup {None, "awaitable_creating_error", "input_error", "current_exception"}

FluxTypeOK ==
  /\ input \in {"call", "error"}
  /\ flow \in {"blueprint", "construct", "submit", "start", "catch", "started",
               "return", "done", "thrown"}
  /\ awaitable \in {"none", "live", "released"}
  /\ results \in {<<>>} \cup {<<r>> : r \in Results}

\* Until start() is called, and when it has thrown, nothing was resumed; a started
\* invocation that has not delivered yet finds the awaitable as submit() left it.
FlowInv ==
  /\ flow \in {"blueprint", "construct", "submit", "start"} => pc[Starter] = "cold"
  /\ flow \in {"blueprint", "construct", "submit", "start", "catch", "thrown"} =>
       results = <<>> /\ handled = <<>>
  /\ flow \in {"submit", "start", "catch"} => awaitable = "live"
  /\ flow \in {"catch", "thrown"} => Over
  /\ Working /\ deliveries = 0 => results = <<>> /\ handled = <<>> /\ awaitable = "live"
  /\ deliveries = 1 => results = <<outcome>>
  /\ ~touched

\* The handler leaves its slot with the only result, or with the failed blueprint.
SinkInv ==
  /\ slot <=> handled = <<>>
  /\ \/ emitted = 0 /\ handled = <<>>
     \/ emitted = 0 /\ results = <<>> /\ Len(handled) = 1 /\ flow = "done" /\ Over
     \/ emitted = 1 /\ results # <<>> /\ handled = results

FluxInv == FluxTypeOK /\ FlowInv /\ SinkInv
=============================================================================
