--------------------------- MODULE ExportDispatch ---------------------------
(***************************************************************************)
(* One call of an exported callable (src/dynabridge/export_callable.h): the  *)
(* binder walks its declared overloads in order, and for each one of the     *)
(* right arity prepares, probes and converts the dynamic arguments before    *)
(* it calls the C++ callable.                                               *)
(*                                                                          *)
(* A backend that opted in to rpc_export_probe_policy ("probing") selects by *)
(* pure probes and may then consume the arguments; any other backend         *)
(* converts and tests.  Descriptors (exported objects, imported callables)   *)
(* are validated by try_make, which may run foreign code; foreign code may   *)
(* change what the other dynamic values of the call look like.  A converter  *)
(* may reject what its probe accepted, and a caller may pass one value in    *)
(* every slot (std::ref), so that consuming it empties them all.             *)
(*                                                                          *)
(* A definition whose name says what is wrong with it, placed just before    *)
(* the one it varies, is a seeded fault that shows a property can fail; no   *)
(* action uses it.                                                           *)
(***************************************************************************)
EXTENDS Naturals, Sequences

CONSTANTS
  Params,        \* declared parameter types
  Descriptors,   \* the object_param and callable_param types among them
  Consuming,     \* the scalars whose from() moves the dynamic value out
  Values,        \* dynamic values
  Sentinel,      \* unmatched_callable_t, the parameter of a group's sentinel entry
  Moved,         \* what from() leaves behind in a consumed slot
  Accepts,       \* pairs <<param, value>>: probe() or try_make() accepts
  Refuses,       \* those among them whose from() rejects all the same
  Tables,        \* the overload lists considered
  MaxArgs        \* bound: arguments of a call

ASSUME DispatchAssumption ==
  /\ Descriptors \subseteq Params
  /\ Consuming \subseteq Params \ Descriptors
  /\ Moved \notin Values /\ Sentinel \notin Params
  /\ Accepts \subseteq Params \X Values
  /\ Refuses \subseteq Accepts \cap ((Params \ Descriptors) \X Values)
  /\ Tables \subseteq Seq(Seq(Params \cup {Sentinel}))
  /\ MaxArgs \in Nat

VARIABLES
  probing,      \* the backend opted in to rpc_export_probe_policy
  entry,        \* dispatch_optional, required dispatch, or a member binder
  overloads,    \* the declared signatures, in .def order
  argc,         \* the number of arguments
  aliased,      \* they are references to one dynamic value
  args,         \* the dynamic values, as the accessor yields them
  k,            \* the candidate being tried
  phase,        \* receiver, select, prepare, probe, convert, call, done
  pos,          \* prepare and probe go through the arguments left to right
  prepared,     \* export_candidate_plan::prepared: the accepted arguments
  converted,    \* make_tuple(convert...): arguments done, in any order
  rejected,     \* some converted optional is empty
  outcome,      \* none, value, empty (the empty optional), raised
  called,       \* history: the candidate whose callable was called, 0 if none
  initial,      \* history: the arguments as they were passed in
  mutated,      \* history: foreign code changed a dynamic value
  froms,        \* history: scalar from() calls per argument
  contradicted  \* history: from() was given a value that its probe would not accept

call == <<probing, entry, overloads, argc, aliased, initial>>
plan == <<pos, prepared, converted, rejected>>
history == <<called, mutated, froms, contradicted>>
vars == <<call, args, k, phase, plan, outcome, history>>

Args == 1..argc
Signature == overloads[k]
ArityMatches == Signature # <<Sentinel>> /\ Len(Signature) = argc
Takes(i) == <<Signature[i], args[i]>> \in Accepts
IsDescriptor(i) == Signature[i] \in Descriptors

Init ==
  /\ probing \in BOOLEAN
  /\ entry \in {"optional", "required", "member"}
  /\ overloads \in Tables
  /\ argc \in 0..MaxArgs
  /\ args \in [1..argc -> Values]
  /\ aliased \in BOOLEAN /\ (aliased => argc > 1 /\ \A i, j \in Args : args[i] = args[j])
  /\ entry = "member" =>
       Len(overloads) = 1 /\ Len(overloads[1]) = argc /\ overloads[1] # <<Sentinel>>
  /\ initial = args
  /\ k = 1 /\ phase = IF entry = "member" THEN "receiver" ELSE "select"
  /\ pos = 1 /\ prepared = {} /\ converted = {} /\ rejected = FALSE
  /\ outcome = "none" /\ called = 0 /\ mutated = FALSE
  /\ froms = [i \in Args |-> 0] /\ contradicted = FALSE

-----------------------------------------------------------------------------
\* A candidate's plan and converted tuple go out of scope.
ClosePlan == pos' = 1 /\ prepared' = {} /\ converted' = {} /\ rejected' = FALSE

\* An exception leaves the dispatch; no other candidate is tried.
Raise ==
  /\ phase' = "done" /\ outcome' = "raised"
  /\ ClosePlan
  /\ UNCHANGED <<call, k>>

SkipsNext == k + 2
\* export_overload_dispatch goes on with the tail of the list.
NextCandidate == k + 1

\* export_overload_candidate::call_optional() returns the empty optional.
Mismatch ==
  /\ phase' = "select" /\ k' = NextCandidate
  /\ ClosePlan
  /\ UNCHANGED <<call, outcome>>

\* What a try_make() that runs foreign code may do to the other arguments.
ForeignCode ==
  /\ args' \in [Args -> Values \cup {Moved}]
  /\ \A i \in Args : args[i] = Moved <=> args'[i] = Moved
  /\ aliased => \A i, j \in Args : args'[i] = args'[j]
  /\ mutated' = (mutated \/ args' # args)

-----------------------------------------------------------------------------
\* A member binder binds the receiver before it looks at any argument; an object
\* of another class, or one without a native proxy, raises.
BindReceiver ==
  /\ phase = "receiver"
  /\ \/ phase' = "select" /\ UNCHANGED <<call, k, plan, outcome>>
     \/ Raise
  /\ UNCHANGED <<args, history>>

\* The candidate's arity differs from the number of arguments, or it is the
\* sentinel entry of its group.
SkipCandidate ==
  /\ phase = "select" /\ k <= Len(overloads)
  /\ ~ArityMatches
  /\ k' = k + 1
  /\ UNCHANGED <<call, args, phase, plan, outcome, history>>

\* The list is exhausted.
NoCandidate ==
  /\ phase = "select" /\ k > Len(overloads)
  /\ phase' = "done"
  /\ outcome' = IF entry = "optional" THEN "empty" ELSE "raised"
  /\ UNCHANGED <<call, args, k, plan, history>>

ConvertsAtOnce == "convert"
\* selected_export_arguments_plan: which plan the candidate gets.
FirstPhase ==
  IF ~probing THEN "convert"
  ELSE IF \E i \in Args : IsDescriptor(i) THEN "prepare"
  ELSE "probe"

\* call_optional() constructs the candidate's plan.
OpenCandidate ==
  /\ phase = "select" /\ k <= Len(overloads)
  /\ ArityMatches
  /\ phase' = FirstPhase
  /\ UNCHANGED <<call, args, k, plan, outcome, history>>

\* The constructor of export_candidate_plan prepares each argument in order: for a
\* scalar there is nothing to do,
PrepareScalar ==
  /\ phase = "prepare" /\ pos <= argc /\ ~IsDescriptor(pos)
  /\ prepared' = prepared \cup {pos}
  /\ pos' = pos + 1
  /\ UNCHANGED <<call, args, k, phase, converted, rejected, outcome, history>>

\* a descriptor's try_make() may run foreign code
PrepareDescriptor ==
  /\ phase = "prepare" /\ pos <= argc /\ IsDescriptor(pos)
  /\ ForeignCode
  /\ prepared' = IF Takes(pos) THEN prepared \cup {pos} ELSE prepared
  /\ pos' = pos + 1
  /\ UNCHANGED <<call, k, phase, converted, rejected, outcome, called, froms, contradicted>>

\* or throw.
PrepareThrows ==
  /\ phase = "prepare" /\ pos <= argc /\ IsDescriptor(pos)
  /\ Raise
  /\ UNCHANGED <<args, history>>

Prepared ==
  /\ phase = "prepare" /\ pos > argc
  /\ phase' = "probe" /\ pos' = 1
  /\ UNCHANGED <<call, args, k, prepared, converted, rejected, outcome, history>>

\* The probe of one argument: a descriptor is judged by its prepared handle.
Probes(i) == IF IsDescriptor(i) THEN i \in prepared ELSE Takes(i)

\* probe_export_arguments goes left to right, each probe leaving its value alone,
ProbeAccepts ==
  /\ phase = "probe" /\ pos <= argc /\ Probes(pos)
  /\ pos' = pos + 1
  /\ UNCHANGED <<call, args, k, phase, prepared, converted, rejected, outcome, history>>

\* and stops at the first mismatch;
ProbeRejects ==
  /\ phase = "probe" /\ pos <= argc /\ ~Probes(pos)
  /\ Mismatch
  /\ UNCHANGED <<args, history>>

\* a scalar's probe() may throw.
ProbeThrows ==
  /\ phase = "probe" /\ pos <= argc /\ ~IsDescriptor(pos)
  /\ Raise
  /\ UNCHANGED <<args, history>>

\* The complete candidate is accepted.
Commit ==
  /\ phase = "probe" /\ pos > argc
  /\ phase' = "convert"
  /\ UNCHANGED <<call, args, k, plan, outcome, history>>

-----------------------------------------------------------------------------
\* Converting argument i: the optional it yields is engaged.
Converts(i) ==
  IF probing /\ IsDescriptor(i) THEN i \in prepared
  ELSE Takes(i) /\ <<Signature[i], args[i]>> \notin Refuses

\* from() may move the value out on a probing backend, and has done so even if it
\* rejects it then.
Consumes(i) == probing /\ Signature[i] \in Consuming /\ Takes(i)

\* A scalar's from().
ConvertScalar(i) ==
  /\ ~IsDescriptor(i)
  /\ froms' = [froms EXCEPT ![i] = @ + 1]
  /\ args' = [j \in Args |-> IF Consumes(i) /\ (j = i \/ aliased) THEN Moved ELSE args[j]]
  /\ contradicted' = (contradicted \/ (probing /\ ~Takes(i)))
  /\ UNCHANGED <<called, mutated>>

\* A descriptor: the prepared handle is moved in, or made now.
ConvertDescriptor(i) ==
  /\ IsDescriptor(i)
  /\ IF probing THEN UNCHANGED <<args, mutated>> ELSE ForeignCode
  /\ UNCHANGED <<called, froms, contradicted>>

\* One plan.convert<I>() of the make_tuple() arguments, whose order of
\* evaluation C++ leaves open.
Convert(i) ==
  /\ phase = "convert" /\ i \in Args \ converted
  /\ converted' = converted \cup {i}
  /\ rejected' = (rejected \/ ~Converts(i))
  /\ ConvertScalar(i) \/ ConvertDescriptor(i)
  /\ UNCHANGED <<call, k, phase, pos, prepared, outcome>>

\* from() or a descriptor's try_make() throws.
ConvertThrows(i) ==
  /\ phase = "convert" /\ i \in Args \ converted
  /\ probing => ~IsDescriptor(i)
  /\ Raise
  /\ UNCHANGED <<args, history>>

FallsThrough == Mismatch
\* accepted_export_arguments(): on a probing backend a late rejection is an error.
Rejected == IF probing THEN Raise ELSE Mismatch

RejectArguments ==
  /\ phase = "convert" /\ converted = Args /\ rejected
  /\ Rejected
  /\ UNCHANGED <<args, history>>

AcceptArguments ==
  /\ phase = "convert" /\ converted = Args /\ ~rejected
  /\ phase' = "call"
  /\ UNCHANGED <<call, args, k, plan, outcome, history>>

\* The callable runs, then its result is converted; both may throw, and so does
\* export_argument::get() of an object whose native proxy is gone.
Call ==
  /\ phase = "call"
  /\ \/ /\ called' = k
        /\ phase' = "done" /\ outcome' = "value"
        /\ ClosePlan /\ UNCHANGED <<call, k>>
     \/ called' \in {called, k} /\ Raise
  /\ UNCHANGED <<args, mutated, froms, contradicted>>

Done == phase = "done" /\ UNCHANGED vars

Step ==
  \/ BindReceiver \/ SkipCandidate \/ NoCandidate \/ OpenCandidate
  \/ PrepareScalar \/ PrepareDescriptor \/ PrepareThrows \/ Prepared
  \/ ProbeAccepts \/ ProbeRejects \/ ProbeThrows \/ Commit
  \/ \E i \in Args : Convert(i) \/ ConvertThrows(i)
  \/ RejectArguments \/ AcceptArguments \/ Call

Next == Step \/ Done

Spec == Init /\ [][Next]_vars

-----------------------------------------------------------------------------
\* Every variable has its type.
TypeOK ==
  /\ probing \in BOOLEAN /\ entry \in {"optional", "required", "member"}
  /\ overloads \in Seq(Seq(Params \cup {Sentinel}))
  /\ argc \in Nat /\ aliased \in BOOLEAN
  /\ args \in [Args -> Values \cup {Moved}] /\ initial \in [Args -> Values]
  /\ k \in 1..Len(overloads) + 1
  /\ phase \in {"receiver", "select", "prepare", "probe", "convert", "call", "done"}
  /\ pos \in 1..argc + 1
  /\ prepared \subseteq Args /\ converted \subseteq Args
  /\ rejected \in BOOLEAN /\ mutated \in BOOLEAN /\ contradicted \in BOOLEAN
  /\ outcome \in {"none", "value", "empty", "raised"}
  /\ called \in 0..Len(overloads)
  /\ froms \in [Args -> Nat]

\* The documented rule: the arity matches and every converter accepts the value.
Viable(j) ==
  /\ Len(overloads[j]) = argc
  /\ \A i \in Args : <<overloads[j][i], initial[i]>> \in Accepts \ Refuses

\* Ordered first-viable selection ("the first candidate whose argument conversions
\* succeed wins"): unless foreign code changed the arguments under way, the callable
\* that is called is viable and no earlier overload was, and the empty result means
\* that none is.
FirstViableWins ==
  ~mutated =>
    /\ called # 0 => Viable(called) /\ \A j \in 1..called - 1 : ~Viable(j)
    /\ outcome = "empty" => \A j \in DOMAIN overloads : ~Viable(j)

\* "A complete candidate is validated before any consuming conversion": when the
\* next candidate is looked at, no earlier one has moved a value out; and on a
\* probing backend each scalar from() runs at most once in the whole dispatch,
\* however many candidates were tried: a converter that rejects what its probe
\* accepted, or finds an aliased value consumed, is "never permission to retry".
FailedCandidateConsumesNothing ==
  /\ phase \in {"select", "prepare", "probe"} => \A i \in Args : args[i] # Moved
  /\ probing => \A i \in Args : froms[i] <= 1

\* Descriptor preparation "cannot invalidate an earlier scalar acceptance": whatever
\* its foreign code does, each from() is given a value that its probe still accepts,
\* unless the caller aliased the arguments; the converter alone may reject it then.
ProbeIsBinding == ~aliased => ~contradicted

-----------------------------------------------------------------------------
(* The inductive invariant behind the safety properties.                   *)

Trying == {"prepare", "probe", "convert", "call"}
Fits(i) == <<Signature[i], initial[i]>> \in Accepts
Suits(i) == <<Signature[i], initial[i]>> \in Accepts \ Refuses

\* Before a candidate commits, no value was moved and no scalar converted; after
\* that only the arguments already converted are touched.
IntactInv ==
  /\ phase \in {"receiver", "select", "prepare", "probe"} =>
       \A i \in Args : args[i] # Moved /\ (probing => froms[i] = 0)
  /\ phase \in {"convert", "call"} =>
       \A i \in Args \ converted :
         (~aliased => args[i] # Moved) /\ (probing => froms[i] = 0)
  /\ probing => \A i \in Args : froms[i] <= 1
  /\ ~probing => \A i \in Args : args[i] # Moved
  /\ ~mutated => \A i \in Args : args[i] \in {initial[i], Moved}

\* What the plan of the current candidate has found out so far.
PlanInv ==
  /\ phase \in Trying => k <= Len(overloads) /\ ArityMatches
  /\ phase \in {"prepare", "probe"} => probing /\ converted = {} /\ ~rejected
  /\ phase \in {"receiver", "select"} => converted = {} /\ ~rejected
  /\ phase \in {"receiver", "select"} => pos = 1 /\ prepared = {}
  /\ phase = "prepare" => prepared \subseteq 1..pos - 1
  /\ phase = "probe" => \A i \in 1..pos - 1 : Probes(i)
  /\ probing /\ ~aliased /\ phase = "convert" => \A i \in Args \ converted : Probes(i)
  /\ phase = "call" => converted = Args /\ ~rejected
  /\ called # 0 => phase = "done"
  /\ ~aliased => ~contradicted

\* Unless foreign code interfered, what the plan found out is about the arguments
\* that were passed in.
FitInv ==
  ~mutated =>
    /\ phase \in Trying => \A i \in prepared : IsDescriptor(i) => Fits(i)
    /\ probing /\ phase = "prepare" => \A i \in 1..pos - 1 : IsDescriptor(i) /\ Fits(i) => i \in prepared
    /\ probing /\ phase \in {"probe", "convert", "call"} =>
         \A i \in Args : IsDescriptor(i) /\ Fits(i) => i \in prepared
    /\ probing /\ phase \in {"convert", "call"} => \A i \in Args : Fits(i)
    /\ phase \in {"convert", "call"} =>
         IF rejected THEN ~probing => \E i \in Args : ~Suits(i)
         ELSE \A i \in converted : Suits(i)

\* No overload before the current one is viable.
SelectionInv ==
  /\ ~mutated /\ phase # "done" => \A j \in 1..k - 1 : ~Viable(j)
  /\ FirstViableWins

IInv == TypeOK /\ IntactInv /\ PlanInv /\ FitInv /\ SelectionInv
=============================================================================
