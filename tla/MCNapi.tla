------------------------------- MODULE MCNapi -------------------------------
(* Instance for TLC of the three parts of the Node-API backend: wrapped      *)
(* objects, registered functions and classes, calls in both directions. They *)
(* keep no state in common: a behaviour is one of one part, and the states   *)
(* are those of all three.                                                   *)
EXTENDS NapiObjects

CONSTANTS Functions, Context, Contexts, Errors, Native, Value, MaxCalls, Nested

ASSUME ClassesAssumption == None \notin Functions /\ Context \notin Functions \cup {None}
ASSUME CallsAssumption == Native # None /\ MaxCalls \in Nat

VARIABLES
  part,
  functions, reachable, data, destroys, finalizer, strong, releases, reference, hooks,
  local, stored, context, late, functionsEnv,
  stack, ctx, pending, seen, calls

classVars == <<functions, reachable, data, destroys, finalizer, strong, releases, reference,
               hooks, local, stored, context, late, functionsEnv>>
callVars == <<stack, ctx, pending, seen, calls>>

Classes == INSTANCE NapiClasses WITH alive <- functions, env <- functionsEnv
Calls == INSTANCE NapiCalls

MCInit == part \in {"objects", "classes", "calls"} /\ Init /\ Classes!Init /\ Calls!Init

MCNext ==
  \/ part = "objects" /\ Next /\ UNCHANGED <<part, classVars, callVars>>
  \/ part = "classes" /\ Classes!Next /\ UNCHANGED <<part, vars, callVars>>
  \/ part = "calls" /\ Calls!Next /\ UNCHANGED <<part, vars, classVars>>

MCSpec == MCInit /\ [][MCNext]_<<part, vars, classVars, callVars>>

\* The fairness of NapiObjects' FairSpec, for the behaviours of that part.
MCFairSpec ==
  MCSpec /\ WF_vars(part = "objects" /\ Construction) /\ WF_vars(part = "objects" /\ Exit)

\* NapiClasses: a constructor reference is released exactly once, and in time.
ReferenceReleasedOnce == Classes!ReferenceReleasedOnce

\* NapiClasses: a holder or class state is destroyed exactly once.
DataDestroyedOnce == Classes!DataDestroyedOnce

\* NapiCalls: the running frame calls through handles of open scopes only.
HandlesInScope == Calls!HandlesInScope

\* NapiCalls: JavaScript gets the exception it threw itself.
JsErrorReachesCaller == Calls!JsErrorReachesCaller
=============================================================================
