---------------------------- MODULE NapiClasses ----------------------------
(***************************************************************************)
(* Registration with Node.js (src/dynabridge/backends/napi.h): JavaScript     *)
(* functions that carry C++ data (callback holders, class states), the class   *)
(* targets with their constructor references, the registry of the context,   *)
(* and the end of the environment, whose cleanup hooks run last in, first     *)
(* out, before the finalisers.                                               *)
(*                                                                          *)
(* Each Node-API call of a registration may fail.  The context belongs to a   *)
(* cleanup hook of the module, added before or after the class targets, or to  *)
(* static storage, and then it is destroyed after the environment.           *)
(*                                                                          *)
(* A definition whose name says what is wrong with it, placed just before    *)
(* the one it varies, is a seeded fault that shows a property can fail; no   *)
(* action uses it.                                                           *)
(***************************************************************************)
EXTENDS Naturals, Sequences, SequencesExt

CONSTANTS
  Functions,   \* JavaScript functions made by the backend
  None,
  Context      \* the entry of the context among the cleanup hooks

VARIABLES
  alive,      \* the functions that exist
  reachable,  \* those that JavaScript can call
  data,       \* the holder or class state of each: none, live, destroyed
  destroys,   \* history: how often it was destroyed
  finalizer,  \* the functions with a finaliser
  strong,     \* the functions that a napi_ref keeps alive
  releases,   \* history: napi_delete_reference per constructor
  reference,  \* constructor_reference: none, armed (env set), cleaned, freed
  hooks,      \* the environment's cleanup hooks
  local,      \* the class_target_t of the registration in progress
  stored,     \* the class_target_t in the context's registry
  context,    \* alive, destroyed
  late,       \* a Node-API call was made after the environment's end
  env         \* open, hooks, finalizing, closed

js == <<alive, reachable, data, destroys, finalizer>>
refs == <<strong, releases, reference, hooks, late>>
targets == <<local, stored>>
vars == <<js, refs, targets, context, env>>

Init ==
  /\ alive = {} /\ reachable = {} /\ finalizer = {} /\ strong = {}
  /\ data = [f \in Functions |-> "none"]
  /\ destroys = [f \in Functions |-> 0]
  /\ releases = [f \in Functions |-> 0]
  /\ reference = [f \in Functions |-> "none"]
  /\ hooks = <<>>
  /\ local = None /\ stored = None
  /\ context = "alive" /\ late = FALSE /\ env = "open"

Registering == env = "open" /\ context = "alive"
Fresh(f) == data[f] = "none"

-----------------------------------------------------------------------------
(* A function and its data.                                                 *)

\* The data is allocated and freed again: the function could not be created, or its
\* finaliser not be added, in which case the function is garbage.
FunctionFails(f) ==
  /\ Fresh(f)
  /\ data' = [data EXCEPT ![f] = "destroyed"]
  /\ destroys' = [destroys EXCEPT ![f] = @ + 1]
  /\ alive' \in {alive, alive \cup {f}}
  /\ UNCHANGED <<reachable, finalizer>>

\* It exists and owns its data through its finaliser; define() may still fail, and
\* JavaScript then never sees it.
FunctionMadeForGood(f) ==
  /\ Fresh(f)
  /\ data' = [data EXCEPT ![f] = "live"]
  /\ alive' = alive \cup {f}
  /\ reachable' \in {reachable, reachable \cup {f}}
  /\ UNCHANGED <<destroys, finalizer>>
FunctionMade(f) ==
  /\ Fresh(f)
  /\ data' = [data EXCEPT ![f] = "live"]
  /\ alive' = alive \cup {f}
  /\ finalizer' = finalizer \cup {f}
  /\ reachable' \in {reachable, reachable \cup {f}}
  /\ UNCHANGED destroys

\* make_function and make_member_function, with define().
MakeFunction(f) ==
  /\ Registering
  /\ FunctionMade(f) \/ FunctionFails(f)
  /\ UNCHANGED <<refs, targets, context, env>>

\* define_class_impl up to the class_target_t; a failure leaves no target.
DefineClassFails(f) ==
  /\ Registering /\ local = None
  /\ FunctionFails(f) \/ FunctionMade(f)
  /\ UNCHANGED <<refs, targets, context, env>>

\* constructor_reference: the reference is made and the cleanup hook added.
DefineClass(f) ==
  /\ Registering /\ local = None
  /\ FunctionMade(f) /\ f \in reachable'
  /\ strong' = strong \cup {f}
  /\ reference' = [reference EXCEPT ![f] = "armed"]
  /\ hooks' = Append(hooks, f)
  /\ local' = f
  /\ UNCHANGED <<releases, late, stored, context, env>>

\* The hook cannot be added: the reference is deleted again.
HookFails(f) ==
  /\ Registering /\ local = None
  /\ FunctionMade(f) /\ f \in reachable'
  /\ releases' = [releases EXCEPT ![f] = @ + 1]
  /\ reference' = [reference EXCEPT ![f] = "freed"]
  /\ UNCHANGED <<strong, hooks, late, targets, context, env>>

-----------------------------------------------------------------------------
(* Targets.                                                                 *)

\* napi_delete_reference
Delete(c) ==
  /\ strong' = strong \ {c}
  /\ releases' = [releases EXCEPT ![c] = @ + 1]
  /\ late' = (late \/ env \in {"finalizing", "closed"})

\* napi_remove_env_cleanup_hook takes the hook of c out, if there is one.
Without(pending, c) ==
  IF Contains(pending, c)
  THEN RemoveAt(pending, CHOOSE i \in 1..Len(pending) : pending[i] = c)
  ELSE pending

DropTargetKeepsHook(c, pending) ==
  /\ IF c # None /\ reference[c] = "armed" THEN Delete(c)
     ELSE UNCHANGED <<strong, releases, late>>
  /\ reference' = [f \in Functions |-> IF f = c THEN "freed" ELSE reference[f]]
  /\ hooks' = pending
\* ~constructor_reference: one that was not cleaned up removes its hook and releases.
DropTarget(c, pending) ==
  /\ IF c # None /\ reference[c] = "armed" THEN Delete(c)
     ELSE UNCHANGED <<strong, releases, late>>
  /\ reference' = [f \in Functions |-> IF f = c THEN "freed" ELSE reference[f]]
  /\ hooks' = Without(pending, c)

\* export_class_registry::store moves the target in; one stored earlier is replaced.
StoreClass ==
  /\ Registering /\ local # None
  /\ DropTarget(stored, hooks)
  /\ stored' = local /\ local' = None
  /\ UNCHANGED <<js, context, env>>

\* A definition of a member or the constructor throws: the target goes.
RegistrationThrows ==
  /\ Registering /\ local # None
  /\ DropTarget(local, hooks)
  /\ local' = None
  /\ UNCHANGED <<js, stored, context, env>>

-----------------------------------------------------------------------------
(* JavaScript, its collector and the end of the environment.                *)

JsForgets(f) ==
  /\ env = "open" /\ f \in reachable
  /\ reachable' = reachable \ {f}
  /\ UNCHANGED <<alive, data, destroys, finalizer, refs, targets, context, env>>

\* callback_holder_finalizer and class_state_finalizer destroy the data.
Finalize(f) ==
  IF f \in finalizer
  THEN /\ data' = [data EXCEPT ![f] = "destroyed"]
       /\ destroys' = [destroys EXCEPT ![f] = @ + 1]
  ELSE UNCHANGED <<data, destroys>>

Collect(f) ==
  /\ f \in alive
  /\ \/ env = "open" /\ f \notin reachable /\ f \notin strong
     \/ env = "finalizing"
  /\ Finalize(f)
  /\ alive' = alive \ {f} /\ reachable' = reachable \ {f}
  /\ UNCHANGED <<finalizer, refs, targets, context, env>>

\* The module hands its context to a cleanup hook of its own.
OwnContext ==
  /\ env = "open" /\ ~Contains(hooks, Context)
  /\ hooks' = Append(hooks, Context)
  /\ UNCHANGED <<js, strong, releases, reference, late, targets, context, env>>

ShutDown ==
  /\ env = "open" /\ local = None
  /\ env' = "hooks"
  /\ UNCHANGED <<js, refs, targets, context>>

CleanupKeepsEnv(c) == "armed"
\* cleanup() clears env, so that the destructor has nothing left to do.
Cleaned(c) == "cleaned"

\* The hook of a constructor reference: cleanup().
RunCleanup ==
  LET c == Last(hooks) IN
  /\ env = "hooks" /\ hooks # <<>> /\ c # Context
  /\ Delete(c)
  /\ reference' = [reference EXCEPT ![c] = Cleaned(c)]
  /\ hooks' = Front(hooks)
  /\ UNCHANGED <<js, targets, context, env>>

\* The hook that owns the context destroys it, and its registry with it.
RunContextHook ==
  /\ env = "hooks" /\ hooks # <<>> /\ Last(hooks) = Context
  /\ DropTarget(stored, Front(hooks))
  /\ stored' = None /\ context' = "destroyed"
  /\ UNCHANGED <<js, local, env>>

HooksDone ==
  /\ env = "hooks" /\ hooks = <<>>
  /\ env' = "finalizing"
  /\ UNCHANGED <<js, refs, targets, context>>

Closed ==
  /\ env = "finalizing" /\ alive = {}
  /\ env' = "closed"
  /\ UNCHANGED <<js, refs, targets, context>>

\* A context in static storage outlives the environment.
StaticDestruction ==
  /\ env = "closed" /\ context = "alive"
  /\ DropTarget(stored, hooks)
  /\ stored' = None /\ context' = "destroyed"
  /\ UNCHANGED <<js, local, env>>

Finished == env = "closed" /\ context = "destroyed" /\ UNCHANGED vars

Next ==
  \/ \E f \in Functions :
       \/ MakeFunction(f) \/ DefineClass(f) \/ DefineClassFails(f) \/ HookFails(f)
       \/ JsForgets(f) \/ Collect(f)
  \/ StoreClass \/ RegistrationThrows
  \/ OwnContext \/ ShutDown \/ RunCleanup \/ RunContextHook \/ HooksDone \/ Closed
  \/ StaticDestruction \/ Finished

Spec == Init /\ [][Next]_vars

-----------------------------------------------------------------------------
\* A constructor reference is released exactly once, by replacement, by a registration
\* that throws, by its cleanup hook or with the context, and never after the
\* environment's end; no cleanup hook points to a constructor_reference that is gone.
ReferenceReleasedOnce ==
  /\ ~late
  /\ \A c \in Functions :
       /\ releases[c] <= 1
       /\ (reference[c] = "armed") = (c \in strong)
       /\ reference[c] = "freed" => \A i \in DOMAIN hooks : hooks[i] # c
       /\ (env = "closed" /\ reference[c] # "none") => releases[c] = 1

\* What JavaScript can call or a target of the context refers to has live data, and
\* every holder and class state is destroyed exactly once, whichever call failed.
DataDestroyedOnce ==
  /\ \A f \in Functions :
       /\ (f \in reachable \/ (f \in {local, stored} /\ env = "open")) => data[f] = "live"
       /\ destroys[f] = (IF data[f] = "destroyed" THEN 1 ELSE 0)
       /\ env = "closed" => data[f] # "live"

-----------------------------------------------------------------------------
(* The inductive invariant behind the two properties.                      *)

TypeOK ==
  /\ alive \subseteq Functions /\ reachable \subseteq Functions
  /\ finalizer \subseteq Functions /\ strong \subseteq Functions
  /\ data \in [Functions -> {"none", "live", "destroyed"}]
  /\ destroys \in [Functions -> Nat] /\ releases \in [Functions -> Nat]
  /\ reference \in [Functions -> {"none", "armed", "cleaned", "freed"}]
  /\ hooks \in Seq(Functions \cup {Context})
  /\ local \in Functions \cup {None} /\ stored \in Functions \cup {None}
  /\ context \in {"alive", "destroyed"}
  /\ env \in {"open", "hooks", "finalizing", "closed"}

\* A reference is armed exactly while its hook is registered and it keeps its
\* constructor alive; it is released when it leaves that state.
ReferenceInv ==
  /\ IsInjective(hooks)
  /\ \A c \in Functions :
       /\ reference[c] = "armed" <=> c \in Range(hooks)
       /\ reference[c] = "armed" <=> c \in strong
       /\ releases[c] = IF reference[c] \in {"none", "armed"} THEN 0 ELSE 1
  /\ env \in {"finalizing", "closed"} => hooks = <<>>
  /\ ~late

\* What a class target refers to: the registry keeps its reference until the end.
TargetInv ==
  /\ local # None => reference[local] = "armed" /\ local # stored /\ env = "open"
  /\ stored # None => reference[stored] \in {"armed", "cleaned"}
  /\ stored # None /\ env = "open" => reference[stored] = "armed"

\* Live data belongs to an existing function with a finaliser.
DataInv ==
  /\ \A f \in Functions :
       /\ data[f] = "none" => f \notin alive \cup finalizer /\ reference[f] = "none"
       /\ data[f] = "live" => f \in alive \cap finalizer
       /\ f \in alive \cap finalizer => data[f] = "live"
       /\ f \in reachable => f \in alive \cap finalizer
       /\ f \in strong /\ env = "open" => f \in alive \cap finalizer
       /\ destroys[f] = IF data[f] = "destroyed" THEN 1 ELSE 0
  /\ env = "closed" => alive = {}

IInv == TypeOK /\ ReferenceInv /\ TargetInv /\ DataInv
=============================================================================
