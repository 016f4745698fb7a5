---------------------------- MODULE NapiObjects ----------------------------
(***************************************************************************)
(* Who owns the native proxy of an object exported to Node.js               *)
(* (src/dynabridge/backends/napi.h): construction from JavaScript, handoff   *)
(* of a native that C++ constructed, tagging, wrapping and referencing the   *)
(* JavaScript object, the finaliser, and the end of the environment.         *)
(*                                                                          *)
(* Everything runs on the environment's thread, so one construction is in    *)
(* progress at a time; each Node-API call is a step that may succeed or      *)
(* fail, and JavaScript and the garbage collector run between operations.    *)
(* A constructor call that throws before it has constructed its native       *)
(* (arity, conversion, no exported constructor) changes nothing here.        *)
(*                                                                          *)
(* A definition whose name says what is wrong with it, placed just before    *)
(* the one it varies, is a seeded fault that shows a property can fail; no   *)
(* action uses it.                                                           *)
(***************************************************************************)
EXTENDS Naturals

CONSTANTS
  Objects,         \* JavaScript objects
  Natives,         \* native proxies
  None,            \* nullptr
  MaxRefs,         \* bound: object_t's on one object
  HandoffMayFail   \* Node-API calls may fail inside the constructor that
                   \* napi_new_instance calls for a handoff

ASSUME NapiAssumption ==
  /\ None \notin Natives /\ None \notin Objects
  /\ MaxRefs \in Nat
  /\ HandoffMayFail \in BOOLEAN

VARIABLES
  typeTags,   \* built with NAPI_VERSION >= 8
  alive,      \* the objects that exist
  used,       \* history: the objects that exist or existed
  held,       \* the objects JavaScript code can reach
  refs,       \* strong references that object_t's own
  tagged,     \* the objects with the class's type tag
  wrapped,    \* the native wrapped by each object
  born,       \* history: natives constructed
  deletes,    \* history: how often each native was deleted
  abandoned,  \* history: natives whose handoff was dropped with the native in it
  pc,         \* the operation in progress
  self,       \* the object under construction
  native,     \* construct_export_object_from_native's receiver
  handoff,    \* external_proxy_handoff::receiver
  env         \* open, closing (cleanup hooks ran), closed

heap == <<alive, used, held, refs, tagged, wrapped>>
frame == <<pc, self, native, handoff>>
vars == <<typeTags, heap, born, deletes, abandoned, frame, env>>

Init ==
  /\ typeTags \in BOOLEAN
  /\ alive = {} /\ used = {} /\ held = {} /\ tagged = {}
  /\ refs = [o \in Objects |-> 0]
  /\ wrapped = [o \in Objects |-> None]
  /\ born = {} /\ deletes = [n \in Natives |-> 0] /\ abandoned = {}
  /\ pc = "js" /\ self = None /\ native = None /\ handoff = None
  /\ env = "open"

Delete(n) == deletes' = [deletes EXCEPT ![n] = @ + 1]
Idle == pc = "js" /\ env = "open"
FromJs == handoff = None
MayFail == FromJs \/ HandoffMayFail

\* The operation ends; JavaScript runs on.
Leave ==
  /\ pc' = "js" /\ self' = None /\ native' = None

-----------------------------------------------------------------------------
(* The two ways into a construction.                                       *)

FirstStep == IF typeTags THEN "tag" ELSE "wrap"

\* JavaScript calls the class's constructor: with new, on some other object of its
\* own, or on one that an earlier call was made on.
JsConstruct(o, n) ==
  /\ Idle
  /\ o \notin used \/ o \in held
  /\ n \notin born
  /\ alive' = alive \cup {o} /\ used' = used \cup {o}
  /\ held' \in {held, held \cup {o}}
  /\ born' = born \cup {n}
  /\ self' = o /\ native' = n
  /\ pc' = FirstStep
  /\ UNCHANGED <<typeTags, abandoned, refs, tagged, wrapped, deletes, handoff, env>>

\* make_export_object_impl: C++ constructs the native, for an object to come.
MakeExportObject(n) ==
  /\ Idle
  /\ n \notin born
  /\ born' = born \cup {n}
  /\ handoff' = n
  /\ pc' = "external"
  /\ UNCHANGED <<typeTags, abandoned, heap, deletes, self, native, env>>

ExternalFailsLeaking ==
  /\ pc = "external"
  /\ handoff' = None
  /\ Leave
  /\ UNCHANGED <<typeTags, abandoned, heap, born, deletes, env>>

\* napi_create_external fails: the native is destroyed.
ExternalFails ==
  /\ pc = "external"
  /\ Delete(handoff)
  /\ handoff' = None
  /\ Leave
  /\ UNCHANGED <<typeTags, abandoned, heap, born, env>>

\* target.constructor(), an argument of the call to napi_new_instance, throws:
\* nothing catches it here, and external_proxy_handoff does not own its receiver.
ConstructorFails ==
  /\ pc = "external"
  /\ abandoned' = abandoned \cup {handoff}
  /\ handoff' = None
  /\ Leave
  /\ UNCHANGED <<typeTags, heap, born, deletes, env>>

\* napi_new_instance calls the class's constructor with the external, where
\* try_construct_external_proxy finds the handoff.
NewInstance(o) ==
  /\ pc = "external"
  /\ o \notin used
  /\ alive' = alive \cup {o} /\ used' = used \cup {o}
  /\ self' = o /\ native' = handoff
  /\ pc' = FirstStep
  /\ UNCHANGED <<typeTags, abandoned, held, refs, tagged, wrapped, born, deletes,
                 handoff, env>>

\* napi_new_instance fails without reaching the constructor.
NewInstanceFails ==
  /\ pc = "external"
  /\ pc' = "failed"
  /\ UNCHANGED <<typeTags, abandoned, heap, born, deletes, self, native, handoff, env>>

-----------------------------------------------------------------------------
(* construct_export_object_from_native.                                    *)

\* An exception leaves class_constructor, which turns it into a JavaScript one; in
\* a handoff napi_new_instance reports it to make_export_object_impl.
Throw ==
  /\ IF FromJs THEN Leave ELSE pc' = "failed" /\ UNCHANGED <<self, native>>
  /\ UNCHANGED handoff

\* napi_type_tag_object accepts an object once.
TagObject ==
  /\ pc = "tag" /\ self \notin tagged
  /\ tagged' = tagged \cup {self}
  /\ pc' = "wrap"
  /\ UNCHANGED <<typeTags, abandoned, alive, used, held, refs, wrapped, born, deletes,
                 self, native, handoff, env>>

TagFails ==
  /\ pc = "tag" /\ (self \in tagged \/ MayFail)
  /\ Delete(native)
  /\ Throw
  /\ UNCHANGED <<typeTags, abandoned, heap, born, env>>

\* napi_wrap accepts an object once; the object's finaliser owns the native now.
WrapObject ==
  /\ pc = "wrap" /\ wrapped[self] = None
  /\ wrapped' = [wrapped EXCEPT ![self] = native]
  /\ pc' = "reference"
  /\ UNCHANGED <<typeTags, abandoned, alive, used, held, refs, tagged, born, deletes,
                 self, native, handoff, env>>

WrapFails ==
  /\ pc = "wrap" /\ (wrapped[self] # None \/ MayFail)
  /\ Delete(native)
  /\ Throw
  /\ UNCHANGED <<typeTags, abandoned, heap, born, env>>

\* handoff->receiver = nullptr: the object has taken the native over.
StillHandedOff == handoff
TakenOver == None

\* reset() references the object, and the object_t that built it lets go again.
\* A constructed object is returned to JavaScript or to napi_new_instance.
Constructed ==
  /\ pc = "reference"
  /\ IF FromJs
     THEN held' = held \cup {self} /\ Leave
     ELSE UNCHANGED <<held, self, native>> /\ pc' = "returned"
  /\ handoff' = IF FromJs THEN handoff ELSE TakenOver
  /\ UNCHANGED <<typeTags, abandoned, alive, used, refs, tagged, wrapped, born,
                 deletes, env>>

\* napi_create_reference fails.
ReferenceFails ==
  /\ pc = "reference" /\ MayFail
  /\ Throw
  /\ UNCHANGED <<typeTags, abandoned, heap, born, deletes, env>>

\* make_export_object_impl: a receiver that is still set was not taken over.
Failed ==
  /\ pc = "failed" \/ (pc = "returned" /\ handoff # None)
  /\ IF handoff # None THEN Delete(handoff) ELSE UNCHANGED deletes
  /\ handoff' = None
  /\ Leave
  /\ UNCHANGED <<typeTags, abandoned, heap, born, env>>

\* The object_t that make_export_object_impl returns, if its reference can be made.
Returned ==
  /\ pc = "returned" /\ handoff = None
  /\ refs' \in {refs, [refs EXCEPT ![self] = @ + 1]}
  /\ Leave
  /\ UNCHANGED <<typeTags, abandoned, alive, used, held, tagged, wrapped, born,
                 deletes, handoff, env>>

-----------------------------------------------------------------------------
(* Between the operations.                                                 *)

\* C++ refers to an object that JavaScript passed in.
Refer(o) ==
  /\ Idle /\ o \in held /\ refs[o] < MaxRefs
  /\ refs' = [refs EXCEPT ![o] = @ + 1]
  /\ UNCHANGED <<typeTags, abandoned, alive, used, held, tagged, wrapped, born,
                 deletes, frame, env>>

\* An object_t is destroyed, reset or assigned to.
Release(o) ==
  /\ Idle /\ refs[o] > 0
  /\ refs' = [refs EXCEPT ![o] = @ - 1]
  /\ UNCHANGED <<typeTags, abandoned, alive, used, held, tagged, wrapped, born,
                 deletes, frame, env>>

\* The object goes to JavaScript, as a named instance or as a call's result.
HandToJs(o) ==
  /\ Idle /\ refs[o] > 0
  /\ held' = held \cup {o}
  /\ refs' = [refs EXCEPT ![o] = @ - 1]
  /\ UNCHANGED <<typeTags, abandoned, alive, used, tagged, wrapped, born, deletes,
                 frame, env>>

JsForgets(o) ==
  /\ Idle /\ o \in held
  /\ held' = held \ {o}
  /\ UNCHANGED <<typeTags, abandoned, alive, used, refs, tagged, wrapped, born,
                 deletes, frame, env>>

\* native_finalizer deletes the native and needs no context.
FinalizerNeedsContext(o) ==
  IF wrapped[o] = None \/ env # "open" THEN UNCHANGED deletes ELSE Delete(wrapped[o])
Finalizer(o) ==
  IF wrapped[o] = None THEN UNCHANGED deletes ELSE Delete(wrapped[o])

\* The collector takes an object nobody refers to; at the end of the environment
\* every object is finalised.
Collect(o) ==
  /\ pc = "js" /\ o \in alive
  /\ env = "open" => o \notin held /\ refs[o] = 0
  /\ alive' = alive \ {o} /\ held' = held \ {o}
  /\ refs' = [refs EXCEPT ![o] = 0]
  /\ Finalizer(o)
  /\ UNCHANGED <<typeTags, abandoned, used, tagged, wrapped, born, frame, env>>

\* The environment shuts down: its cleanup hooks run, then the finalisers.
ShutDown ==
  /\ Idle
  /\ env' = "closing"
  /\ UNCHANGED <<typeTags, abandoned, heap, born, deletes, frame>>

Closed ==
  /\ env = "closing" /\ alive = {}
  /\ env' = "closed"
  /\ UNCHANGED <<typeTags, abandoned, heap, born, deletes, frame>>

Finished == env = "closed" /\ UNCHANGED vars

Construction ==
  \/ ExternalFails \/ ConstructorFails
  \/ NewInstanceFails \/ (\E o \in Objects : NewInstance(o))
  \/ TagObject \/ TagFails \/ WrapObject \/ WrapFails
  \/ Constructed \/ ReferenceFails \/ Failed \/ Returned
Exit == env # "open" /\ (Closed \/ \E o \in Objects : Collect(o))

Next ==
  \/ \E o \in Objects, n \in Natives : JsConstruct(o, n)
  \/ \E n \in Natives : MakeExportObject(n)
  \/ Construction
  \/ \E o \in Objects : \/ Refer(o) \/ Release(o) \/ HandToJs(o)
                        \/ JsForgets(o) \/ Collect(o)
  \/ ShutDown \/ Closed \/ Finished

Spec == Init /\ [][Next]_vars

\* An operation runs to its end, and an environment that shuts down gets there.
FairSpec == Spec /\ WF_vars(Construction) /\ WF_vars(Exit)

-----------------------------------------------------------------------------
\* Every variable has its type; a receiver is handed off only while
\* make_export_object_impl runs.
TypeOK ==
  /\ typeTags \in BOOLEAN
  /\ alive \subseteq used /\ used \subseteq Objects /\ held \subseteq alive
  /\ tagged \subseteq used
  /\ refs \in [Objects -> Nat]
  /\ wrapped \in [Objects -> Natives \cup {None}]
  /\ born \subseteq Natives /\ abandoned \subseteq born /\ deletes \in [Natives -> Nat]
  /\ pc \in {"js", "external", "tag", "wrap", "reference", "returned", "failed"}
  /\ self \in Objects \cup {None} /\ native \in Natives \cup {None}
  /\ handoff \in Natives \cup {None}
  /\ handoff # None => pc \notin {"js", "returned"}
  /\ env \in {"open", "closing", "closed"}

\* The native that bind_export_object and try_bind_export_object give a callback.
Bound(o) == IF typeTags /\ o \notin tagged THEN None ELSE wrapped[o]

\* A native is deleted at most once: by the construction that failed, by the code
\* that handed it off or by the finaliser, but never by two of them; and a callback
\* never receives a deleted one: what an existing object unwraps to is live.
NativeDeletedOnce ==
  /\ \A n \in Natives : deletes[n] <= 1
  /\ \A o \in alive : Bound(o) # None => deletes[Bound(o)] = 0

\* Once no construction is in progress, a live native is wrapped by an object whose
\* finaliser will delete it, or make_export_object_impl let go of it because the
\* class's constructor could not be fetched: exactly those natives leak, and no other
\* failure path leaks one.
NothingLeaks ==
  pc = "js" => \A n \in born :
    deletes[n] = 0 <=> n \in abandoned \/ \E o \in alive : wrapped[o] = n

\* An environment that shuts down deletes every native but those, although its
\* context may be gone when the finalisers run.
ExitReclaims == (env = "closing") ~> (\A n \in born \ abandoned : deletes[n] > 0)

-----------------------------------------------------------------------------
(* The inductive invariant behind the safety properties, for an environment  *)
(* whose calls do not fail inside a handoff.                                 *)

\* A native has at most one wrapper, and an existing wrapper's native is live; what
\* an object_t refers to exists.
WrapperInv ==
  /\ \A o \in Objects : refs[o] > 0 => o \in alive
  /\ \A o \in Objects : wrapped[o] # None => o \in used /\ wrapped[o] \in born
  /\ \A o, p \in Objects : wrapped[o] # None /\ wrapped[o] = wrapped[p] => o = p
  /\ \A o \in alive : wrapped[o] # None => deletes[wrapped[o]] = 0

Unwrapped(n) == \A o \in Objects : wrapped[o] # n

\* Who owns the native of the construction in progress.
FrameInv ==
  /\ pc \in {"tag", "wrap", "reference", "returned"} => self \in alive
  /\ pc \in {"tag", "wrap", "reference"} => native \in born /\ deletes[native] = 0
  /\ pc \in {"tag", "wrap"} => Unwrapped(native)
  /\ pc = "reference" => wrapped[self] = native
  /\ pc \in {"external", "failed"} =>
       handoff \in born /\ deletes[handoff] = 0 /\ Unwrapped(handoff)
  /\ handoff # None /\ pc \in {"tag", "wrap", "reference"} => native = handoff
  /\ handoff # None /\ pc \in {"tag", "wrap"} =>
       self \notin tagged \/ pc = "wrap"
  /\ handoff # None /\ pc \in {"tag", "wrap"} => wrapped[self] = None
  /\ env # "open" => pc = "js"

\* The owner of a live native that no object wraps yet.
Owner ==
  IF pc \in {"tag", "wrap"} THEN native
  ELSE IF pc \in {"external", "failed"} THEN handoff
  ELSE None

DeleteInv ==
  /\ \A n \in Natives : deletes[n] \in {0, 1} /\ (n \notin born => deletes[n] = 0)
  /\ \A n \in born : deletes[n] = 0 =>
       n = Owner \/ n \in abandoned \/ \E o \in alive : wrapped[o] = n
  /\ \A n \in abandoned : deletes[n] = 0 /\ n # Owner /\ Unwrapped(n)

IInv == TypeOK /\ WrapperInv /\ FrameInv /\ DeleteInv
=============================================================================
