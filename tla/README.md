# A TLA+ verification of dynabridge

dynabridge is a header-only C++14 library that bridges C++ functions and classes
to foreign runtimes: CPython, Node-API and a byte-oriented RPC transport. This
directory holds TLA+ models of the parts of `src/dynabridge` whose correctness
depends on state, order and concurrency, the TLC runs that check them and the
TLAPS proofs about them. `PROJECT.json` lists components, runs, seeded faults,
the map from definitions to source lines, hazards, findings and theorems.

## 1. Inventory

| Part | Source | State | Operations | What makes it correct |
|---|---|---|---|---|
| Asynchronous invocation | `async.h` | `operation_state`: `delivered`, `retired`, `submitting`, `cleaned`, `pending_detach`, the owned context, operation, handler and access owner | `start`, `finish`, `detach`, `reject`, `submitted`, `cleanup`, token copies | one delivery, nothing freed while in use, no lost cleanup, rejection beats a provisional detach |
| Flux Foundry awaitable | `extensions/flux_foundry/async.h` | the optional call, the handler slot | `submit`, `resume`, sink `emplace` | one resume per submit, no use of the awaitable after it, the handler always served |
| uv executor | `extensions/flux_foundry/uv_executor.h` | queue, `closing`, the async handle | `dispatch`, `close`, `on_async`, `on_closed` | no lost wakeup, no lost task, no touch after deletion |
| Python executor | `extensions/flux_foundry/python_interpreter_executor.h` | queue, `stopping_`, the worker, the GIL | `dispatch`, `shutdown`, `run` | GIL around every task, drain before join, no deadlock with the GIL |
| RPC | `backends/rpc.h` | wire bytes, reader position, router table | encode/decode, `define`, `dispatch`, loopback call | every decode inverts its encode and rejects anything else, a name is served by its last binder, a call means the same at both ends |
| Export dispatch | `export_callable.h` | argument plans, overload table | probe, plan, select, call | the selected overload is the first viable one, and no argument is converted before selection |
| Node-API backend | `backends/napi.h` | handle ownership, class states, callback holders, cleanup hooks, import contexts with cached handles, the pending exception | construct, unwrap, finalise, register, call in both directions | each native, holder and reference is released once, handles are used in their scope, JavaScript gets its own exception back |
| Python backend | `backends/python.h` | references, types, instances, the error indicator | register, construct, dealloc, vectorcall, call in both directions | reference counts balance on every path, null exactly with an error, the original error survives |
| Import side | `import_*.h`, `interface.h`, `backend_base.h` | backend holders, resolved symbols | `invoke` | a call goes through a live backend and returns one converted result |
| Declaration macros | `export_generate.h`, `import_generate.h`, `async_generate.h` | none at run time | preprocessor expansion | outside the reach of a state model |
| Value storage | `optional.h`, `traits.h` (`export_native_storage`) | `has_value_`, `native_`, `owns_` over raw storage | construct, copy, move, emplace, reset | an object is alive exactly while a flag says so |
| Utilities | `inplace.h`, `type_list.h`, `callable.h`, `error_policy.h` | none | - | compile-time |

How the parts interact. A generated export declares a list of overloads; its
binder is stored by a backend and dispatches every foreign call through
`export_callable.h`. A generated import looks a symbol up through its backend and
forwards the call. An asynchronous import wraps such a call into an `invocation`,
whose submit body hands completion tokens to a backend; the Flux Foundry adapter
turns an invocation into an awaitable, and the two executors move continuations to
the libuv loop or to a Python thread.

What is hard. Tokens are copied and used on any thread while the submit body may
still be running inside the operation; the executors' queues are shared with a
loop or a worker that may already be closing; overload selection runs foreign
code between two looks at the same dynamic value; native objects are handed from
C++ to a garbage-collected runtime that may refuse them half way; releasing a
reference runs foreign code while an error is pending; calls nest through the
foreign runtime and share contexts, objects and handle scopes with the frames they
return to.

## 2. Modules

| Module | Models | Uses |
|---|---|---|
| `AsyncContract` | what an owned invocation promises, without threads | - |
| `AsyncInvocation` | `async.h`: `static_invocation::start`, `operation_state`, tokens | `AsyncContract` (refinement) |
| `AsyncInvocationProofs` | theorems about the invocation and the awaitable | `FluxAwaitable`, which extends `AsyncInvocation` |
| `UvExecutor` | `uv_executor.h` | - |
| `UvExecutorProofs` | its theorems | `UvExecutor` |
| `PythonExecutor` | `python_interpreter_executor.h` | - |
| `PythonExecutorProofs` | its theorems | `PythonExecutor` |
| `ExportDispatch` | one dispatch of an exported callable, `export_callable.h` | - |
| `ExportDispatchProofs` | its theorems | `ExportDispatch` |
| `NapiObjects` | ownership of exported natives, `backends/napi.h` | - |
| `RpcCodec` | the wire format, `backends/rpc.h`: writer, reader, frames | - |
| `RpcLink` | one frame under way and its decoding | `RpcCodec` |
| `RpcRouter` | the route table, `dispatch` and the client's call, `backends/rpc.h` | `RpcCodec` |
| `RpcProofs` | theorems about the codec, the link, the table and the call | `MCRpc`, which holds the router and an instance of the link |
| `PythonObjects` | classes and instances exported to Python, `backends/python.h` | - |
| `PythonCalls` | calls to and from Python: errors and argument references | - |
| `PythonProofs` | theorems about the two Python modules | `PythonObjects`, `PythonCalls` |
| `NapiClasses` | functions, classes and the end of the environment, `backends/napi.h` | - |
| `NapiCalls` | calls to and from JavaScript: handle scopes and exceptions | - |
| `NapiProofs` | theorems about the three Node-API modules | `MCNapi`, which holds one instance of each |
| `FluxAwaitable` | `extensions/flux_foundry/async.h` | `AsyncInvocation` (composed) |
| `ValueStorage` | `optional<T>` and `export_native_storage<Native>` | - |
| `ValueStorageProofs` | its theorem | `ValueStorage` |
| `MC*` | instances for TLC: one module, or the modules of one backend side by side | the modules they check |

Seeded faults. Next to some definitions stands a second one with the same
parameters whose name says what is wrong with it (`CleanUpTwice` before
`MayCleanUp`). No action uses it. Putting it in the place of the right one must
make TLC report the property it is paired with under `mutants`; that is how each
property is shown to depend on the code it is about.

### AsyncInvocation

Variables are the fields of `operation_state` (flags, the slots for context,
operation, handler and access owner, `pending_detach`), `deliver()`'s locals per
thread, and histories of what the observer saw. `pc[t]` says where a thread is.
Each `lock_guard` block is one action (`DeliverLock`, `CleanupLock`, `Submitted`,
`RejectCheck`); what the code does outside the lock is split into further actions
(`TakeHandler`, `ReleaseAccess`, `InvokeCallback`, `ResetOperation`,
`ResetContext`), because other threads run in between. The starter runs `start()`
and the submit body; every caller owns a copy of the token and uses it for one
`finish()` or `detach()`, or drops it. `ReleaseState` is the end of a thread's
shared ownership; the last one destroys what is left.

`Disciplined` separates two worlds. When it is false, backends do anything the
types allow: finish twice, finish after a rejection, throw out of a continuation.
When it is true the guards state the documented contract: accepted work is
finished by somebody, a rejected submission is not finished as well, a
continuation does not throw.

Results are identified by the call that carries them, so "which result did the
observer see" can be asked without modelling values.

### UvExecutor and PythonExecutor

The queues, the closing flag and the worker's or the loop's local batch are
variables; a task is a pair of the dispatching thread and a sequence number. The
libuv handle is modelled by what the executor relies on: a send sets a flag,
sends coalesce, an iteration clears it and calls `on_async`, nothing but
`on_closed` follows `uv_close`. CPython is modelled by its GIL and the condition
variable by `wait`, `notify_one` outside the mutex and spurious wakeups.

### ExportDispatch

One call from its first look at the overload list to its end. The overload list,
the arguments and the relation between parameter types and values that the
converters accept are parameters; TLC takes every list of at most two signatures.
`probing` backends (those with `rpc_export_probe_policy`) probe first and then
convert, others convert and test. `ForeignCode` is what a descriptor's `try_make`
may do to the other arguments, and `Convert(i)` may be taken in any order because
`make_tuple`'s arguments are unsequenced. `Refuses` holds the pairs whose probe accepts and
whose `from()` rejects all the same, as a converter with an inconsistent probe does; the
conversion then raises and no other candidate is tried. `aliased` calls pass one value in
every position (`std::ref` of one RPC value, as in `tests/rpc_probe_test.cpp:287-299`): a
consuming conversion empties all of them. Such a call may find a value gone that its probe
accepted, so `ProbeIsBinding` excludes it, while the other two properties do not. Left out
are accessors of the user's own that change values and arguments that other threads change,
which `docs/rpc-probes.md` excludes too.

### NapiObjects

JavaScript objects (which exist, which JavaScript can reach, how many `object_t`
reference them, which are tagged, what they wrap) and natives (constructed, how
often deleted). One construction is in progress at a time; `pc` is its next
Node-API call, and each call is one action for its success and one for its
failure. A construction starts from JavaScript (`JsConstruct`, with `new` or on an
object JavaScript already has) or from C++ (`MakeExportObject`, which hands the
native to the constructor through `external_proxy_handoff`). Node-API is external:
an object is tagged once and wrapped once, a wrapped object's finaliser runs when
it is collected or when the environment ends, after the cleanup hooks.
One failing call has no handler: `target.constructor()`, evaluated among the arguments of
`napi_new_instance` (`napi.h:564`), throws after the native was constructed, and
`external_proxy_handoff` does not own its receiver. `ConstructorFails` is that path; it puts
the native into `abandoned`. The native leaks, and `NothingLeaks` and `ExitReclaims` say
that natives lost in this way are exactly those that do (section 6).
`HandoffMayFail` says whether calls may fail inside a handed-off construction.

### RpcCodec and RpcLink

`RpcCodec` gives `writer`, `reader`, `encode_*` and `try_decode_*` as operators. A
byte ranges over `0..Base - 1` and the 32- and 64-bit integers have `W32` and `W64`
bytes, so that every frame of a small instance can be enumerated. The reader is its
position and its sticky `valid_` flag; a read returns the reader after it together
with the value. Lengths that do not fit are refused before there is a frame
(`Writable`). `RpcLink` takes any message the encoders accept, lets a transport
(external) lose the end of the frame, append to it or change a byte, and has the
peer try it as a request and as a response. `malformed` stands for the `false` of
`try_decode_request`, the status of `try_decode_response` and the `protocol_error`
that `decode_request` and `decode_response` raise for them. One thing has several encodings:
a Boolean reads as true when its byte is not zero. `Forms(v)` are the values whose encodings
are read as `v`, and `DecodingInverts` asks that what was decoded has a form whose encoding is
the received frame, byte by byte; versions, kinds, counts, lengths and numbers have no
second form.

### RpcRouter

The route table has the routes (id, name, owned binder) in the slots 1 to n, as the
vector in the code, and in slot 0 the temporary of `define`, so that each move of a route
(`MoveConstruct`, `MoveAssign`, the shift of `Insert`) and each `reset()` can be followed to
the binder it deletes; `define` may also fail at the allocation of the vector. A name's 64-bit id is a parameter,
so that two names can collide: `define` compares names and refuses a second name with
the id of the first, while `dispatch` compares ids only, so that an import of a name
nobody defined can reach a handler whose id it shares. `ServesLastDefined` is therefore
about defined names. A call travels through `RpcCodec`'s encoders and decoders;
converters are modelled by their ranges (`To`, `From`), with integers of a reduced width.
`stage` says how far the call in progress is. `RouterAssumption` states what C++ types give
for nothing: handlers return values of their result type, ids have 64 bits, a 32-bit
integer is not wider than a 64-bit one, and the arguments of an import are wire values
that fit a frame (for any others the client raises before there is a request).

### PythonObjects and PythonCalls

`PythonObjects` counts references the way the code does (`heap`) next to the references
that exist (`attr`, `target`, `local`, `py`, `cpp`, the frames). A construction is a frame
on a stack, because converting an argument and running the native constructor may call
Python, which may construct, call and drop objects. `Reenter` lets Python call `__init__`
on an object that is being constructed. `mode` is where the vectorcall put the argument
array (the caller's spare slot, the stack, the heap).

`PythonCalls` follows one exported call and the imported calls its body makes: the error
indicator, the C++ exception in flight, what a `python_error` carries and who holds each
reference. An imported call has two builds (`vector`: `call_vector` or `call_tuple`) and two
kinds of arguments (`raw`: plain pointers or `object_ref`s). Three places drop references:
`decref_args`, which takes plain pointers only (`DecrefArgs`), the argument tuple, to which
`fill_tuple` moves the references of either kind (`FillTuple`), and the destructors that run
when the frames of the call end (`FrameEnds`). The call's outcome and the end of its frames
are separate actions, because what is dropped in between meets the error indicator.
`ReferencesDroppedOnce` compares the drops of all three places with `gained`, the references
that lowering produced. Dropping a reference may run a finaliser, which may replace or clear a
pending error (`Finalised`). `Swallows` lets a body handle the exception of an argument
that could not be converted.

### NapiClasses and NapiCalls

`NapiClasses` is about what outlives what: functions and their data, finalisers, the
reference a class target owns, the cleanup hooks in their last-in first-out order, the
context that a hook or static storage owns, and the phases in which an environment ends.
Each Node-API call of a registration may fail.

`NapiCalls` is a stack of C++ frames, each with its handle scope, the import contexts with
the scope of each cached handle, and the environment's pending exception. A frame uses a
context after creating or refreshing it. `Nested` lets a frame refresh a context that a
frame further out is using.

### FluxAwaitable

Extends `AsyncInvocation` with the flow around it: every step of the invocation is one of
its actions, `Forward` is its `InvokeCallback` together with the `resume()` the continuation
makes, `StartCall` and `StartThrows` are its `Start` and `Discard`. Flux Foundry is external:
it may release the awaitable as soon as a result was emitted, although `submit()` may still
be running. When `start_invocation()` cannot store the handler (`SlotThrows`) its exception
goes to the caller instead; `HandlerServed` counts that as an answer, and `ResumedOnce` says
that the handler is then not called as well.

### ValueStorage

`live` is the set of cells that hold a constructed object; `hasValue`, `native` and `owns`
are what the code remembers. `Objects` says what an operation destroys, reads, constructs
and destroys again, in that order, and collects in `broken` each cell where that was wrong.

## 3. Runs

| Run | Bounds | Shows |
|---|---|---|
| `async_safety` | 3 token copies, any backend, which may keep its tokens forever | one delivery; one owner of the handler; nothing freed in use; access released before a terminal continuation; one cleanup, never lost; a detach reaches the observer |
| `flux_awaitable` | 2 token copies, contract kept | one resume, no use of a released awaitable, the handler is served; the invocation refines `AsyncContract`, rejection wins, no abort, a started call delivers |
| `uv_executor` | 2 producers and the loop, 2 tasks each, rounds of 2 | each task once and in order, none lost to the close; no touch after deletion; everything runs, close frees |
| `uv_close_off_loop` | 1 producer, close on another thread | violation, see section 6 |
| `python_executor` | 2 clients, 2 tasks each | GIL around every touch; order and drain; everything runs; shutdown returns |
| `export_dispatch` | up to 2 overloads of up to 2 parameters, 3 types, 2 values, converters that refuse what they probed, aliased arguments | first viable wins, nothing consumed early, one conversion per scalar, probes are binding |
| `rpc_backend` | link: bytes 0..7, 1-byte lengths, 2-byte numbers, up to 2 arguments, one changed byte, one appended byte, cuts of any length; router: 4 names, 2 with one id, 3 binders | an intact frame arrives as sent, a shortened or extended one is refused, what is accepted encodes to exactly the bytes received; binders deleted once, a defined name reaches its last binder, arguments, results and errors are faithful |
| `python_backend` | objects: 2 types, 2 objects, 3 natives, 2 nested constructions; calls: 3 arguments, 2 imported calls per body, 2 exceptions, with and without vectorcall | reference counts exact, natives balanced, argument slots given back; null exactly with an error, the original error survives, references dropped once |
| `python_reenter` | the same with re-entered `__init__` | violation, see section 6 |
| `napi_backend` | objects: 3 objects, 3 natives, 2 references; classes: 3 functions; calls: 2 contexts, 2 exceptions, 3 entries | each native deleted once, never bound after that, none leaked and all reclaimed at exit but those `target.constructor()` abandons; references released once and in time, holders and class states destroyed once; handles of open scopes only, JavaScript's exception reaches its caller |
| `napi_handoff_fails` | 2 objects, 2 natives, failing calls in a handoff | violation, see section 6 |
| `value_storage` | 3 optionals, 3 storages, 2 foreign natives | objects alive exactly while a flag says so |

The modules of one backend (`RpcLink` and `RpcRouter`; `PythonObjects` and `PythonCalls`;
`NapiObjects`, `NapiClasses` and `NapiCalls`) have no state in common. Their `MC` module
checks them side by side: the initial state chooses the part that runs, so that the states
are the sum of the parts' and not their product, and every invariant and every action
property is checked in all of them.

Why the bounds are enough. Every claim in `operation_state` (`delivered`,
`retired`, `cleaned`) is contested by at most two threads and observed by a
third, so three copies and the starter reach each race with a bystander; the
theorems lift the bound altogether. In the uv run six tasks and rounds of two
give full rounds, leftovers that need a rearm, and a send that coalesces with
one. Two overloads and two arguments give a candidate that fails late after an
earlier argument was accepted, followed by one that succeeds; again the theorems
hold for every list. The Python run has two clients because a second shutdown can
only overlap the first, and two tasks per thread because order needs two. Three
objects and natives give a failed, a repeated and a handed-off construction in one
behaviour. Eight byte values leave two kinds that do not exist; two-byte numbers make
the byte order matter; one-byte lengths put the largest length within reach, and one
payload is a string one byte longer. In the router two names that share an id and a third
that does not give collision, replacement and insertion in one table. Two nested
constructions are one inside another's argument conversion or constructor, which is
where a shared slot or count could go wrong. Three entries give a frame, the callback
inside it and a later frame that meets the context both left behind. Three optionals
let one be assigned from two others; `LifetimesMatch` is proved without the bound.

## 4. Fairness

* `AsyncInvocation.ThreadFairness`: submit bodies and continuations return and
  threads that are inside `async.h` go on; its locked blocks are short and contain
  no calls to user code. Under
  `ThreadFairSpec` the backend owes nothing: `DetachDelivers` holds although it keeps
  its tokens forever.
* `UvExecutor.FairSpec`: the loop keeps running, as `reference.md` demands of the
  caller, and a thread inside `close()` goes on. No fairness for producers.
* `PythonExecutor.FairSpec`: CPython hands the GIL over to waiting threads (strong
  fairness for `PyGILState_Ensure` and `PyEval_RestoreThread`), clients that
  entered Python let go of the GIL in the end, threads inside the executor go on.
* `NapiObjects.FairSpec`: an operation runs to its end and Node finalises every
  object of an environment that shuts down. Collection before that is not assumed.
  `MCNapi` restates it for the behaviours of that part.
* `FluxAwaitable.FluxFairSpec`: the same threads, and each token copy is used or destroyed
  in the end, which is the backend's documented duty; Flux Foundry carries every result it
  was given to the sink and `submit()` runs on.

## 5. Proofs

TLC checks the properties on the instances of section 3; the theorems below hold for every
value of the constants. Each rests on an inductive invariant, a conjunction of named parts
that stands at the end of the module it is about or, for the RPC backend, before its proofs;
TLC has checked it on the run of that module before it was proved. There is one lemma per
conjunct and, under it, one step per action, or one lemma per action where an action moves
several variables at once.

`AsyncInvocationProofs`, for every set of token copies: `TypeCorrect`,
`AtMostOneDelivery`, `LifetimeSafety`, `ExclusiveAccess`, `AccessReleasedFirst`,
`CleanupNeverLost`, `RejectionSafety` and, for a backend that keeps its contract, `Implementation`
(the specification implements `AsyncContract`). The only assumption is
`ThreadsAssumption` (the starter is not a caller, `None` is no thread). `IInv`, which none
of the properties is by itself, says what each flag means for the threads: `submitting` is
the starter's place in `start()` (`SubmissionInv`); `delivered` has one claimant,
who holds the handler until it is invoked (`DeliveryInv`); `retired` has one
claimant, who takes the access owner along (`RetirementInv`); `cleaned` has one
claimant after both retirement and submission, and until somebody is that
claimant, somebody is still on the way to `cleanup()` (`CleanupInv`, the heart of
`CleanupNeverLost`); during a submission nobody but the rejection can deliver
unless a `finish()` was made (`RejectionInv`); accepted work has a token that can
finish it (`ObligationInv`, which the refinement needs so that the last owner
never frees an unretired operation).

The same module carries them over to the flow around an invocation. Each step of
`FluxAwaitable` is a step of the invocation or leaves it alone (`FluxStepsInvocation`), so
that `IInv` holds there too and `FlowImplements` follows. `FlowResumedOnce` needs `FluxInv`:
the flow has a result exactly when the continuation was invoked (`FlowInv`), and the sink
has been served exactly when the flow is over (`SinkInv`).

`ExportDispatchProofs`, for all types, values, acceptance and refusal relations and overload
lists: `TypeCorrect`, `OrderedFirstViable`, `SelectionBeforeConsumption` and `ProbesBind`. The
invariant relates the plan to the arguments: what was probed still holds (`PlanInv`),
untouched arguments are untouched (`IntactInv`), without foreign interference the plan
speaks about the arguments that were passed in (`FitInv`), and no overload before the
current one is viable (`SelectionInv`).

`UvExecutorProofs`, for any producers, any number of tasks and any `max_tasks_per_round`:
`TasksSurviveClose`, and `DeletedLast` if `close()` is called on the loop thread, which
section 6 shows to be needed. Each task is in one place (the queue, the round, or what ran:
`PlaceInv`), behind the earlier ones of its thread wherever those are (`OrderInv`), and the
handle closes only when the first two places are empty (`CloseInv`).

`PythonExecutorProofs`, for any clients and any number of tasks: `GilHeldForTasks` and
`ShutdownDrainsQueue`. The thread that holds the GIL is the one whose place in the code says
so (`GilInv`); a task is queued, in the hands of the worker, or run and destroyed
(`TaskInv`), and the worker has left its loop only when the queue is empty and nobody can
add to it (`PlaceInv`).

`PythonProofs`, about `PythonObjects`, for any number of types, instances, natives and nested
constructions, from `ObjectsAssumption` (finitely many addresses, `Null` is no type and no native):
`CountsExact`, `ArgumentsReturned` and, if `~Reenter` (section 6 shows that it is needed),
`NativesKeptBalanced`. `CountInv` adds to the two counting properties that memory which is no
instance has no references and no native, and that a callable lives by the attributes that
refer to it (`HeapInv`): without the first an allocation could not start at one reference,
without the second the end of a type could not tell what happens to its constructor. The
argument has three layers. Lemmas about the operators on the heap say that each moves the
references of one object by a number and keeps, for every type, the difference between its
count and its instances, and for every native the sum of its destructions and its holders
(`Shifts`; `DecRefFacts` is the one that goes through deallocation, the destructor and the
end of the type). Lemmas about the stack say that a push or a pop changes the number of
frames of one object and of one mode by one (`FramesMove`). One lemma per action puts the two
together. `NativeInv` then says that without a second `__init__` the frames construct
different instances with different new natives, those in their constructor hold none yet,
and a native is held or destroyed once exactly when its constructor has returned.

The same module, about `PythonCalls`, for any arguments and exceptions: `CallingProtocol` if `~Swallows` (see
section 6), `ErrorsSurvive` and `ReferencesBalance`. The invariant says in each phase of a
call where the error is: the indicator, the exception in flight, or a captured
`python_error` (`ErrorInv`, `RaisedInv`), and that a reference is with its argument, or in the
tuple, or dropped once, plain pointers holding none when the frames end (`ReferenceInv`).

`NapiProofs`:

* about `NapiObjects`, for any objects and natives: `DeletedOnce` and `NoNativeLeaks` if
  `~HandoffMayFail`, which section 6 shows to be needed. A live native has one owner: the
  object that wraps it (`WrapperInv`), or the construction or handoff in progress
  (`FrameInv`, `DeleteInv`). `NoNativeLeaks` covers every error path of a construction and
  names the one that leaks, `target.constructor()` throwing;
* about `NapiClasses`, for any functions and whichever call fails: `ReferencesReleased` and
  `HoldersDestroyed`. A reference is armed exactly while its hook is registered and it keeps
  its constructor alive (`ReferenceInv`), the targets refer to armed references as long as
  the environment is open (`TargetInv`), and live data belongs to an existing function with
  a finaliser (`DataInv`). The hooks are a sequence without repetitions, for which the
  module proves what appending, removing the last and removing any one element do;
* about `NapiCalls`, for any contexts and any depth of nested calls: `HandlesStayInScope` if
  `~Nested` (see section 6), and the action property `JsErrorsReachCaller`, which needs no
  such hypothesis. A context belongs to one frame at a time and holds handles of that frame
  or of those further out, which close later (`ScopeInv`); only the running frame can have
  an exception, and it is the pending one (`PendingInv`).

`RpcProofs`, for every base of the bytes above 6, every width of the integers and every set of
names, ids, binders, signatures, imports and results that `CodecAssumption`,
`RouterAssumption` and `LinkAssumption` allow:

* the codec. `DecodersInvert` (`DecodingInverts`) and `FramesArrive` (`IntactArrives`) say
  that the decoders invert the encoders in both directions, whatever the transport does. The
  lemmas go up with the format: the bytes of an integer, a raw text, a value, the arguments,
  the header, the frame. For each there is one lemma that what was written is read
  (`IntegerArrives` ... `RequestArrives`), one that what is read validly was written so, in
  one of its `Forms` (`IntegerRead` ... `RequestRead`), and one
  that a valid read is the same in every longer frame (`IntegerBegins` ... `RequestBegins`):
  that is why a frame which was cut or extended is refused;
* the table. `OneOwner` (`BindersOwned`) rests on `TableInv`: the slots hold different binders
  and a binder was deleted exactly if it was made and no slot has it (`Owned`); the ids
  increase (`Sorted`), so that `lower_bound`, whose halving search is proved to return the
  bound (`LowerBoundForm`), finds the route of an id if there is one; a route has the id of its
  name (`Named`) and the binder accepted last for it. `ResetForm`, `MoveAssignForm`,
  `InsertForm` and `ClearedForm` say slot by slot what the operations on routes do;
* the call. `LastDefinedServes` (`ServesLastDefined`) and `FaithfulCalls` (`CallFaithful`) need
  `CallInv`: the frame of a request is what was sent or a proper beginning of it, which does not
  decode; a response answers one of three refusals (`Refused`) or what the binder of the
  name's route replied (`Served`). `ToFrom` and `FromTo` say that the converters lose nothing
  on the values they accept, at every width: the signed ranges, the wrap of negative numbers
  into 64 bits and `static_cast` to 32 bits are worked out there.

What a recursive definition computes is an induction over data, for which the library's
theorems need an operator as a parameter that the provers cannot instantiate. The proofs go
around it: a set of natural numbers has a least member (`Least`, from the well-foundedness
theorems, whose parameters are sets), so a *set* that holds 0 and every successor holds every
number (`Induction`, `StrongInduction`); each recursive function is given a witness, explicitly
or by `RecursionExists`, and the `CHOOSE` behind it is shown to be that witness.

`ValueStorageProofs` proves `LifetimeSafety` for any optionals, storages and foreign natives,
from `StorageAssumption` (they are different objects). The invariant `IInv` of
`ValueStorage` adds to the property that out of scope nothing is engaged, and that a
storage owns its own cell and no other.

The constants' assumptions only tell things apart (`None` is no function, thread or native,
an `Error` of the backend is not `None`) and make bounds natural numbers.

Only model-checked is liveness (`StartedDelivers`, `DetachDelivers`, `HandlerServed`,
`ExitReclaims` and the properties of the executors that say something happens in the end): the
provers do not reason about fairness. Every invariant that a passing run checks is a theorem,
under the hypotheses named above.

## 6. Findings

`close()` of the uv executor releases its mutex and then sends. When it is called
off the loop thread, an iteration that an earlier dispatch had already asked for
can run in between, see `closing` and an empty queue, close the handle and delete
the state; the send then touches freed memory. The documentation asks only that
the loop runs and that no `dispatch()` races. The run `uv_close_off_loop` is the
counterexample; with `close()` on the loop thread the same property holds.

`make_export_object_impl` of the Node-API backend deletes the native it handed off
when `handoff.receiver` is still set after `napi_new_instance`. If the type tag or
`napi_wrap` fails inside, `construct_export_object_from_native` has deleted that
native already; if `napi_create_reference` fails, the native is wrapped and its
finaliser will delete it. In all three cases the exception leaves before
`handoff->receiver` is cleared. The run `napi_handoff_fails` is the
counterexample; without failures inside a handoff the property is a theorem.

`construct_export_object_impl` of the Python backend refuses an object whose `destroy` is
set, and sets it only after the native constructor has returned. A constructor that calls
Python can have `__init__` called on the same object once more: the check passes and a second
native is constructed in the storage of the first (`python_reenter`).

Four boundaries of the properties, which the models state by a constant, a guard or a
variable and which are not runs of their own:

* `make_export_object_impl` loses the native when `target.constructor()` throws at
  `napi.h:564`: `handoff.receiver` was set at line 555, and neither the handoff's destructor
  nor a handler deletes it. The path is `ConstructorFails`, and `NothingLeaks` holds with
  the natives it abandons named in it; no document promises that they are deleted.
* An argument that cannot be converted to Python makes the converter throw a
  `std::runtime_error` and leaves Python's own error pending. A body that handles the
  exception and returns a value then breaks CPython's protocol. `NullIffError` is checked
  with `Swallows = FALSE`; with `TRUE` it fails.
* `call_vector` without a callable sets its error and returns; its owned arguments are
  released while that error is pending and before anybody captures it (`NoCallable` and
  `CallFails` in `PythonCalls`; `TupleFails` is the same of `call_tuple` whose tuple cannot be
  allocated), against which the function's other error path takes care.
  `OriginalErrorSurvives` is about the latter.
* `refresh()` of a Node-API import context replaces the one pair of cached handles. When a
  callback refreshes a context that an outer frame is using, the outer frame goes on with
  handles of a closed scope. `HandlesInScope` is checked with `Nested = FALSE`; with `TRUE`
  it fails.

## 7. Not modelled

Values, error texts and types that only identify something. Tokens stored inside the
operation they complete (the model gives each caller an owner for the time of its call).
Destruction of an executor object while another thread is still inside `shutdown()`. The
capacity the RPC writer reserves, error texts of 2^32 bytes and the moves of routes when
their vector grows. Exported constructions on interpreters without vectorcall, and a callable
object that cannot be allocated. What the Python vectorcall writes into a borrowed slot:
`ArgumentsGivenBack` counts loans and returns. The catch clauses that differ by exception type at the Node-API entries.
Cancellation, which is Flux Foundry's.

`async_import.h` selects a symbol and captures arguments by type and leaves the submission to
the backend's `prepare_async`, which the library does not define; symbol selection on the
import side, concept checks, traits and the declaration macros are resolved by the compiler.
What remains of `export_callable.h` builds the overload lists that `ExportDispatch` takes as a
parameter. None of them has a state at run time.

## 8. Plan

1. One composition of `NapiObjects` with `NapiClasses`: constructions while the environment
   ends.
2. Tokens that live in their own operation in `AsyncInvocation`.
