----------------------------- MODULE NapiCalls -----------------------------
(***************************************************************************)
(* Calls across Node-API (src/dynabridge/backends/napi.h): the callbacks by    *)
(* which JavaScript enters C++, each in a handle scope of its own; the import  *)
(* contexts, which own a reference to their callable and cache handles of it   *)
(* and of `this` that are valid in one scope only; the calls back into        *)
(* JavaScript, which may enter C++ again; and the one pending JavaScript       *)
(* exception, next to the C++ exception that carries the failure.            *)
(*                                                                          *)
(* A frame uses an import context after it created or refreshed it, as the    *)
(* documentation asks.  Nested tells whether it may refresh a context that a   *)
(* frame further out is using too.                                           *)
(*                                                                          *)
(* A definition whose name says what is wrong with it, placed just before    *)
(* the one it varies, is a seeded fault that shows a property can fail; no   *)
(* action uses it.                                                           *)
(***************************************************************************)
EXTENDS Naturals, Sequences, SequencesExt

CONSTANTS
  Contexts,   \* the import contexts of the module
  Errors,     \* what JavaScript may throw
  Native,     \* an Error made by napi_throw_error
  Value, None,
  MaxCalls,   \* bound: entries from JavaScript
  Nested

VARIABLES
  stack,    \* the C++ frames, innermost last
  ctx,      \* per context: the scope of each cached handle, and whether it owns a reference
  pending,  \* the pending exception of the environment
  seen,     \* what JavaScript got from the frame that returned last
  calls     \* entries so far; also the scope of the newest frame

vars == <<stack, ctx, pending, seen, calls>>

Empty == [ref |-> FALSE, callable |-> None, this |-> None]
Owning(scope) == [ref |-> TRUE, callable |-> scope, this |-> scope]
Borrowing(scope) == [ref |-> FALSE, callable |-> scope, this |-> scope]

Init ==
  /\ stack = <<>> /\ pending = None /\ seen = Value /\ calls = 0
  /\ ctx = [c \in Contexts |-> Empty]

Top == Last(stack)
Scope == Top.scope
In(pc) == stack # <<>> /\ Top.pc = pc
Goes(pc) == stack' = [stack EXCEPT ![Len(stack)].pc = pc]
Open == {stack[i].scope : i \in DOMAIN stack}

\* No frame further out is using the context.
Unshared(c) == \A i \in 1 .. Len(stack) - 1 : c \notin stack[i].fresh
MayTouch(c) == In("body") /\ Unshared(c)

-----------------------------------------------------------------------------
(* JavaScript calls an exported function.                                   *)

\* callback_dispatch, member_callback_dispatch and the overload callback read the
\* call's arguments; the converters run in the body.
Enter ==
  /\ stack = <<>> \/ In("import")
  /\ calls < MaxCalls
  /\ calls' = calls + 1
  /\ stack' = Append(stack, [scope |-> calls + 1, pc |-> "body", fresh |-> {},
                             borrowed |-> {}, raised |-> None])
  /\ UNCHANGED <<ctx, pending, seen>>

\* A wrong number of arguments, or no holder: an Error, and no C++ runs.
Refuse ==
  /\ stack = <<>> \/ In("import")
  /\ seen' = Native
  /\ UNCHANGED <<stack, ctx, pending, calls>>

\* The frame ends, its scope is closed, borrowed contexts go with its arguments, and
\* JavaScript gets the pending exception or else the value.
Leave(exception) ==
  /\ seen' = IF exception = None THEN Value ELSE exception
  /\ pending' = None
  /\ stack' = Front(stack)
  /\ ctx' = [c \in Contexts |-> IF c \in Top.borrowed THEN Empty ELSE ctx[c]]
  /\ UNCHANGED calls

Return == In("body") /\ Leave(pending)

ThrowErrorReplaces(exception) == Native
\* napi_throw_error does nothing while an exception is pending.
ThrowError(exception) == IF exception = None THEN Native ELSE exception

\* The catch clauses of the entry.
Boundary == In("throwing") /\ Leave(ThrowError(pending))

\* The body, a converter, or no overload for the arguments.
BodyThrows ==
  /\ In("body") /\ Goes("throwing")
  /\ UNCHANGED <<ctx, pending, seen, calls>>

\* The body catches a C++ exception; the JavaScript exception stays pending.
BodyHandles ==
  /\ In("throwing") /\ Goes("body")
  /\ UNCHANGED <<ctx, pending, seen, calls>>

-----------------------------------------------------------------------------
(* Import contexts.                                                         *)

\* The frame uses c from now on.
Takes(c, value) ==
  /\ ctx' = [ctx EXCEPT ![c] = value]
  /\ stack' = [stack EXCEPT ![Len(stack)].fresh = @ \cup {c}]
  /\ UNCHANGED <<pending, seen, calls>>

\* import_impl, or a context_t that is constructed with its callable: a Node-API call
\* that may run JavaScript fails while an exception is pending.
Create(c) ==
  /\ MayTouch(c) /\ pending = None /\ c \notin Top.borrowed
  /\ Takes(c, Owning(Scope))

\* try_import_callable_impl: a context without a reference, for one argument.
Borrow(c) ==
  /\ MayTouch(c) /\ ctx[c] = Empty /\ c \notin Top.fresh
  /\ ctx' = [ctx EXCEPT ![c] = Borrowing(Scope)]
  /\ stack' = [stack EXCEPT ![Len(stack)].fresh = @ \cup {c},
                            ![Len(stack)].borrowed = @ \cup {c}]
  /\ UNCHANGED <<pending, seen, calls>>

RefreshCallable(old) == [old EXCEPT !.callable = IF old.ref THEN Scope ELSE None]
RefreshThisArg(old) == [old EXCEPT !.this = Scope]
RefreshedCallableOnly(old) == RefreshCallable(old)
\* refresh()
Refreshed(old) == RefreshThisArg(RefreshCallable(old))

Refresh(c) ==
  /\ In("body") /\ (Nested \/ Unshared(c)) /\ ctx[c] # Empty
  /\ Takes(c, Refreshed(ctx[c]))

\* set_callable: the old reference goes first; if the new one cannot be made, the
\* cache keeps the old handle.
SetCallable(c) ==
  /\ MayTouch(c) /\ c \in Top.fresh /\ c \notin Top.borrowed
  /\ Takes(c, [ctx[c] EXCEPT !.ref = TRUE, !.callable = Scope])

SetCallableFails(c) ==
  /\ MayTouch(c) /\ c \in Top.fresh /\ c \notin Top.borrowed
  /\ ctx' = [ctx EXCEPT ![c].ref = FALSE]
  /\ Goes("throwing")
  /\ UNCHANGED <<pending, seen, calls>>

\* operator=(context_t&&): references and caches move, the source is left empty.
Move(c, d) ==
  /\ MayTouch(c) /\ MayTouch(d) /\ c # d /\ ctx[c] # Empty
  /\ {c, d} \cap Top.borrowed = {}
  /\ ctx' = [ctx EXCEPT ![d] = ctx[c], ![c] = Empty]
  /\ stack' = [stack EXCEPT ![Len(stack)].fresh =
                 (@ \ {c, d}) \cup (IF c \in @ THEN {d} ELSE {})]
  /\ UNCHANGED <<pending, seen, calls>>

-----------------------------------------------------------------------------
(* Calls into JavaScript: invoke_impl, call and construct_import_object_impl. *)

\* callable() and this_arg(): a cache that is empty is filled from the reference.
Cached(old) == [old EXCEPT
  !.callable = IF @ = None /\ old.ref THEN Scope ELSE @,
  !.this = IF @ = None THEN Scope ELSE @]

\* Nothing to call, or an exception is pending: the call fails and throws.
CallFails(c) ==
  /\ In("body") /\ c \in Top.fresh
  /\ pending # None \/ Cached(ctx[c]).callable = None
  /\ ctx' = [ctx EXCEPT ![c] = Cached(@)]
  /\ Goes("throwing")
  /\ UNCHANGED <<pending, seen, calls>>

Call(c) ==
  /\ In("body") /\ c \in Top.fresh
  /\ pending = None /\ Cached(ctx[c]).callable # None
  /\ ctx' = [ctx EXCEPT ![c] = Cached(@)]
  /\ Goes("import")
  /\ UNCHANGED <<pending, seen, calls>>

\* The function returns; from_cast may reject its result, which BodyThrows stands for.
JsReturns ==
  /\ In("import") /\ Goes("body")
  /\ UNCHANGED <<ctx, pending, seen, calls>>

\* It throws: the exception is pending, and check() throws a std::runtime_error.
JsThrows(e) ==
  /\ In("import")
  /\ pending' = e
  /\ stack' = [stack EXCEPT ![Len(stack)].pc = "throwing", ![Len(stack)].raised = e]
  /\ UNCHANGED <<ctx, seen, calls>>

Finished == stack = <<>> /\ calls = MaxCalls /\ UNCHANGED vars

Next ==
  \/ Enter \/ Refuse \/ Return \/ Boundary \/ BodyThrows \/ BodyHandles
  \/ \E c \in Contexts :
       \/ Create(c) \/ Borrow(c) \/ Refresh(c) \/ SetCallable(c) \/ SetCallableFails(c)
       \/ CallFails(c) \/ Call(c)
       \/ \E d \in Contexts : Move(c, d)
  \/ JsReturns \/ \E e \in Errors : JsThrows(e)
  \/ Finished

Spec == Init /\ [][Next]_vars

-----------------------------------------------------------------------------
\* Whatever the running frame may call through holds handles of scopes that are still
\* open, also after calls that entered C++ again and closed scopes of their own, and
\* for contexts that were created, moved or refreshed in frames that are gone.
HandlesInScope ==
  stack # <<>> =>
    \A c \in Top.fresh : {ctx[c].callable, ctx[c].this} \subseteq Open \cup {None}

\* The JavaScript caller of a frame gets the exception that an imported callable threw
\* there, whatever C++ exceptions and catch clauses came after it, an Error of the
\* backend if only C++ failed, and the value otherwise.
JsErrorReachesCaller ==
  [][Len(stack') < Len(stack) =>
       seen' = IF Top.raised # None THEN Top.raised
               ELSE IF Top.pc = "throwing" THEN Native ELSE Value]_vars

-----------------------------------------------------------------------------
(* The inductive invariants behind the two properties.                     *)

Frames == [scope : Nat, pc : {"body", "throwing", "import"}, fresh : SUBSET Contexts,
           borrowed : SUBSET Contexts, raised : Errors \cup {None}]

TypeOK ==
  /\ stack \in Seq(Frames)
  /\ ctx \in [Contexts -> [ref : BOOLEAN, callable : Nat \cup {None}, this : Nat \cup {None}]]
  /\ calls \in Nat

\* A context belongs to one frame at a time, and its handles come from that frame or
\* from those further out, which close later.
ScopesTo(i) == {stack[k].scope : k \in 1..i} \cup {None}

ScopeInv ==
  /\ \A i, j \in 1..Len(stack) : i # j => stack[i].fresh \cap stack[j].fresh = {}
  /\ \A i \in 1..Len(stack) : \A c \in stack[i].fresh :
       ctx[c].callable \in ScopesTo(i) /\ ctx[c].this \in ScopesTo(i)

\* Only the running frame has an exception, the one pending: the frames below it are
\* inside calls, which are made without one.
PendingInv ==
  /\ \A i \in 1..Len(stack) - 1 : stack[i].pc = "import"
  /\ \A i \in 1..Len(stack) : stack[i].pc = "import" => stack[i].raised = None
  /\ pending = IF stack = <<>> THEN None ELSE Top.raised
=============================================================================
