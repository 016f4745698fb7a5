---------------------------- MODULE PythonCalls ----------------------------
(***************************************************************************)
(* Calls across the boundary to Python in both directions                    *)
(* (src/dynabridge/backends/python.h): Python calls an exported callable,     *)
(* whose C++ body calls imported functions, members and constructors.  The   *)
(* state is what a test hardly sees: the interpreter's error indicator, the  *)
(* C++ exception in flight, and who owns the arguments' references.          *)
(*                                                                          *)
(* Dropping a reference may run a finaliser or a native destructor that      *)
(* calls Python: an error that is pending meanwhile may be replaced or lost.  *)
(*                                                                          *)
(* A definition whose name says what is wrong with it, placed just before    *)
(* the one it varies, is a seeded fault that shows a property can fail; no   *)
(* action uses it.                                                           *)
(***************************************************************************)
EXTENDS Naturals

CONSTANTS
  Errors,      \* exceptions that Python code raises
  None,
  MaxArgs,     \* bound: arguments of an imported call, its receiver included
  MaxCalls,    \* bound: imported calls of one body
  Swallows     \* a body may handle the exception of an argument it cannot convert

Arguments == 1..MaxArgs

\* What CPython and the backend raise themselves, and the C++ exceptions.
BackendErrors ==
  {"TypeError", "RuntimeError", "ConversionError", "FinaliserError", "NoCallable", "MemoryError"}
Exceptions == {"python_error", "bad_conversion", "std", "other"}

ASSUME CallsAssumption ==
  /\ None \notin BackendErrors \cup Exceptions \cup Errors
  /\ {"NoCallable", "MemoryError"} \cap Errors = {}
  /\ MaxArgs \in Nat /\ MaxCalls \in Nat /\ Swallows \in BOOLEAN

VARIABLES
  pc,
  entry,     \* the holder that was called: typed, overload
  err,       \* the error indicator
  exc,       \* the C++ exception in flight: python_error, bad_conversion, std, other
  carried,   \* the Python exception that a python_error owns
  raised,    \* history: what the failing imported call raised
  kind,      \* the imported call: free, member, constructor
  vector,    \* the build has PyObject_Vectorcall, otherwise arguments go in a tuple
  raw,       \* the arguments are plain PyObject pointers, otherwise object_refs
  args,      \* the number of arguments of the imported call
  refs,      \* the references its arguments hold: to be dropped, or owned
  items,     \* the references the argument tuple owns
  gained,    \* history: the arguments that got a reference
  drops,     \* history: references dropped, per argument
  result,    \* whether the exported callable returned an object
  calls

call == <<kind, vector, raw, args, refs, items, gained, drops>>
callsVars == <<pc, entry, err, exc, carried, raised, call, result, calls>>

NoDrops == [i \in Arguments |-> 0]

CallsInit ==
  /\ pc = "python" /\ entry = None /\ err = None /\ exc = None /\ carried = None /\ raised = None
  /\ vector \in BOOLEAN
  /\ kind = None /\ raw = FALSE /\ args = 0
  /\ refs = {} /\ items = {} /\ gained = {} /\ drops = NoDrops
  /\ result = None /\ calls = 0

-----------------------------------------------------------------------------
(* The exported callable: its two holders check, convert and call.          *)

\* PyErr_SetString and a null result.
Refuse(error) ==
  /\ err' = error /\ result' = "null" /\ pc' = "returned"
  /\ UNCHANGED <<exc, carried, raised, call, calls>>

\* typed_callable_holder refuses keyword arguments and a wrong arity,
\* overload_callable_holder keyword arguments.
TypedCall ==
  /\ pc = "python"
  /\ entry' = "typed"
  /\ \/ Refuse("TypeError")
     \/ pc' = "convert" /\ UNCHANGED <<err, exc, carried, raised, call, result, calls>>

OverloadCall ==
  /\ pc = "python"
  /\ entry' = "overload"
  /\ \/ Refuse("TypeError")
     \/ pc' = "convert" /\ UNCHANGED <<err, exc, carried, raised, call, result, calls>>

\* The binder's arguments are converted, and its body starts.
Converted ==
  /\ pc = "convert"
  /\ pc' = "body"
  /\ UNCHANGED <<entry, err, exc, carried, raised, call, result, calls>>

KeepsConversionError == "ConversionError"
\* An integer or a str that the C++ type cannot hold: from() clears the error.
ClearedConversion == None

\* from() rejects: the binder of a single signature throws bad_conversion, an overload
\* tries its next candidate or has no matching signature.
ConvertRejects ==
  /\ pc = "convert"
  /\ UNCHANGED entry
  /\ \/ /\ entry = "typed"
        /\ err' = ClearedConversion /\ exc' = "bad_conversion" /\ pc' = "boundary"
        /\ UNCHANGED <<carried, raised, call, result, calls>>
     \/ /\ entry = "overload"
        /\ err' = ClearedConversion
        /\ UNCHANGED <<pc, exc, carried, raised, call, result, calls>>
     \/ entry = "overload" /\ Refuse("TypeError")

\* from() of a str fails otherwise than by its encoding.
ConvertThrows ==
  /\ pc = "convert"
  /\ err' = "ConversionError" /\ exc' = "std"
  /\ pc' = "boundary"
  /\ UNCHANGED <<entry, carried, raised, call, result, calls>>

Throws(e) ==
  /\ exc' = e /\ pc' = "unwind"

\* The body itself throws.
BodyThrows ==
  /\ pc = "body"
  /\ \E e \in {"bad_conversion", "std", "other"} : Throws(e)
  /\ UNCHANGED <<entry, err, carried, raised, call, result, calls>>

BodyReturns ==
  /\ pc = "body"
  /\ result' = "object" /\ pc' = "returned"
  /\ UNCHANGED <<entry, err, exc, carried, raised, call, calls>>

\* The holders' catch clauses: a python_error is restored, bad_conversion becomes a
\* TypeError, any other exception a RuntimeError.
Reported ==
  IF exc = "python_error" THEN carried
  ELSE IF exc = "bad_conversion" THEN "TypeError" ELSE "RuntimeError"

Boundary ==
  /\ pc \in {"unwind", "boundary"}
  /\ err' = Reported /\ result' = "null"
  /\ exc' = None /\ carried' = None
  /\ pc' = "returned"
  /\ UNCHANGED <<entry, raised, call, calls>>

\* The body handles the exception of an imported call and goes on.
BodyHandles ==
  /\ pc = "unwind" /\ (Swallows \/ err = None)
  /\ exc' = None /\ carried' = None /\ raised' = None
  /\ pc' = "body"
  /\ UNCHANGED <<entry, err, call, result, calls>>

-----------------------------------------------------------------------------
(* An imported call.                                                        *)

Starts(k) ==
  /\ pc = "body" /\ calls < MaxCalls
  /\ calls' = calls + 1
  /\ kind' = k
  /\ raw' \in BOOLEAN
  /\ refs' = {} /\ items' = {} /\ gained' = {} /\ drops' = NoDrops
  /\ pc' = "lower"
  /\ UNCHANGED <<entry, err, exc, carried, raised, vector, result>>

\* backend_base::invoke and invoke_contract, without and with a receiver, and the
\* constructor of an imported class.
InvokeFree == args' \in 0..MaxArgs /\ Starts("free")
InvokeMember == args' \in 1..MaxArgs /\ Starts("member")
ConstructImport == args' \in 0..MaxArgs /\ Starts("constructor")

\* import_argument::lower: the arguments are converted in any order; own_import_value
\* wraps each reference at once.
Lower(i) ==
  /\ pc = "lower" /\ i <= args /\ i \notin refs
  /\ refs' = refs \cup {i} /\ gained' = gained \cup {i}
  /\ UNCHANGED <<entry, pc, err, exc, carried, raised, kind, vector, raw, args, items, drops, result,
                 calls>>

\* to() of an argument, or of the receiver, throws and its error stays pending.
LowerThrows(i) ==
  /\ pc = "lower" /\ i <= args /\ i \notin refs /\ ~raw
  /\ err' = "ConversionError" /\ exc' = "std"
  /\ pc' = "throws"
  /\ UNCHANGED <<entry, carried, raised, call, result, calls>>

Lowered == pc = "lower" /\ refs = 1..args

\* A finaliser runs when a reference goes, and meets the pending error.
Finalised(e, held) == IF e = None \/ held = {} THEN {e} ELSE {e, None, "FinaliserError"}

Dropped(held) == [i \in Arguments |-> IF i \in held THEN drops[i] + 1 ELSE drops[i]]

\* decref_arg: a plain pointer is dropped, an object_ref is left to its destructor.
Plain == IF raw THEN refs ELSE {}
Owned == IF raw THEN {} ELSE refs

DecrefArgs == drops' = Dropped(Plain) /\ refs' = refs \ Plain /\ UNCHANGED <<items, gained>>

FillTupleSharing == items' = refs /\ UNCHANGED <<refs, gained, drops>>
\* fill_tuple: release_call_arg takes the reference from the argument, the tuple steals it.
FillTuple == items' = refs /\ refs' = {} /\ UNCHANGED <<gained, drops>>

\* call_vector gives plain arguments back after the call; call_tuple has handed all of
\* them to the tuple before it.
Passed == (vector /\ DecrefArgs) \/ (~vector /\ FillTuple)

\* call(): PyObject_Vectorcall or PyObject_CallObject returns an object.
CallReturns ==
  /\ Lowered
  /\ Passed
  /\ pc' = "returns"
  /\ UNCHANGED <<entry, err, exc, carried, raised, kind, vector, raw, args, result, calls>>

\* python_error takes the pending exception, and only then the arguments go.
CaptureAfterRelease(e) == Finalised(e, refs)
Capture(e) == {e}

CallRaises(e) ==
  /\ Lowered
  /\ raised' = e
  /\ carried' \in Capture(e) /\ exc' = "python_error"
  /\ Passed
  /\ pc' = "throws"
  /\ UNCHANGED <<entry, err, kind, vector, raw, args, result, calls>>

\* A context without a callable: plain arguments go before the RuntimeError is set.
NoCallable ==
  /\ Lowered
  /\ raised' = "NoCallable"
  /\ DecrefArgs
  /\ err' = "NoCallable"
  /\ pc' = "fails"
  /\ UNCHANGED <<entry, exc, carried, kind, vector, raw, args, result, calls>>

\* call_tuple: PyTuple_New fails, and plain arguments go while its error is pending.
TupleFails ==
  /\ Lowered /\ ~vector /\ args > 0
  /\ raised' = "MemoryError"
  /\ DecrefArgs
  /\ err' \in Finalised("MemoryError", Plain)
  /\ pc' = "fails"
  /\ UNCHANGED <<entry, exc, carried, kind, vector, raw, args, result, calls>>

\* The frames of the call end: the tuple goes with its items, every object_ref drops
\* what it still owns.
FrameEnds ==
  /\ drops' = [i \in Arguments |->
                 drops[i] + (IF i \in items THEN 1 ELSE 0) + (IF i \in Owned THEN 1 ELSE 0)]
  /\ refs' = refs \ Owned /\ items' = {}
  /\ UNCHANGED <<kind, vector, raw, args, gained>>

CallEnds ==
  /\ pc = "returns"
  /\ FrameEnds
  /\ pc' = "result"
  /\ UNCHANGED <<entry, err, exc, carried, raised, result, calls>>

\* The stack unwinds with an error of to() pending, or with none.
CallUnwinds ==
  /\ pc = "throws"
  /\ FrameEnds
  /\ err' \in Finalised(err, items \cup Owned)
  /\ pc' = "unwind"
  /\ UNCHANGED <<entry, exc, carried, raised, result, calls>>

\* invoke_impl or construct_import_object_impl turn the null result into a python_error,
\* with an error of its own if none is left pending.
CallFails ==
  /\ pc = "fails"
  /\ FrameEnds
  /\ \E e \in Finalised(err, Owned) : carried' = IF e = None THEN "RuntimeError" ELSE e
  /\ err' = None
  /\ Throws("python_error")
  /\ UNCHANGED <<entry, raised, result, calls>>

\* invoke_impl converts the result, or construct_import_object_impl keeps it.
ResultConverted ==
  /\ pc = "result"
  /\ pc' = "body"
  /\ UNCHANGED <<entry, err, exc, carried, raised, call, result, calls>>

ResultRejected ==
  /\ pc = "result" /\ kind # "constructor"
  /\ \/ err' = ClearedConversion /\ Throws("bad_conversion")
     \/ err' = "ConversionError" /\ Throws("std")
  /\ UNCHANGED <<entry, carried, raised, call, result, calls>>

-----------------------------------------------------------------------------
\* Python takes the result or the error and may call again.
PythonContinues ==
  /\ pc = "returned"
  /\ pc' = "python" /\ err' = None /\ result' = None /\ raised' = None
  /\ kind' = None /\ raw' = FALSE /\ args' = 0
  /\ refs' = {} /\ items' = {} /\ gained' = {} /\ drops' = NoDrops
  /\ calls' = 0
  /\ UNCHANGED <<entry, exc, carried, vector>>

CallsNext ==
  \/ TypedCall \/ OverloadCall
  \/ Converted \/ ConvertRejects \/ ConvertThrows
  \/ BodyThrows \/ BodyReturns \/ BodyHandles \/ Boundary
  \/ InvokeFree \/ InvokeMember \/ ConstructImport
  \/ \E i \in Arguments : Lower(i) \/ LowerThrows(i)
  \/ CallReturns \/ NoCallable \/ TupleFails \/ (\E e \in Errors : CallRaises(e))
  \/ CallEnds \/ CallUnwinds \/ CallFails
  \/ ResultConverted \/ ResultRejected
  \/ PythonContinues

\* An imported call has begun, and its arguments may hold references.
InCall == {"lower", "returns", "throws", "fails"}

CallsSpec == CallsInit /\ [][CallsNext]_callsVars

-----------------------------------------------------------------------------
\* CPython's calling protocol: an exported callable returns null exactly when an
\* exception is pending, whatever its body and the calls it made went through.
NullIffError ==
  pc = "returned" => (result = "null") = (err # None)

\* The exception of a failed imported call that leaves the body is the one Python gets
\* back, although finalisers of the call's arguments may have run Python since.
OriginalErrorSurvives ==
  raised \in Errors =>
    /\ exc = "python_error" => carried = raised
    /\ pc = "returned" /\ result = "null" /\ exc = None => err = raised

\* A reference that an argument got is dropped exactly once, by decref_args, by the
\* argument tuple or by its object_ref, on every way out of an imported call: none
\* leaks and none is dropped by two of them.
ReferencesDroppedOnce ==
  pc \notin InCall => \A i \in Arguments : drops[i] = IF i \in gained THEN 1 ELSE 0

-----------------------------------------------------------------------------
(* The inductive invariant behind the three.                                *)

\* While C++ code runs no error is pending; an exception in flight carries what
\* its catch clause will report.
ErrorInv ==
  /\ pc \in {"python", "convert", "body", "lower", "returns", "result"} => err = None
  /\ pc \in {"throws", "unwind", "boundary"} =>
       exc # None /\ (exc = "python_error" => carried # None)
  /\ NullIffError

\* The exception of a failed call unwinds in a python_error or has been restored.
RaisedInv ==
  raised \in Errors =>
    \/ pc \in {"throws", "unwind"} /\ exc = "python_error" /\ carried = raised
    \/ pc = "returned" /\ result = "null" /\ exc = None /\ err = raised

\* A reference that was gained is held by its argument, or by the tuple, or has been
\* dropped once; when the frames end only object_refs and the tuple hold any.
ReferenceInv ==
  /\ args \in 0..MaxArgs
  /\ gained \subseteq Arguments
  /\ refs \cup items \subseteq gained /\ refs \cap items = {}
  /\ drops = [i \in Arguments |-> IF i \in gained \ (refs \cup items) THEN 1 ELSE 0]
  /\ pc = "lower" => gained = refs /\ items = {}
  /\ pc \in {"returns", "throws", "fails"} => Plain = {}
  /\ pc \notin InCall => refs = {} /\ items = {}
=============================================================================
