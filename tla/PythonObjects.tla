--------------------------- MODULE PythonObjects ---------------------------
(***************************************************************************)
(* Classes and objects exported to Python (src/dynabridge/backends/python.h): *)
(* registration of a class and its constructor, the two ways Python           *)
(* constructs an instance (the type's vectorcall, __init__ after __new__), the *)
(* construction from C++, and deallocation.  Reference counts are counted the  *)
(* way the code counts them and compared with the references that exist.      *)
(*                                                                          *)
(* Everything runs with the GIL held.  Converting an argument and running a   *)
(* native constructor may call back into Python, which may construct, call    *)
(* and drop objects: constructions nest, and frames is their stack.           *)
(*                                                                          *)
(* A definition whose name says what is wrong with it, placed just before    *)
(* the one it varies, is a seeded fault that shows a property can fail; no   *)
(* action uses it.                                                           *)
(***************************************************************************)
EXTENDS Integers, Sequences, FiniteSets

CONSTANTS
  Types,      \* extension types made for the exported class
  Objects,    \* instances, by address
  Natives,    \* exported proxies, by construction
  Null,
  MaxDepth,   \* bound: nested constructions
  MaxRefs,    \* bound: references of Python, and of C++, to one object
  Reenter     \* Python may call __init__ of an object that is being constructed

\* Addresses are finitely many, and Null is the null pointer.
ConstantsOK == IsFiniteSet(Objects) /\ Null \notin Types \cup Natives
ASSUME ObjectsAssumption == ConstantsOK

VARIABLES
  heap,       \* what the reference counts and fields of the objects say
  attr,       \* the type the module's attribute refers to
  target,     \* the class_target_t in the registry of the context
  local,      \* the class_target_t that a registration in progress owns
  py, cpp,    \* the references Python code and object_t's own
  frames,     \* constructions in progress
  constructed \* history: the natives whose constructor returned

vars == <<heap, attr, target, local, py, cpp, frames, constructed>>
roots == <<attr, target, local>>

Constructors == {"__init__", "__dynabridge_constructor__"}

Init ==
  /\ heap = [typeRefs  |-> [t \in Types |-> 0],
             attrs     |-> [t \in Types |-> {}],      \* attributes with the constructor
             ctorRefs  |-> [t \in Types |-> 0],      \* the callable's reference count
             holders   |-> [t \in Types |-> 0],      \* class_constructor_holders
             rc        |-> [o \in Objects |-> 0],
             type      |-> [o \in Objects |-> Null],
             native    |-> [o \in Objects |-> Null],  \* native, ctx and destroy
             loans     |-> 0,    \* overwritten argument slots of callers
             buffers   |-> 0,    \* argument arrays from PyMem_Malloc
             destroyed |-> [n \in Natives |-> 0]]
  /\ attr = Null /\ target = Null /\ local = Null
  /\ py = [o \in Objects |-> 0] /\ cpp = [o \in Objects |-> 0]
  /\ frames = <<>> /\ constructed = {}

-----------------------------------------------------------------------------
(* Reference counting.                                                      *)

\* make_constructor: a new callable owns the holder, callable_dealloc destroys it.
MakeConstructor(h, t) == [h EXCEPT !.ctorRefs[t] = 1, !.holders[t] = @ + 1]
IncConstructor(h, t) == [h EXCEPT !.ctorRefs[t] = @ + 1]
DecConstructor(h, t, n) ==
  [h EXCEPT !.ctorRefs[t] = @ - n,
            !.holders[t] = IF n > 0 /\ h.ctorRefs[t] = n THEN @ - 1 ELSE @]

\* A type that nobody refers to goes, and its attributes with it.
DecType(h, t) ==
  IF t = Null THEN h
  ELSE IF h.typeRefs[t] > 1 THEN [h EXCEPT !.typeRefs[t] = @ - 1]
  ELSE [DecConstructor(h, t, Cardinality(h.attrs[t])) EXCEPT
          !.typeRefs[t] = 0, !.attrs[t] = {}]

Alloc(h, o, t) ==
  [h EXCEPT !.rc[o] = 1, !.type[o] = t, !.native[o] = Null, !.typeRefs[t] = @ + 1]

IncRef(h, o) == [h EXCEPT !.rc[o] = @ + 1]

\* destroy_export_instance clears the fields and runs the destructor.
Destroyed(h, o) ==
  IF h.native[o] = Null THEN h
  ELSE [h EXCEPT !.native[o] = Null, !.destroyed[h.native[o]] = @ + 1]

DeallocKeepsType(h, o) == [Destroyed(h, o) EXCEPT !.rc[o] = 0, !.type[o] = Null]
\* export_instance_dealloc
Dealloc(h, o) ==
  DecType([Destroyed(h, o) EXCEPT !.rc[o] = 0, !.type[o] = Null], h.type[o])

DecRef(h, o) == IF h.rc[o] > 1 THEN [h EXCEPT !.rc[o] = @ - 1] ELSE Dealloc(h, o)

-----------------------------------------------------------------------------
(* Registration.                                                            *)

Unused(t) == heap.typeRefs[t] = 0

\* PyType_FromSpec returns a new reference; the module's is one more.
MakeExportClassType(h, t) == [h EXCEPT !.typeRefs[t] = 1]
IncType(h, t) == [h EXCEPT !.typeRefs[t] = @ + 1]
MadeType(t) == IncType(MakeExportClassType(heap, t), t)

\* define_class_impl: the module's attribute takes a reference and gives up the one of
\* a class it had, the class_target_t takes the other.
DefineClass(t) ==
  /\ frames = <<>> /\ local = Null /\ Unused(t)
  /\ heap' = DecType(MadeType(t), attr)
  /\ attr' = t /\ local' = t
  /\ UNCHANGED <<target, py, cpp, frames, constructed>>

\* The attribute cannot be set: define() drops a reference and the object_ref its own.
DefineClassFails(t) ==
  /\ frames = <<>> /\ local = Null /\ Unused(t)
  /\ heap' = DecType(DecType(MadeType(t), t), t)
  /\ UNCHANGED <<roots, py, cpp, frames, constructed>>

DefineAttributeOnly(h, t, name) ==
  IncConstructor([h EXCEPT !.attrs[t] = @ \cup {name}], t)
\* class_target_t::define: the attribute takes its own reference, the caller's goes.
DefineAttribute(h, t, name) ==
  DecConstructor(IncConstructor([h EXCEPT !.attrs[t] = @ \cup {name}], t), t, 1)
DefineAttributeFails(h, t) == DecConstructor(h, t, 1)

\* define_constructor_impl: one callable under two names.
DefineConstructor ==
  LET made == IncConstructor(MakeConstructor(heap, local), local) IN
  /\ local # Null /\ heap.attrs[local] = {} /\ frames = <<>>
  /\ heap' = DefineAttribute(DefineAttribute(made, local, "__init__"),
                             local, "__dynabridge_constructor__")
  /\ UNCHANGED <<roots, py, cpp, frames, constructed>>

\* The first or the second define() throws; the class_target_t is destroyed.
DefineConstructorFails ==
  LET made == IncConstructor(MakeConstructor(heap, local), local)
      first == DefineAttributeFails(DefineAttributeFails(made, local), local)
      second == DefineAttributeFails(DefineAttribute(made, local, "__init__"), local)
  IN /\ local # Null /\ heap.attrs[local] = {} /\ frames = <<>>
     /\ \E h \in {first, second} : heap' = DecType(h, local)
     /\ local' = Null
     /\ UNCHANGED <<attr, target, py, cpp, frames, constructed>>

\* export_class_registry::store: a target stored earlier for the class is replaced.
StoreClass ==
  /\ local # Null /\ frames = <<>>
  /\ heap' = DecType(heap, target)
  /\ target' = local /\ local' = Null
  /\ UNCHANGED <<attr, py, cpp, frames, constructed>>

\* Python deletes the module's attribute.
ForgetClass ==
  /\ attr # Null
  /\ heap' = DecType(heap, attr)
  /\ attr' = Null
  /\ UNCHANGED <<target, local, py, cpp, frames, constructed>>

-----------------------------------------------------------------------------
(* Construction.                                                            *)

Reachable(t) == attr = t \/ \E o \in Objects : py[o] > 0 /\ heap.type[o] = t
Fresh(o) == heap.type[o] = Null
MayNest == Len(frames) < MaxDepth

\* class_constructor_holder::construct begins with the type check.
Enter(entry, o, type, mode) ==
  Append(frames, [entry |-> entry, self |-> o, mode |-> mode, native |-> Null,
                  at |-> IF type = target THEN "convert" ELSE "failed"])

\* T.__new__(T)
New(o, t) ==
  /\ Reachable(t) /\ Fresh(o)
  /\ heap' = Alloc(heap, o, t)
  /\ py' = [py EXCEPT ![o] = 1]
  /\ UNCHANGED <<roots, cpp, frames, constructed>>

\* export_type_vectorcall: the new instance becomes the first argument, in the slot
\* before the caller's arguments, in a local array or in one that is allocated.
VectorCall(o, t, mode) ==
  /\ Reachable(t) /\ Fresh(o) /\ MayNest
  /\ "__dynabridge_constructor__" \in heap.attrs[t]
  /\ heap' = [Alloc(heap, o, t) EXCEPT
                !.loans = IF mode = "offset" THEN @ + 1 ELSE @,
                !.buffers = IF mode = "malloc" THEN @ + 1 ELSE @]
  /\ frames' = Enter("vectorcall", o, t, mode)
  /\ UNCHANGED <<roots, py, cpp, constructed>>

\* The array cannot be allocated.
VectorCallNoMemory(o, t) ==
  /\ Reachable(t) /\ Fresh(o) /\ MayNest
  /\ "__dynabridge_constructor__" \in heap.attrs[t]
  /\ heap' = DecRef(Alloc(heap, o, t), o)
  /\ UNCHANGED <<roots, py, cpp, frames, constructed>>

UnderConstruction(o) == \E i \in DOMAIN frames : frames[i].self = o

\* Python calls __init__; the call's arguments refer to the instance.
CallInit(o) ==
  /\ py[o] > 0 /\ MayNest /\ "__init__" \in heap.attrs[heap.type[o]]
  /\ UnderConstruction(o) => Reenter
  /\ heap' = IncRef(heap, o)
  /\ frames' = Enter("init", o, heap.type[o], "local")
  /\ UNCHANGED <<roots, py, cpp, constructed>>

\* make_export_object_impl: C++ constructs an instance of the registered class.
MakeExportObject(o) ==
  /\ target # Null /\ Fresh(o) /\ MayNest
  /\ heap' = Alloc(heap, o, target)
  /\ frames' = Enter("make", o, target, "local")
  /\ UNCHANGED <<roots, py, cpp, constructed>>

Top == frames[Len(frames)]
Goes(f) == frames' = [frames EXCEPT ![Len(frames)] = f]
In(at) == frames # <<>> /\ Top.at = at

Reinitialises(o) == TRUE
\* construct_export_object_impl refuses an instance that has its native.
Uninitialised(o) == heap.native[o] = Null

\* The arguments are converted and the native's constructor starts in place.
Begin(n) ==
  /\ In("convert") /\ Uninitialised(Top.self)
  /\ n \notin constructed /\ \A i \in DOMAIN frames : frames[i].native # n
  /\ Goes([Top EXCEPT !.at = "construct", !.native = n])
  /\ UNCHANGED <<heap, roots, py, cpp, constructed>>

\* A conversion or the native's constructor throws, or the instance has its native.
Throw ==
  /\ In("convert") \/ In("construct")
  /\ Goes([Top EXCEPT !.at = "failed", !.native = Null])
  /\ UNCHANGED <<heap, roots, py, cpp, constructed>>

\* The caller's slot is restored, the array freed.
GiveBackBuffers(h, f) == [h EXCEPT !.buffers = IF f.mode = "malloc" THEN @ - 1 ELSE @]
GiveBackArguments(h, f) ==
  [h EXCEPT !.loans = IF f.mode = "offset" THEN @ - 1 ELSE @,
            !.buffers = IF f.mode = "malloc" THEN @ - 1 ELSE @]

Pop == frames' = SubSeq(frames, 1, Len(frames) - 1)

\* The constructor returns: the native is published and the object_t refers to self.
\* It is handed to the caller of make_export_object_impl; otherwise it is dropped, and
\* a vectorcall passes the new instance's reference on to Python.
Constructed ==
  LET o == Top.self
      published == IncRef([heap EXCEPT !.native[o] = Top.native], o)
  IN /\ In("construct")
     /\ heap' = IF Top.entry = "init" THEN DecRef(DecRef(published, o), o)
                ELSE GiveBackArguments(DecRef(published, o), Top)
     /\ py' = [py EXCEPT ![o] = IF Top.entry = "vectorcall" THEN @ + 1 ELSE @]
     /\ cpp' = [cpp EXCEPT ![o] = IF Top.entry = "make" THEN @ + 1 ELSE @]
     /\ constructed' = constructed \cup {Top.native}
     /\ Pop
     /\ UNCHANGED roots

\* The construction failed: the instance, or the call's reference to it, is dropped.
Failed ==
  /\ In("failed")
  /\ heap' = DecRef(GiveBackArguments(heap, Top), Top.self)
  /\ Pop
  /\ UNCHANGED <<roots, py, cpp, constructed>>

-----------------------------------------------------------------------------
(* Between and below constructions.                                         *)

Refer(o) ==
  /\ py[o] > 0 /\ cpp[o] < MaxRefs
  /\ heap' = IncRef(heap, o)
  /\ cpp' = [cpp EXCEPT ![o] = @ + 1]
  /\ UNCHANGED <<roots, py, frames, constructed>>

Release(o) ==
  /\ cpp[o] > 0
  /\ heap' = DecRef(heap, o)
  /\ cpp' = [cpp EXCEPT ![o] = @ - 1]
  /\ UNCHANGED <<roots, py, frames, constructed>>

\* define_export_instance_impl: the module takes the object_t's reference, or define()
\* drops it.
DefineInstance(o) ==
  /\ cpp[o] > 0 /\ py[o] < MaxRefs
  /\ cpp' = [cpp EXCEPT ![o] = @ - 1]
  /\ py' = [py EXCEPT ![o] = @ + 1]
  /\ UNCHANGED <<heap, roots, frames, constructed>>

\* Python code below a construction works on what it can reach: it keeps or drops
\* an instance.
PythonDrops(o) ==
  /\ py[o] > 0
  /\ heap' = DecRef(heap, o)
  /\ py' = [py EXCEPT ![o] = @ - 1]
  /\ UNCHANGED <<roots, cpp, frames, constructed>>

Modes == {"offset", "local", "malloc"}

Next ==
  \/ \E t \in Types : DefineClass(t) \/ DefineClassFails(t)
  \/ DefineConstructor \/ DefineConstructorFails \/ StoreClass \/ ForgetClass
  \/ \E o \in Objects, t \in Types :
       \/ New(o, t) \/ VectorCallNoMemory(o, t)
       \/ \E mode \in Modes : VectorCall(o, t, mode)
  \/ \E o \in Objects :
       \/ CallInit(o) \/ MakeExportObject(o) \/ Refer(o) \/ Release(o)
       \/ DefineInstance(o) \/ PythonDrops(o)
  \/ \E n \in Natives : Begin(n)
  \/ Throw \/ Constructed \/ Failed

Spec == Init /\ [][Next]_vars

-----------------------------------------------------------------------------
One(b) == IF b THEN 1 ELSE 0

\* Every reference count is the number of references that exist, through failing
\* registrations, replaced classes, failing and nested constructions: an instance
\* is freed when the last reference goes and not before, a class lives as long
\* as its instances, and its constructor as long as the class.
RefCountsExact ==
  /\ \A o \in Objects :
       heap.rc[o] = py[o] + cpp[o] + Cardinality({i \in DOMAIN frames : frames[i].self = o})
  /\ \A t \in Types :
       /\ heap.typeRefs[t] = One(attr = t) + One(target = t) + One(local = t)
                              + Cardinality({o \in Objects : heap.type[o] = t})
       /\ heap.ctorRefs[t] = Cardinality(heap.attrs[t])
       /\ heap.holders[t] = One(heap.ctorRefs[t] > 0)

\* A native's storage is its own: no constructor runs on storage that holds a native,
\* and a native that was constructed is destroyed exactly once, when its instance is.
NativesBalanced ==
  /\ \A i, j \in DOMAIN frames :
       /\ frames[i].at = "construct" => heap.native[frames[i].self] = Null
       /\ i # j /\ frames[i].at = "construct" /\ frames[j].at = "construct" =>
            frames[i].self # frames[j].self
  /\ \A n \in constructed :
       heap.destroyed[n] + Cardinality({o \in Objects : heap.native[o] = n}) = 1

\* When a type's vectorcall has returned, with an instance or with an error, the
\* caller's argument slot is what it was and the array is freed.
ArgumentsGivenBack ==
  /\ heap.loans = Cardinality({i \in DOMAIN frames : frames[i].mode = "offset"})
  /\ heap.buffers = Cardinality({i \in DOMAIN frames : frames[i].mode = "malloc"})

-----------------------------------------------------------------------------
(* The inductive invariant behind the safety properties.                   *)

Heap == [typeRefs : [Types -> Int], attrs : [Types -> SUBSET Constructors],
         ctorRefs : [Types -> Int], holders : [Types -> Int],
         rc : [Objects -> Int], type : [Objects -> Types \cup {Null}],
         native : [Objects -> Natives \cup {Null}],
         loans : Int, buffers : Int, destroyed : [Natives -> Int]]

Frame ==
  {f \in [entry : {"vectorcall", "init", "make"}, self : Objects, mode : Modes,
          native : Natives \cup {Null}, at : {"convert", "construct", "failed"}] :
     /\ f.at = "construct" => f.native # Null
     /\ f.entry # "vectorcall" => f.mode = "local"}

TypeOK ==
  /\ heap \in Heap
  /\ {attr, target, local} \subseteq Types \cup {Null}
  /\ py \in [Objects -> Nat] /\ cpp \in [Objects -> Nat]
  /\ frames \in Seq(Frame) /\ constructed \subseteq Natives

InstancesOf(h, t) == {o \in Objects : h.type[o] = t}
StorageOf(h, n) == {o \in Objects : h.native[o] = n}

\* A callable lives by the attributes that refer to it; memory that is no instance
\* has no references and no native.
HeapInv(h) ==
  /\ \A t \in Types : /\ h.ctorRefs[t] = Cardinality(h.attrs[t])
                      /\ h.holders[t] = One(h.ctorRefs[t] > 0)
  /\ \A o \in Objects : h.type[o] = Null => h.rc[o] = 0 /\ h.native[o] = Null

CountInv == TypeOK /\ HeapInv(heap) /\ RefCountsExact /\ ArgumentsGivenBack

\* How often a native was destroyed or is held by an instance.
Held(h, n) == h.destroyed[n] + Cardinality(StorageOf(h, n))

\* Without a second __init__ the frames construct different instances, those whose
\* constructor runs hold no native yet, and the natives are new and different.
NativeInv ==
  /\ \A n \in Natives : Held(heap, n) = One(n \in constructed)
  /\ \A i \in 1..Len(frames) : frames[i].at = "construct" =>
       heap.native[frames[i].self] = Null /\ frames[i].native \notin constructed
  /\ \A i, j \in 1..Len(frames) : i # j =>
       /\ frames[i].self # frames[j].self
       /\ frames[i].at = "construct" /\ frames[j].at = "construct" =>
            frames[i].native # frames[j].native
=============================================================================
