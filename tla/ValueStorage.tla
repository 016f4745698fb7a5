---------------------------- MODULE ValueStorage ----------------------------
(***************************************************************************)
(* The two places where dynabridge keeps a C++ object in raw storage and    *)
(* its lifetime by hand: optional<T> (optional.h), which holds operations,  *)
(* handlers and call results, and export_native_storage<Native> (traits.h), *)
(* which holds an exported native or borrows one.                           *)
(*                                                                          *)
(* `live` is the truth - which cells hold a constructed object - and        *)
(* has_value_ and owns_ are what the code believes.  A constructor or an    *)
(* assignment of T may throw at every use.  Copying and moving differ only  *)
(* in the value they leave behind: a moved-from optional stays engaged.     *)
(* AssignOver and MoveFromPointer are seeded faults.                        *)
(***************************************************************************)

CONSTANTS
  Optionals,  \* optional<T> objects
  Storages,   \* export_native_storage<Native> objects
  Foreign,    \* natives that others own and storages may borrow
  Null        \* nullptr

ASSUME StorageAssumption ==
  /\ Optionals \cap Storages = {} /\ Optionals \cap Foreign = {}
  /\ Storages \cap Foreign = {}
  /\ Null \notin Optionals \cup Storages \cup Foreign

VARIABLES
  scope,     \* the optionals and storages that are within their lifetime
  hasValue,  \* the optionals whose has_value_ is set
  native,    \* native_ of a storage: its own cell, a foreign native or nullptr
  owns,      \* the storages whose owns_ is set
  live,      \* the cells that hold a constructed object
  broken     \* cells constructed over a live object, or destroyed or read dead

storage == <<native, owns>>
vars == <<scope, hasValue, storage, live, broken>>

Init ==
  /\ scope = {}
  /\ hasValue = {}
  /\ native = [n \in Storages |-> Null]
  /\ owns = {}
  /\ live = Foreign
  /\ broken = {}

\* An operation destroys the objects in `first`, then constructs those in `made` from
\* those in `read`, then destroys those in `last`.
Objects(first, read, made, last) ==
  LET kept == live \ first IN
  /\ live' = (kept \cup made) \ last
  /\ broken' = broken \cup (first \ live) \cup (read \ kept) \cup (made \cap kept)
                 \cup (last \ (kept \cup made))

-----------------------------------------------------------------------------
(* optional<T>.                                                             *)

\* What reset() and the destructor destroy: the payload of an engaged optional.
Payload(o) == {o} \cap hasValue

\* optional().
ConstructEmpty(o) ==
  /\ o \in Optionals \ scope
  /\ scope' = scope \cup {o}
  /\ UNCHANGED <<hasValue, storage, live, broken>>

\* optional(in_place, ...), optional(value).  When T's constructor throws there is no
\* optional.
ConstructValue(o) ==
  /\ o \in Optionals \ scope
  /\ scope' = scope \cup {o}
  /\ hasValue' = hasValue \cup {o}
  /\ Objects({}, {}, {o}, {})
  /\ UNCHANGED storage

\* optional(const optional&), optional(optional&&).
ConstructFrom(o, p) ==
  /\ o \in Optionals \ scope /\ p \in Optionals \cap scope
  /\ scope' = scope \cup {o}
  /\ IF p \in hasValue
     THEN hasValue' = hasValue \cup {o} /\ Objects({}, {p}, {o}, {})
     ELSE UNCHANGED <<hasValue, live, broken>>
  /\ UNCHANGED storage

AssignOver(o) == {o}
\* Assignment constructs only where there is nothing to assign to.
Assigned(o) == {o} \ hasValue

\* operator=: assign, construct or reset, and nothing at all for self-assignment.
Assign(o, p) ==
  /\ o \in Optionals \cap scope /\ p \in Optionals \cap scope /\ o # p
  /\ IF p \in hasValue
     THEN hasValue' = hasValue \cup {o} /\ Objects({}, {p}, Assigned(o), {})
     ELSE hasValue' = hasValue \ {o} /\ Objects(Payload(o), {}, {}, {})
  /\ UNCHANGED <<scope, storage>>

\* T's constructor or assignment throws: has_value_ is set only after a construction.
AssignThrows(o, p) ==
  /\ o \in Optionals \cap scope /\ p \in Optionals \cap scope /\ o # p
  /\ p \in hasValue
  /\ Objects({}, {p}, {}, {})
  /\ UNCHANGED <<scope, hasValue, storage>>

\* emplace(): reset(), then construct().
Emplace(o) ==
  /\ o \in Optionals \cap scope
  /\ hasValue' = hasValue \cup {o}
  /\ Objects(Payload(o), {}, {o}, {})
  /\ UNCHANGED <<scope, storage>>

\* reset(), and an emplace() whose constructor throws.
Reset(o) ==
  /\ o \in Optionals \cap scope
  /\ hasValue' = hasValue \ {o}
  /\ Objects(Payload(o), {}, {}, {})
  /\ UNCHANGED <<scope, storage>>

\* The end of an optional's lifetime.
Destroy(o) ==
  /\ o \in Optionals \cap scope
  /\ scope' = scope \ {o}
  /\ hasValue' = hasValue \ {o}
  /\ Objects(Payload(o), {}, {}, {})
  /\ UNCHANGED storage

-----------------------------------------------------------------------------
(* export_native_storage<Native>.                                           *)

\* What reset() destroys: only an owned native.
Held(n) == IF n \in owns /\ native[n] # Null THEN {native[n]} ELSE {}

\* export_native_storage(borrowed_ref).
Borrow(n, f) ==
  /\ n \in Storages \ scope /\ f \in Foreign
  /\ scope' = scope \cup {n}
  /\ native' = [native EXCEPT ![n] = f]
  /\ UNCHANGED <<hasValue, owns, live, broken>>

\* export_native_storage(owned_value) and the constructors that forward arguments.
Own(n) ==
  /\ n \in Storages \ scope
  /\ scope' = scope \cup {n}
  /\ native' = [native EXCEPT ![n] = n]
  /\ owns' = owns \cup {n}
  /\ Objects({}, {}, {n}, {})
  /\ UNCHANGED hasValue

MoveFromPointer(n, m) == native' = [native EXCEPT ![n] = native[m], ![m] = Null]
\* native_ after move_from(): an owned native lives in this storage's own cell now, a
\* borrowed one stays where it is.
MoveFrom(n, m) ==
  native' = [native EXCEPT ![n] = IF m \in owns THEN n ELSE native[m], ![m] = Null]

\* owns_ after move_from().
OwnsFrom(n, m) == owns' = IF m \in owns THEN (owns \cup {n}) \ {m} ELSE owns \ {n}

\* The cell move_from() constructs in.
Moved(n, m) == IF m \in owns THEN {n} ELSE {}

\* export_native_storage(export_native_storage&&).
MoveConstruct(n, m) ==
  /\ n \in Storages \ scope /\ m \in Storages \cap scope
  /\ scope' = scope \cup {n}
  /\ MoveFrom(n, m) /\ OwnsFrom(n, m)
  /\ Objects({}, Held(m), Moved(n, m), Held(m))
  /\ UNCHANGED hasValue

\* operator=(export_native_storage&&): reset(), then move_from().
MoveAssign(n, m) ==
  /\ n \in Storages \cap scope /\ m \in Storages \cap scope /\ n # m
  /\ MoveFrom(n, m) /\ OwnsFrom(n, m)
  /\ Objects(Held(n), Held(m), Moved(n, m), Held(m))
  /\ UNCHANGED <<scope, hasValue>>

\* The native's move constructor throws: this storage is empty, the other has it still.
MoveAssignThrows(n, m) ==
  /\ n \in Storages \cap scope /\ m \in Storages \cap scope /\ n # m
  /\ m \in owns
  /\ native' = [native EXCEPT ![n] = Null]
  /\ owns' = owns \ {n}
  /\ Objects(Held(n), Held(m), {}, {})
  /\ UNCHANGED <<scope, hasValue>>

DestroyStorage(n) ==
  /\ n \in Storages \cap scope
  /\ scope' = scope \ {n}
  /\ native' = [native EXCEPT ![n] = Null]
  /\ owns' = owns \ {n}
  /\ Objects(Held(n), {}, {}, {})
  /\ UNCHANGED hasValue

-----------------------------------------------------------------------------
OptionalStep(o) ==
  \/ ConstructEmpty(o) \/ ConstructValue(o) \/ Emplace(o) \/ Reset(o) \/ Destroy(o)
  \/ \E p \in Optionals : ConstructFrom(o, p) \/ Assign(o, p) \/ AssignThrows(o, p)

StorageStep(n) ==
  \/ Own(n) \/ DestroyStorage(n)
  \/ \E f \in Foreign : Borrow(n, f)
  \/ \E m \in Storages : MoveConstruct(n, m) \/ MoveAssign(n, m) \/ MoveAssignThrows(n, m)

Next == (\E o \in Optionals : OptionalStep(o)) \/ (\E n \in Storages : StorageStep(n))

Spec == Init /\ [][Next]_vars

-----------------------------------------------------------------------------
\* Whatever is copied, moved, reset and thrown out of half way: no object is constructed
\* over a live one, destroyed twice or used dead; an object is alive exactly while an
\* optional or storage in scope answers for it; and a native that a storage borrows
\* is never destroyed by a storage.
LifetimesMatch ==
  /\ broken = {}
  /\ live = Foreign \cup (hasValue \cap scope) \cup (owns \cap scope)
  /\ \A n \in Storages : native[n] = Null \/ native[n] \in live

\* The inductive invariant: outside its scope an optional is not engaged and a storage
\* is empty, and a storage owns its own cell and no other.
IInv ==
  /\ scope \subseteq Optionals \cup Storages
  /\ hasValue \subseteq Optionals \cap scope
  /\ owns \subseteq Storages \cap scope
  /\ native \in [Storages -> Storages \cup Foreign \cup {Null}]
  /\ \A n \in Storages : native[n] \in Storages => n \in owns
  /\ \A n \in owns : native[n] = n
  /\ live = Foreign \cup hasValue \cup owns
  /\ broken = {}
=============================================================================
