------------------------- MODULE ValueStorageProofs -------------------------
(***************************************************************************)
(* The lifetimes of optional<T> and export_native_storage<Native>, for any  *)
(* number of them.                                                          *)
(***************************************************************************)
EXTENDS ValueStorage, TLAPS

\* Nothing exists at first but the natives others own.
LEMMA InitIInv == Init => IInv
  BY StorageAssumption DEF Init, IInv

\* Every operation on an optional destroys its payload when it has one, constructs one
\* when it has none, and leaves the storages alone.
LEMMA OptionalPreserves ==
  ASSUME IInv, NEW o \in Optionals, OptionalStep(o)
  PROVE  IInv'
<1> USE StorageAssumption DEF IInv, storage
<1>1. CASE ConstructEmpty(o)
  BY <1>1 DEF ConstructEmpty
<1>2. CASE ConstructValue(o)
  BY <1>2 DEF ConstructValue, Objects
<1>3. CASE Emplace(o)
  BY <1>3 DEF Emplace, Objects, Payload
<1>4. CASE Reset(o)
  BY <1>4 DEF Reset, Objects, Payload
<1>5. CASE Destroy(o)
  BY <1>5 DEF Destroy, Objects, Payload
<1>6. ASSUME NEW p \in Optionals, ConstructFrom(o, p) PROVE IInv'
  <2>1. CASE p \in hasValue
    BY <1>6, <2>1 DEF ConstructFrom, Objects
  <2>2. CASE p \notin hasValue
    BY <1>6, <2>2 DEF ConstructFrom
  <2>3. QED
    BY <2>1, <2>2
<1>7. ASSUME NEW p \in Optionals, Assign(o, p) PROVE IInv'
  <2>1. CASE p \in hasValue
    BY <1>7, <2>1 DEF Assign, Assigned, Objects
  <2>2. CASE p \notin hasValue
    BY <1>7, <2>2 DEF Assign, Payload, Objects
  <2>3. QED
    BY <2>1, <2>2
<1>8. ASSUME NEW p \in Optionals, AssignThrows(o, p) PROVE IInv'
  BY <1>8 DEF AssignThrows, Objects
<1>9. QED
  BY <1>1, <1>2, <1>3, <1>4, <1>5, <1>6, <1>7, <1>8 DEF OptionalStep

\* A storage holds a native of its own exactly when it owns one.
LEMMA HeldIsOwned ==
  ASSUME IInv, NEW n \in Storages
  PROVE  Held(n) = {n} \cap owns
  BY StorageAssumption DEF IInv, Held

\* Every operation on a storage destroys what it owns, and only that.
LEMMA StoragePreserves ==
  ASSUME IInv, NEW n \in Storages, StorageStep(n)
  PROVE  IInv'
<1> USE StorageAssumption DEF IInv
<1>1. CASE Own(n)
  BY <1>1 DEF Own, Objects
<1>2. CASE DestroyStorage(n)
  BY <1>2, HeldIsOwned DEF DestroyStorage, Objects
<1>3. ASSUME NEW f \in Foreign, Borrow(n, f) PROVE IInv'
  BY <1>3 DEF Borrow
<1>4. ASSUME NEW m \in Storages, MoveConstruct(n, m) PROVE IInv'
  <2>1. CASE m \in owns
    BY <1>4, <2>1, HeldIsOwned DEF MoveConstruct, MoveFrom, OwnsFrom, Moved, Objects
  <2>2. CASE m \notin owns
    BY <1>4, <2>2, HeldIsOwned DEF MoveConstruct, MoveFrom, OwnsFrom, Moved, Objects
  <2>3. QED
    BY <2>1, <2>2
<1>5. ASSUME NEW m \in Storages, MoveAssign(n, m) PROVE IInv'
  <2>1. CASE m \in owns
    BY <1>5, <2>1, HeldIsOwned DEF MoveAssign, MoveFrom, OwnsFrom, Moved, Objects
  <2>2. CASE m \notin owns
    BY <1>5, <2>2, HeldIsOwned DEF MoveAssign, MoveFrom, OwnsFrom, Moved, Objects
  <2>3. QED
    BY <2>1, <2>2
<1>6. ASSUME NEW m \in Storages, MoveAssignThrows(n, m) PROVE IInv'
  BY <1>6, HeldIsOwned DEF MoveAssignThrows, Objects
<1>7. QED
  BY <1>1, <1>2, <1>3, <1>4, <1>5, <1>6 DEF StorageStep

\* However optionals and storages are copied, moved and reset, and wherever a constructor
\* throws, every object is destroyed once, by the one that answers for it, and a
\* borrowed native by none (optional::operator=, emplace, reset;
\* export_native_storage::move_from, reset).
THEOREM LifetimeSafety == Spec => []LifetimesMatch
<1>1. IInv /\ [Next]_vars => IInv'
  <2> SUFFICES ASSUME IInv, [Next]_vars PROVE IInv'
    OBVIOUS
  <2>1. CASE UNCHANGED vars
    BY <2>1 DEF IInv, vars, storage
  <2>2. CASE Next
    BY <2>2, OptionalPreserves, StoragePreserves DEF Next
  <2>3. QED
    BY <2>1, <2>2
<1>2. IInv => LifetimesMatch
  BY DEF IInv, LifetimesMatch
<1>3. QED
  BY <1>1, <1>2, InitIInv, PTL DEF Spec
=============================================================================
