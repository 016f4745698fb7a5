---------------------------- MODULE PythonProofs ----------------------------
(***************************************************************************)
(* The Python backend: reference counts, natives and argument slots of the   *)
(* objects, for any number of classes, instances and nested constructions;   *)
(* then calls to and from Python, for any number of arguments, of imported   *)
(* calls in a body and of calls one after the other.                         *)
(***************************************************************************)
EXTENDS PythonObjects, PythonCalls, FiniteSetTheorems, SequenceTheorems, TLAPS

-----------------------------------------------------------------------------
(* Counting: instances of a type and storage of a native.                   *)

\* One object more satisfies, or one less.
LEMMA CountChanges ==
  ASSUME ConstantsOK, NEW S \in SUBSET Objects, NEW o \in Objects
  PROVE  /\ IsFiniteSet(S) /\ Cardinality(S) \in Nat
         /\ (Cardinality(S) = 0) <=> (S = {})
         /\ o \notin S => Cardinality(S \cup {o}) = Cardinality(S) + 1
         /\ o \in S => Cardinality(S \ {o}) = Cardinality(S) - 1
<1>1. IsFiniteSet(S)
  BY FS_Subset DEF ConstantsOK
<1>2. QED
  BY <1>1, FS_CardinalityType, FS_EmptySet, FS_AddElement, FS_RemoveElement

\* The size of a set of objects that changes at one object only.
LEMMA SetChanges ==
  ASSUME ConstantsOK, NEW F \in SUBSET Objects, NEW G \in SUBSET Objects, NEW o \in Objects,
         \A p \in Objects : p # o => (p \in G <=> p \in F)
  PROVE  /\ Cardinality(F) \in Nat /\ Cardinality(G) \in Nat
         /\ o \in F /\ o \notin G => Cardinality(G) = Cardinality(F) - 1
         /\ o \notin F /\ o \in G => Cardinality(G) = Cardinality(F) + 1
         /\ (o \in F <=> o \in G) => G = F
<1>1. /\ Cardinality(F) \in Nat /\ Cardinality(G) \in Nat
      /\ o \notin F => Cardinality(F \cup {o}) = Cardinality(F) + 1
      /\ o \in F => Cardinality(F \ {o}) = Cardinality(F) - 1
  BY CountChanges
<1>2. (o \in F <=> o \in G) => G = F
  OBVIOUS
<1>3. o \in F /\ o \notin G => G = F \ {o}
  OBVIOUS
<1>4. o \notin F /\ o \in G => G = F \cup {o}
  OBVIOUS
<1>5. QED
  BY <1>1, <1>2, <1>3, <1>4

\* A type's instances when one object changes its type.
LEMMA InstancesChange ==
  ASSUME ConstantsOK, NEW h, NEW g, NEW o \in Objects, NEW t \in Types,
         \A p \in Objects : p # o => h.type[p] = g.type[p]
  PROVE  /\ Cardinality(InstancesOf(h, t)) \in Nat /\ Cardinality(InstancesOf(g, t)) \in Nat
         /\ h.type[o] = t /\ g.type[o] # t =>
              Cardinality(InstancesOf(g, t)) = Cardinality(InstancesOf(h, t)) - 1
         /\ h.type[o] # t /\ g.type[o] = t =>
              Cardinality(InstancesOf(g, t)) = Cardinality(InstancesOf(h, t)) + 1
         /\ (h.type[o] = t <=> g.type[o] = t) => InstancesOf(g, t) = InstancesOf(h, t)
<1>1. PICK F \in SUBSET Objects, G \in SUBSET Objects :
             F = InstancesOf(h, t) /\ G = InstancesOf(g, t)
  BY DEF InstancesOf
<1>2. /\ \A p \in Objects : p # o => (p \in G <=> p \in F)
      /\ o \in F <=> h.type[o] = t
      /\ o \in G <=> g.type[o] = t
  BY <1>1 DEF InstancesOf
<1>3. /\ Cardinality(F) \in Nat /\ Cardinality(G) \in Nat
      /\ o \in F /\ o \notin G => Cardinality(G) = Cardinality(F) - 1
      /\ o \notin F /\ o \in G => Cardinality(G) = Cardinality(F) + 1
      /\ (o \in F <=> o \in G) => G = F
  BY <1>2, SetChanges
<1>4. QED
  BY <1>1, <1>2, <1>3

\* The storage of a native when one object changes its native.
LEMMA StorageChanges ==
  ASSUME ConstantsOK, NEW h, NEW g, NEW o \in Objects, NEW n \in Natives,
         \A p \in Objects : p # o => h.native[p] = g.native[p]
  PROVE  /\ Cardinality(StorageOf(h, n)) \in Nat /\ Cardinality(StorageOf(g, n)) \in Nat
         /\ h.native[o] = n /\ g.native[o] # n =>
              Cardinality(StorageOf(g, n)) = Cardinality(StorageOf(h, n)) - 1
         /\ h.native[o] # n /\ g.native[o] = n =>
              Cardinality(StorageOf(g, n)) = Cardinality(StorageOf(h, n)) + 1
         /\ (h.native[o] = n <=> g.native[o] = n) => StorageOf(g, n) = StorageOf(h, n)
<1>1. PICK F \in SUBSET Objects, G \in SUBSET Objects :
             F = StorageOf(h, n) /\ G = StorageOf(g, n)
  BY DEF StorageOf
<1>2. /\ \A p \in Objects : p # o => (p \in G <=> p \in F)
      /\ o \in F <=> h.native[o] = n
      /\ o \in G <=> g.native[o] = n
  BY <1>1 DEF StorageOf
<1>3. /\ Cardinality(F) \in Nat /\ Cardinality(G) \in Nat
      /\ o \in F /\ o \notin G => Cardinality(G) = Cardinality(F) - 1
      /\ o \notin F /\ o \in G => Cardinality(G) = Cardinality(F) + 1
      /\ (o \in F <=> o \in G) => G = F
  BY <1>2, SetChanges
<1>4. QED
  BY <1>1, <1>2, <1>3

-----------------------------------------------------------------------------
(* The operators on the heap.                                               *)

\* References to a type that are not those of its instances.
Spare(h, t) == h.typeRefs[t] - Cardinality(InstancesOf(h, t))

\* The fields that only registrations change.
SameObjects(h, g) ==
  /\ g.rc = h.rc /\ g.type = h.type /\ g.native = h.native
  /\ g.loans = h.loans /\ g.buffers = h.buffers /\ g.destroyed = h.destroyed

\* From h to g the references to one object change by d: every count stays in step, and
\* no native is lost.
Shifts(h, g, o, d) ==
  /\ g \in Heap /\ HeapInv(g)
  /\ g.rc[o] = h.rc[o] + d /\ \A p \in Objects : p # o => g.rc[p] = h.rc[p]
  /\ \A t \in Types : Spare(g, t) = Spare(h, t)
  /\ \A p \in Objects : p # o => g.native[p] = h.native[p]
  /\ g.native[o] \in {h.native[o], Null}
  /\ \A n \in Natives : Held(g, n) = Held(h, n)

\* ... and no argument slot or array is taken or given back.
Moves(h, g, o, d) == Shifts(h, g, o, d) /\ g.loans = h.loans /\ g.buffers = h.buffers

WithTypeRefs(h, x) == [h EXCEPT !.typeRefs = x]

\* Only the references to types change.
LEMMA TypeRefsFacts ==
  ASSUME NEW h \in Heap, NEW x \in [Types -> Int], NEW g, g = WithTypeRefs(h, x)
  PROVE  /\ g \in Heap /\ g.typeRefs = x
         /\ g.attrs = h.attrs /\ g.ctorRefs = h.ctorRefs /\ g.holders = h.holders
         /\ SameObjects(h, g) /\ (HeapInv(h) => HeapInv(g))
<1>1. /\ g \in Heap /\ g.typeRefs = x
      /\ g.attrs = h.attrs /\ g.ctorRefs = h.ctorRefs /\ g.holders = h.holders
      /\ g.rc = h.rc /\ g.type = h.type /\ g.native = h.native
      /\ g.loans = h.loans /\ g.buffers = h.buffers /\ g.destroyed = h.destroyed
  BY DEF WithTypeRefs, Heap
<1>2. SameObjects(h, g) /\ (HeapInv(h) => HeapInv(g))
  BY <1>1 DEF SameObjects, HeapInv
<1>3. QED
  BY <1>1, <1>2

\* DecConstructor for all of a type's attributes, as the type goes.
LEMMA DecTypeFacts ==
  ASSUME NEW h \in Heap, HeapInv(h), NEW t \in Types, h.typeRefs[t] > 0, t # Null
  PROVE  /\ DecType(h, t) \in Heap /\ HeapInv(DecType(h, t))
         /\ SameObjects(h, DecType(h, t))
         /\ DecType(h, t).typeRefs = [h.typeRefs EXCEPT ![t] = @ - 1]
<1>1. CASE h.typeRefs[t] > 1
  <2>1. PICK x \in [Types -> Int] : x = [h.typeRefs EXCEPT ![t] = @ - 1]
    <3>1. h.typeRefs \in [Types -> Int]
      BY DEF Heap
    <3>2. [h.typeRefs EXCEPT ![t] = @ - 1] \in [Types -> Int]
      BY ONLY <3>1, t \in Types
    <3>3. QED
      BY ONLY <3>2
  <2>2. DecType(h, t) = WithTypeRefs(h, x)
    BY <1>1, <2>1 DEF DecType, WithTypeRefs
  <2>3. PICK g : g = WithTypeRefs(h, x)
    OBVIOUS
  <2>4. g \in Heap /\ g.typeRefs = x /\ SameObjects(h, g) /\ HeapInv(g)
    BY <2>3, TypeRefsFacts
  <2>5. QED
    BY ONLY <2>1, <2>2, <2>3, <2>4
<1>2. CASE ~(h.typeRefs[t] > 1)
  <2> DEFINE n == Cardinality(h.attrs[t])
             c == [h EXCEPT !.ctorRefs[t] = @ - n,
                            !.holders[t] = IF n > 0 /\ h.ctorRefs[t] = n THEN @ - 1 ELSE @]
             g == [c EXCEPT !.typeRefs[t] = 0, !.attrs[t] = {}]
  <2>1. DecType(h, t) = g
    BY <1>2 DEF DecType, DecConstructor
  <2>2. h.typeRefs[t] = 1 /\ n \in Int /\ h.ctorRefs[t] = n /\ h.holders[t] = One(n > 0)
    <3>1. h.typeRefs[t] \in Int /\ h.ctorRefs[t] \in Int
      BY DEF Heap
    <3>2. n = h.ctorRefs[t] /\ h.holders[t] = One(h.ctorRefs[t] > 0)
      BY DEF HeapInv
    <3>3. QED
      BY <1>2, <3>1, <3>2
  <2> HIDE DEF n
  <2>3. PICK v \in Int : v = IF n > 0 /\ h.ctorRefs[t] = n THEN h.holders[t] - 1 ELSE h.holders[t]
    BY <2>2 DEF Heap
  <2>4. v = 0 /\ h.ctorRefs[t] - n = 0
    BY <2>2, <2>3 DEF One
  <2>5. PICK r, d, x \in [Types -> Int], a \in [Types -> SUBSET Constructors] :
          /\ r = [h.ctorRefs EXCEPT ![t] = 0] /\ d = [h.holders EXCEPT ![t] = 0]
          /\ x = [h.typeRefs EXCEPT ![t] = 0] /\ a = [h.attrs EXCEPT ![t] = {}]
    <3>1. /\ [h.ctorRefs EXCEPT ![t] = 0] \in [Types -> Int]
          /\ [h.holders EXCEPT ![t] = 0] \in [Types -> Int]
          /\ [h.typeRefs EXCEPT ![t] = 0] \in [Types -> Int]
          /\ [h.attrs EXCEPT ![t] = {}] \in [Types -> SUBSET Constructors]
      BY DEF Heap
    <3>2. QED
      BY <3>1
  <2>6. /\ c = [h EXCEPT !.ctorRefs = r, !.holders = d]
        /\ c.typeRefs = h.typeRefs /\ c.attrs = h.attrs
    BY <2>3, <2>4, <2>5 DEF Heap
  <2> HIDE DEF c
  <2>7. g = [h EXCEPT !.ctorRefs = r, !.holders = d, !.typeRefs = x, !.attrs = a]
    BY <2>5, <2>6 DEF Heap
  <2> HIDE DEF g
  <2>8. /\ g \in Heap /\ SameObjects(h, g)
        /\ g.typeRefs = x /\ g.attrs = a /\ g.ctorRefs = r /\ g.holders = d
    BY <2>7 DEF Heap, SameObjects
  <2>9. HeapInv(g)
    BY <2>5, <2>8, FS_EmptySet DEF HeapInv, SameObjects, One, Heap
  <2>10. QED
    BY <2>1, <2>2, <2>5, <2>8, <2>9
<1>3. QED
  BY <1>1, <1>2

\* A new instance has one reference, and refers to its type.
LEMMA AllocFacts ==
  ASSUME ConstantsOK, NEW h \in Heap, HeapInv(h), NEW o \in Objects, h.type[o] = Null,
         NEW t \in Types
  PROVE  Moves(h, Alloc(h, o, t), o, 1)
<1> DEFINE g == Alloc(h, o, t)
<1>1. h.rc[o] = 0 /\ h.native[o] = Null
  BY DEF HeapInv
<1>2. PICK r \in [Objects -> Int], y \in [Objects -> Types \cup {Null}],
           v \in [Objects -> Natives \cup {Null}], x \in [Types -> Int] :
        /\ r = [h.rc EXCEPT ![o] = 1] /\ y = [h.type EXCEPT ![o] = t]
        /\ v = [h.native EXCEPT ![o] = Null] /\ x = [h.typeRefs EXCEPT ![t] = @ + 1]
  <2>1. /\ [h.rc EXCEPT ![o] = 1] \in [Objects -> Int]
        /\ [h.type EXCEPT ![o] = t] \in [Objects -> Types \cup {Null}]
        /\ [h.native EXCEPT ![o] = Null] \in [Objects -> Natives \cup {Null}]
        /\ [h.typeRefs EXCEPT ![t] = @ + 1] \in [Types -> Int]
    BY DEF Heap
  <2>2. QED
    BY <2>1
<1>3. g = [h EXCEPT !.rc = r, !.type = y, !.native = v, !.typeRefs = x]
  BY <1>2 DEF Alloc
<1> HIDE DEF g
<1>4. /\ g \in Heap /\ g.rc = r /\ g.type = y /\ g.native = v /\ g.typeRefs = x
      /\ g.attrs = h.attrs /\ g.ctorRefs = h.ctorRefs /\ g.holders = h.holders
      /\ g.loans = h.loans /\ g.buffers = h.buffers /\ g.destroyed = h.destroyed
  BY <1>3 DEF Heap
<1>5. /\ \A p \in Objects : p # o => /\ g.rc[p] = h.rc[p] /\ g.type[p] = h.type[p]
                                     /\ g.native[p] = h.native[p]
      /\ g.rc[o] = 1 /\ g.type[o] = t /\ g.native[o] = Null
      /\ g.typeRefs[t] = h.typeRefs[t] + 1
      /\ \A u \in Types : u # t => g.typeRefs[u] = h.typeRefs[u]
  BY <1>2, <1>4 DEF Heap
<1>6. HeapInv(g)
  BY <1>4, <1>5 DEF HeapInv, ConstantsOK
<1>7. \A u \in Types : Spare(g, u) = Spare(h, u)
  <2> SUFFICES ASSUME NEW u \in Types PROVE Spare(g, u) = Spare(h, u)
    OBVIOUS
  <2>1. h.type[o] # u /\ \A p \in Objects : p # o => h.type[p] = g.type[p]
    BY <1>5 DEF ConstantsOK
  <2>2. CASE u = t
    <3>1. /\ Cardinality(InstancesOf(h, u)) \in Nat
          /\ Cardinality(InstancesOf(g, u)) = Cardinality(InstancesOf(h, u)) + 1
      BY <1>5, <2>1, <2>2, InstancesChange
    <3>2. h.typeRefs[u] \in Int /\ g.typeRefs[u] = h.typeRefs[u] + 1
      BY <1>5, <2>2 DEF Heap
    <3>3. QED
      BY <3>1, <3>2 DEF Spare
  <2>3. CASE u # t
    <3>1. InstancesOf(g, u) = InstancesOf(h, u)
      BY <1>5, <2>1, <2>3, InstancesChange
    <3>2. QED
      BY <1>5, <2>3, <3>1 DEF Spare
  <2>4. QED
    BY <2>2, <2>3
<1>8. \A n \in Natives : Held(g, n) = Held(h, n)
  <2>1. \A n \in Natives : StorageOf(g, n) = StorageOf(h, n)
    BY <1>1, <1>5 DEF StorageOf
  <2>2. QED
    BY <1>4, <2>1 DEF Held
<1>9. QED
  BY <1>1, <1>4, <1>5, <1>6, <1>7, <1>8 DEF Moves, Shifts, g

\* One more reference to an instance.
LEMMA IncRefFacts ==
  ASSUME ConstantsOK, NEW h \in Heap, HeapInv(h), NEW o \in Objects, h.rc[o] # 0
  PROVE  Moves(h, IncRef(h, o), o, 1)
<1> DEFINE g == IncRef(h, o)
<1>1. /\ g \in Heap /\ g.rc = [h.rc EXCEPT ![o] = @ + 1]
      /\ g.type = h.type /\ g.native = h.native /\ g.typeRefs = h.typeRefs
      /\ g.attrs = h.attrs /\ g.ctorRefs = h.ctorRefs /\ g.holders = h.holders
      /\ g.loans = h.loans /\ g.buffers = h.buffers /\ g.destroyed = h.destroyed
  BY DEF IncRef, Heap
<1> HIDE DEF g
<1>2. g.rc[o] = h.rc[o] + 1 /\ \A p \in Objects : p # o => g.rc[p] = h.rc[p]
  BY <1>1 DEF Heap
<1>3. HeapInv(g)
  BY <1>1, <1>2 DEF HeapInv
<1>4. \A t \in Types : Spare(g, t) = Spare(h, t)
  BY <1>1 DEF Spare, InstancesOf
<1>5. \A n \in Natives : Held(g, n) = Held(h, n)
  BY <1>1 DEF Held, StorageOf
<1>6. QED
  BY <1>1, <1>2, <1>3, <1>4, <1>5 DEF Moves, Shifts, g

\* The destructor runs for the native that the instance holds.
LEMMA DestroyedFacts ==
  ASSUME ConstantsOK, NEW h \in Heap, NEW o \in Objects
  PROVE  LET g == Destroyed(h, o) IN
         /\ g \in Heap /\ g.native = [h.native EXCEPT ![o] = Null]
         /\ g.rc = h.rc /\ g.type = h.type /\ g.typeRefs = h.typeRefs
         /\ g.attrs = h.attrs /\ g.ctorRefs = h.ctorRefs /\ g.holders = h.holders
         /\ g.loans = h.loans /\ g.buffers = h.buffers
         /\ \A n \in Natives : Held(g, n) = Held(h, n)
<1> DEFINE g == Destroyed(h, o)
<1>1. CASE h.native[o] = Null
  <2>1. g = h /\ [h.native EXCEPT ![o] = Null] = h.native
    BY <1>1 DEF Destroyed, Heap
  <2>2. QED
    BY <2>1
<1>2. CASE h.native[o] # Null
  <2>1. PICK m \in Natives : m = h.native[o]
    BY <1>2 DEF Heap
  <2>2. PICK v \in [Objects -> Natives \cup {Null}], d \in [Natives -> Int] :
          v = [h.native EXCEPT ![o] = Null] /\ d = [h.destroyed EXCEPT ![m] = @ + 1]
    <3>1. /\ [h.native EXCEPT ![o] = Null] \in [Objects -> Natives \cup {Null}]
          /\ [h.destroyed EXCEPT ![m] = @ + 1] \in [Natives -> Int]
      BY DEF Heap
    <3>2. QED
      BY <3>1
  <2>3. g = [h EXCEPT !.native = v, !.destroyed = d]
    BY <1>2, <2>1, <2>2 DEF Destroyed
  <2> HIDE DEF g
  <2>4. /\ g \in Heap /\ g.native = v /\ g.destroyed = d
        /\ g.rc = h.rc /\ g.type = h.type /\ g.typeRefs = h.typeRefs
        /\ g.attrs = h.attrs /\ g.ctorRefs = h.ctorRefs /\ g.holders = h.holders
        /\ g.loans = h.loans /\ g.buffers = h.buffers
    BY <2>3 DEF Heap
  <2>5. ASSUME NEW n \in Natives PROVE Held(g, n) = Held(h, n)
    <3>1. g.native[o] = Null /\ \A p \in Objects : p # o => h.native[p] = g.native[p]
      BY <2>2, <2>4 DEF Heap
    <3>2. g.native[o] # n
      BY <3>1 DEF ConstantsOK
    <3>3. CASE n = m
      <4>1. /\ Cardinality(StorageOf(h, n)) \in Nat
            /\ Cardinality(StorageOf(g, n)) = Cardinality(StorageOf(h, n)) - 1
        BY <2>1, <3>1, <3>2, <3>3, StorageChanges
      <4>2. h.destroyed[n] \in Int /\ g.destroyed[n] = h.destroyed[n] + 1
        BY <2>2, <2>4, <3>3 DEF Heap
      <4>3. QED
        BY <4>1, <4>2 DEF Held
    <3>4. CASE n # m
      <4>1. StorageOf(g, n) = StorageOf(h, n)
        BY <2>1, <3>1, <3>2, <3>4, StorageChanges
      <4>2. g.destroyed[n] = h.destroyed[n]
        BY <2>2, <2>4, <3>4 DEF Heap
      <4>3. QED
        BY <4>1, <4>2 DEF Held
    <3>5. QED
      BY <3>3, <3>4
  <2>6. QED
    BY <2>2, <2>4, <2>5 DEF g
<1>3. QED
  BY <1>1, <1>2

\* An instance that nobody refers to gives up its native and its type.
LEMMA DeallocFacts ==
  ASSUME ConstantsOK, NEW h \in Heap, HeapInv(h), NEW o \in Objects, h.rc[o] = 1,
         \A t \in Types : Spare(h, t) >= 0
  PROVE  Moves(h, Dealloc(h, o), o, -1)
<1>1. PICK t \in Types : t = h.type[o] /\ t # Null
  BY DEF HeapInv, Heap, ConstantsOK
<1>2. PICK d \in Heap :
        /\ d = Destroyed(h, o) /\ d.native = [h.native EXCEPT ![o] = Null]
        /\ d.rc = h.rc /\ d.type = h.type /\ d.typeRefs = h.typeRefs
        /\ d.attrs = h.attrs /\ d.ctorRefs = h.ctorRefs /\ d.holders = h.holders
        /\ d.loans = h.loans /\ d.buffers = h.buffers
        /\ \A n \in Natives : Held(d, n) = Held(h, n)
  BY DestroyedFacts
<1>3. PICK r \in [Objects -> Int], y \in [Objects -> Types \cup {Null}] :
        r = [h.rc EXCEPT ![o] = 0] /\ y = [h.type EXCEPT ![o] = Null]
  <2>1. /\ [h.rc EXCEPT ![o] = 0] \in [Objects -> Int]
        /\ [h.type EXCEPT ![o] = Null] \in [Objects -> Types \cup {Null}]
    BY DEF Heap
  <2>2. QED
    BY <2>1
<1>4. PICK x : x = [d EXCEPT !.rc = r, !.type = y]
  OBVIOUS
<1>5. /\ x \in Heap /\ x.rc = r /\ x.type = y /\ x.native = d.native
       /\ x.typeRefs = d.typeRefs
       /\ x.attrs = d.attrs /\ x.ctorRefs = d.ctorRefs /\ x.holders = d.holders
       /\ x.loans = d.loans /\ x.buffers = d.buffers /\ x.destroyed = d.destroyed
  BY ONLY <1>4, d \in Heap, r \in [Objects -> Int], y \in [Objects -> Types \cup {Null}]
     DEF Heap
<1>6. PICK e \in Heap : e = x
  BY ONLY <1>5
<1>7. /\ e = [d EXCEPT !.rc = r, !.type = y]
      /\ e.rc = r /\ e.type = y /\ e.native = d.native /\ e.typeRefs = h.typeRefs
      /\ e.attrs = h.attrs /\ e.ctorRefs = h.ctorRefs /\ e.holders = h.holders
      /\ e.loans = h.loans /\ e.buffers = h.buffers /\ e.destroyed = d.destroyed
  BY ONLY <1>2, <1>4, <1>5, <1>6
<1>8. Dealloc(h, o) = DecType(e, t)
  <2>1. e = [d EXCEPT !.rc[o] = 0, !.type[o] = Null]
    BY <1>2, <1>3, <1>7
  <2>2. QED
    BY <1>1, <1>2, <2>1 DEF Dealloc
<1>9. /\ \A p \in Objects : p # o => /\ e.rc[p] = h.rc[p] /\ h.type[p] = e.type[p]
                                     /\ e.native[p] = h.native[p]
      /\ e.rc[o] = 0 /\ e.type[o] = Null /\ e.native[o] = Null
  BY <1>2, <1>3, <1>7 DEF Heap
<1>10. HeapInv(e)
  BY <1>7, <1>9 DEF HeapInv
<1>11. \A n \in Natives : Held(e, n) = Held(h, n)
  <2>1. \A n \in Natives : StorageOf(e, n) = StorageOf(d, n) /\ e.destroyed[n] = d.destroyed[n]
    BY <1>7 DEF StorageOf
  <2>2. QED
    BY <1>2, <2>1 DEF Held
<1>12. /\ Cardinality(InstancesOf(h, t)) \in Nat /\ Cardinality(InstancesOf(e, t)) \in Nat
      /\ Cardinality(InstancesOf(e, t)) = Cardinality(InstancesOf(h, t)) - 1
  BY <1>1, <1>9, InstancesChange
<1>13. \A u \in Types : u # t => InstancesOf(e, u) = InstancesOf(h, u)
  <2> SUFFICES ASSUME NEW u \in Types, u # t PROVE InstancesOf(e, u) = InstancesOf(h, u)
    OBVIOUS
  <2>1. h.type[o] # u /\ e.type[o] # u
    BY <1>1, <1>9 DEF ConstantsOK
  <2>2. QED
    BY <1>9, <2>1, InstancesChange
<1>14. e.typeRefs[t] > 0
  <2>1. h.typeRefs[t] \in Int /\ h.typeRefs[t] - Cardinality(InstancesOf(h, t)) >= 0
    BY DEF Heap, Spare
  <2>2. QED
    BY <1>7, <1>12, <2>1
<1>15. PICK g \in Heap :
         /\ g = DecType(e, t) /\ HeapInv(g) /\ SameObjects(e, g)
         /\ g.typeRefs = [e.typeRefs EXCEPT ![t] = @ - 1]
  BY <1>1, <1>10, <1>14, DecTypeFacts
<1>16. \A u \in Types : Spare(g, u) = Spare(h, u)
  <2> SUFFICES ASSUME NEW u \in Types PROVE Spare(g, u) = Spare(h, u)
    OBVIOUS
  <2>1. InstancesOf(g, u) = InstancesOf(e, u)
    BY <1>15 DEF InstancesOf, SameObjects
  <2>2. CASE u = t
    <3>1. h.typeRefs[u] \in Int /\ g.typeRefs[u] = h.typeRefs[u] - 1
      BY <1>7, <1>15, <2>2 DEF Heap
    <3>2. QED
      BY <1>12, <2>1, <2>2, <3>1 DEF Spare
  <2>3. CASE u # t
    <3>1. g.typeRefs[u] = h.typeRefs[u]
      BY <1>7, <1>15, <2>3 DEF Heap
    <3>2. QED
      BY <1>13, <2>1, <2>3, <3>1 DEF Spare
  <2>4. QED
    BY <2>2, <2>3
<1>17. \A n \in Natives : Held(g, n) = Held(h, n)
  BY <1>11, <1>15 DEF Held, StorageOf, SameObjects
<1>18. Moves(h, g, o, -1)
  <2>1. g.rc[o] = h.rc[o] + (-1) /\ g.native[o] = Null
    BY <1>9, <1>15 DEF SameObjects
  <2>2. \A p \in Objects : p # o => g.rc[p] = h.rc[p] /\ g.native[p] = h.native[p]
    BY <1>9, <1>15 DEF SameObjects
  <2>3. g.loans = h.loans /\ g.buffers = h.buffers
    BY <1>7, <1>15 DEF SameObjects
  <2>4. QED
    BY <1>15, <1>16, <1>17, <2>1, <2>2, <2>3 DEF Moves, Shifts
<1>19. QED
  BY <1>8, <1>15, <1>18

\* One reference less, and the last one deallocates.
LEMMA DecRefFacts ==
  ASSUME ConstantsOK, NEW h \in Heap, HeapInv(h), NEW o \in Objects, h.rc[o] >= 1,
         \A t \in Types : Spare(h, t) >= 0
  PROVE  Moves(h, DecRef(h, o), o, -1)
<1>1. CASE h.rc[o] > 1
  <2> DEFINE g == [h EXCEPT !.rc[o] = @ - 1]
  <2>1. /\ g \in Heap /\ g.rc = [h.rc EXCEPT ![o] = @ - 1]
        /\ g.type = h.type /\ g.native = h.native /\ g.typeRefs = h.typeRefs
        /\ g.attrs = h.attrs /\ g.ctorRefs = h.ctorRefs /\ g.holders = h.holders
        /\ g.loans = h.loans /\ g.buffers = h.buffers /\ g.destroyed = h.destroyed
    BY DEF Heap
  <2> HIDE DEF g
  <2>2. /\ g.rc[o] = h.rc[o] + (-1) /\ h.rc[o] # 0
        /\ \A p \in Objects : p # o => g.rc[p] = h.rc[p]
    BY <1>1, <2>1 DEF Heap
  <2>3. HeapInv(g)
    BY <2>1, <2>2 DEF HeapInv
  <2>4. \A t \in Types : Spare(g, t) = Spare(h, t)
    BY <2>1 DEF Spare, InstancesOf
  <2>5. \A n \in Natives : Held(g, n) = Held(h, n)
    BY <2>1 DEF Held, StorageOf
  <2>6. Moves(h, g, o, -1)
    BY <2>1, <2>2, <2>3, <2>4, <2>5 DEF Moves, Shifts
  <2>7. QED
    BY <1>1, <2>6 DEF DecRef, g
<1>2. CASE ~(h.rc[o] > 1)
  <2>1. h.rc[o] = 1
    BY <1>2 DEF Heap
  <2>2. QED
    BY <1>2, <2>1, DeallocFacts DEF DecRef
<1>3. QED
  BY <1>1, <1>2

\* From h to g only a type's constructor changes: its attributes, count and holder.
CtorIs(h, g, t, a, r, d) ==
  /\ g \in Heap /\ SameObjects(h, g) /\ g.typeRefs = h.typeRefs
  /\ g.attrs = [h.attrs EXCEPT ![t] = a]
  /\ g.ctorRefs = [h.ctorRefs EXCEPT ![t] = r]
  /\ g.holders = [h.holders EXCEPT ![t] = d]

LEMMA MakeFacts ==
  ASSUME NEW h \in Heap, NEW t \in Types, h.holders[t] = 0, h.attrs[t] = {}
  PROVE  CtorIs(h, MakeConstructor(h, t), t, {}, 1, 1)
<1> DEFINE g == MakeConstructor(h, t)
<1>1. PICK r \in [Types -> Int], d \in [Types -> Int] :
        r = [h.ctorRefs EXCEPT ![t] = 1] /\ d = [h.holders EXCEPT ![t] = 1]
  <2>1. /\ [h.ctorRefs EXCEPT ![t] = 1] \in [Types -> Int]
        /\ [h.holders EXCEPT ![t] = 1] \in [Types -> Int]
    BY DEF Heap
  <2>2. QED
    BY <2>1
<1>2. g = [h EXCEPT !.ctorRefs = r, !.holders = d]
  BY <1>1 DEF MakeConstructor
<1> HIDE DEF g
<1>3. /\ g \in Heap /\ SameObjects(h, g) /\ g.typeRefs = h.typeRefs
      /\ g.attrs = h.attrs /\ g.ctorRefs = r /\ g.holders = d
  BY <1>2 DEF Heap, SameObjects
<1>4. h.attrs = [h.attrs EXCEPT ![t] = {}]
  BY DEF Heap
<1>5. QED
  BY <1>1, <1>3, <1>4 DEF CtorIs, g

LEMMA IncFacts ==
  ASSUME NEW h \in Heap, NEW g \in Heap, NEW t \in Types, NEW a, NEW r \in Int, NEW d \in Int,
         CtorIs(h, g, t, a, r, d)
  PROVE  CtorIs(h, IncConstructor(g, t), t, a, r + 1, d)
<1> DEFINE x == IncConstructor(g, t)
<1>1. /\ x \in Heap /\ SameObjects(g, x) /\ x.typeRefs = g.typeRefs
      /\ x.attrs = g.attrs /\ x.ctorRefs = [g.ctorRefs EXCEPT ![t] = @ + 1]
      /\ x.holders = g.holders
  <2>1. PICK c \in [Types -> Int] : c = [g.ctorRefs EXCEPT ![t] = @ + 1]
    <3>1. g.ctorRefs \in [Types -> Int]
      BY DEF Heap
    <3>2. [g.ctorRefs EXCEPT ![t] = @ + 1] \in [Types -> Int]
      BY ONLY <3>1, t \in Types
    <3>3. QED
      BY ONLY <3>2
  <2>2. x = [g EXCEPT !.ctorRefs = c]
    BY <2>1 DEF IncConstructor
  <2> HIDE DEF x
  <2>3. /\ x \in Heap /\ SameObjects(g, x) /\ x.typeRefs = g.typeRefs
        /\ x.attrs = g.attrs /\ x.ctorRefs = c /\ x.holders = g.holders
    BY ONLY g \in Heap, <2>2, c \in [Types -> Int] DEF Heap, SameObjects
  <2>4. QED
    BY <2>1, <2>3
<1> HIDE DEF x
<1>2. x.ctorRefs = [h.ctorRefs EXCEPT ![t] = r + 1]
  BY <1>1 DEF CtorIs, Heap
<1>3. QED
  BY <1>1, <1>2 DEF CtorIs, SameObjects, x

LEMMA DecFacts ==
  ASSUME NEW h \in Heap, NEW g \in Heap, NEW t \in Types, NEW a, NEW r \in Int, NEW d \in Int,
         CtorIs(h, g, t, a, r, d)
  PROVE  CtorIs(h, DecConstructor(g, t, 1), t, a, r - 1, IF r = 1 THEN d - 1 ELSE d)
<1> DEFINE x == DecConstructor(g, t, 1)
<1>1. g.ctorRefs[t] = r /\ g.holders[t] = d
  BY DEF CtorIs, Heap
<1>2. PICK v \in Int : v = IF r = 1 THEN d - 1 ELSE d
  OBVIOUS
<1>3. PICK y \in [Types -> Int], z \in [Types -> Int] :
        y = [g.ctorRefs EXCEPT ![t] = r - 1] /\ z = [g.holders EXCEPT ![t] = v]
  <2>1. /\ [g.ctorRefs EXCEPT ![t] = r - 1] \in [Types -> Int]
        /\ [g.holders EXCEPT ![t] = v] \in [Types -> Int]
    BY DEF Heap
  <2>2. QED
    BY <2>1
<1>4. x = [g EXCEPT !.ctorRefs = y, !.holders = z]
  BY <1>1, <1>2, <1>3 DEF DecConstructor
<1> HIDE DEF x
<1>5. /\ x \in Heap /\ SameObjects(g, x) /\ x.typeRefs = g.typeRefs
      /\ x.attrs = g.attrs /\ x.ctorRefs = y /\ x.holders = z
  BY <1>4 DEF Heap, SameObjects
<1>6. y = [h.ctorRefs EXCEPT ![t] = r - 1] /\ z = [h.holders EXCEPT ![t] = v]
  BY <1>3 DEF CtorIs, Heap
<1>7. CtorIs(h, x, t, a, r - 1, v)
  BY <1>5, <1>6 DEF CtorIs, SameObjects
<1>8. QED
  BY <1>2, <1>7 DEF x

LEMMA DefineFacts ==
  ASSUME NEW h \in Heap, NEW g \in Heap, NEW t \in Types, NEW a, NEW r \in Int \ {0},
         NEW d \in Int, CtorIs(h, g, t, a, r, d), NEW name \in Constructors
  PROVE  CtorIs(h, DefineAttribute(g, t, name), t, a \cup {name}, r, d)
<1> DEFINE x == [g EXCEPT !.attrs[t] = @ \cup {name}]
<1>1. /\ x \in Heap /\ SameObjects(g, x) /\ x.typeRefs = g.typeRefs
      /\ x.attrs = [g.attrs EXCEPT ![t] = @ \cup {name}]
      /\ x.ctorRefs = g.ctorRefs /\ x.holders = g.holders
  BY DEF Heap, SameObjects
<1>2. DefineAttribute(g, t, name) = DecConstructor(IncConstructor(x, t), t, 1)
  BY DEF DefineAttribute
<1> HIDE DEF x
<1>3. x.attrs = [h.attrs EXCEPT ![t] = a \cup {name}]
  BY <1>1 DEF CtorIs, Heap
<1>4. CtorIs(h, x, t, a \cup {name}, r, d)
  BY <1>1, <1>3 DEF CtorIs, SameObjects
<1>5. PICK b : b = a \cup {name}
  OBVIOUS
<1>6. PICK y \in Heap : y = IncConstructor(x, t) /\ CtorIs(h, y, t, b, r + 1, d)
  <2>1. CtorIs(h, x, t, b, r, d)
    BY <1>4, <1>5
  <2>2. CtorIs(h, IncConstructor(x, t), t, b, r + 1, d)
    BY <1>1, <2>1, IncFacts
  <2>3. QED
    BY <2>2 DEF CtorIs
<1>7. PICK q \in Int : q = r + 1 /\ q # 1 /\ q - 1 = r
  OBVIOUS
<1>8. CtorIs(h, DecConstructor(y, t, 1), t, b, q - 1, IF q = 1 THEN d - 1 ELSE d)
  BY <1>6, <1>7, DecFacts
<1>9. CtorIs(h, DecConstructor(y, t, 1), t, b, r, d)
  BY <1>7, <1>8
<1>10. QED
  BY <1>2, <1>5, <1>6, <1>9

\* A constructor with as many references as attributes leaves the heap in order.
LEMMA CtorSettles ==
  ASSUME NEW h \in Heap, HeapInv(h), NEW g \in Heap, NEW t \in Types, NEW a, NEW r \in Nat,
         CtorIs(h, g, t, a, r, One(r > 0)), r = Cardinality(a)
  PROVE  HeapInv(g) /\ SameObjects(h, g) /\ g.typeRefs = h.typeRefs
<1>1. g.attrs[t] = a /\ g.ctorRefs[t] = r /\ g.holders[t] = One(r > 0)
  BY DEF CtorIs, Heap
<1>2. \A u \in Types : u # t => /\ g.attrs[u] = h.attrs[u] /\ g.ctorRefs[u] = h.ctorRefs[u]
                                /\ g.holders[u] = h.holders[u]
  BY DEF CtorIs, Heap
<1>3. SameObjects(h, g) /\ g.typeRefs = h.typeRefs
  BY DEF CtorIs
<1>4. \A u \in Types : /\ g.ctorRefs[u] = Cardinality(g.attrs[u])
                       /\ g.holders[u] = One(g.ctorRefs[u] > 0)
  <2> SUFFICES ASSUME NEW u \in Types
               PROVE  /\ g.ctorRefs[u] = Cardinality(g.attrs[u])
                      /\ g.holders[u] = One(g.ctorRefs[u] > 0)
    OBVIOUS
  <2>1. CASE u = t
    BY <1>1, <2>1
  <2>2. CASE u # t
    BY <1>2, <2>2 DEF HeapInv
  <2>3. QED
    BY <2>1, <2>2
<1>5. \A o \in Objects : g.type[o] = Null => g.rc[o] = 0 /\ g.native[o] = Null
  BY <1>3 DEF SameObjects, HeapInv
<1>6. QED
  BY <1>3, <1>4, <1>5 DEF HeapInv

\* define_constructor_impl: both define() succeed, the first fails, or the second.
LEMMA ConstructorFacts ==
  ASSUME NEW h \in Heap, HeapInv(h), NEW t \in Types, h.attrs[t] = {}
  PROVE  LET made == IncConstructor(MakeConstructor(h, t), t)
             both == DefineAttribute(DefineAttribute(made, t, "__init__"),
                                     t, "__dynabridge_constructor__")
             first == DefineAttributeFails(DefineAttributeFails(made, t), t)
             second == DefineAttributeFails(DefineAttribute(made, t, "__init__"), t)
         IN \A g \in {both, first, second} :
              g \in Heap /\ HeapInv(g) /\ SameObjects(h, g) /\ g.typeRefs = h.typeRefs
<1>1. h.ctorRefs[t] = 0 /\ h.holders[t] = 0
  BY FS_EmptySet DEF HeapInv, One
<1>2. PICK m \in Heap : m = MakeConstructor(h, t) /\ CtorIs(h, m, t, {}, 1, 1)
  BY <1>1, MakeFacts DEF CtorIs
<1>3. PICK made \in Heap : made = IncConstructor(m, t) /\ CtorIs(h, made, t, {}, 2, 1)
  <2>1. CtorIs(h, IncConstructor(m, t), t, {}, 1 + 1, 1)
    BY <1>2, IncFacts
  <2>2. QED
    BY <2>1 DEF CtorIs
<1> DEFINE Good(g) == g \in Heap /\ HeapInv(g) /\ SameObjects(h, g) /\ g.typeRefs = h.typeRefs
<1>4. PICK one \in Heap : one = DefineAttribute(made, t, "__init__")
                          /\ CtorIs(h, one, t, {"__init__"}, 2, 1)
  <2>1. CtorIs(h, DefineAttribute(made, t, "__init__"), t, {} \cup {"__init__"}, 2, 1)
    <3>1. PICK a \in SUBSET Constructors, name \in Constructors : a = {} /\ name = "__init__"
      BY DEF Constructors
    <3>2. CtorIs(h, made, t, a, 2, 1)
      BY <1>3, <3>1
    <3>3. CtorIs(h, DefineAttribute(made, t, name), t, a \cup {name}, 2, 1)
      BY <3>2, DefineFacts
    <3>4. QED
      BY <3>1, <3>3
  <2>2. {} \cup {"__init__"} = {"__init__"}
    OBVIOUS
  <2>3. CtorIs(h, DefineAttribute(made, t, "__init__"), t, {"__init__"}, 2, 1)
    BY <2>1, <2>2
  <2>4. QED
    BY <2>3 DEF CtorIs
<1>5. Good(DefineAttribute(one, t, "__dynabridge_constructor__"))
  <2>1. PICK a : a = {"__init__"} \cup {"__dynabridge_constructor__"}
    OBVIOUS
  <2>2. Cardinality(a) = 2
    <3>1. PICK b, name : b = {"__init__"} /\ name = "__dynabridge_constructor__"
      OBVIOUS
    <3>2. IsFiniteSet(b) /\ Cardinality(b) = 1 /\ name \notin b
      BY <3>1, FS_Singleton
    <3>3. Cardinality(b \cup {name}) = 1 + 1
      BY <3>2, FS_AddElement
    <3>4. QED
      BY <2>1, <3>1, <3>3
  <2>3. CtorIs(h, DefineAttribute(one, t, "__dynabridge_constructor__"), t, a, 2, 1)
    <3>1. PICK b \in SUBSET Constructors, name \in Constructors :
            b = {"__init__"} /\ name = "__dynabridge_constructor__"
      BY DEF Constructors
    <3>2. CtorIs(h, one, t, b, 2, 1)
      BY <1>4, <3>1
    <3>3. CtorIs(h, DefineAttribute(one, t, name), t, b \cup {name}, 2, 1)
      BY <3>2, DefineFacts
    <3>4. QED
      BY <2>1, <3>1, <3>3
  <2>4. PICK g \in Heap : g = DefineAttribute(one, t, "__dynabridge_constructor__")
                          /\ CtorIs(h, g, t, a, 2, One(2 > 0))
    BY <2>3 DEF CtorIs, One
  <2>5. QED
    BY <2>2, <2>4, CtorSettles
<1>6. PICK less \in Heap : less = DefineAttributeFails(made, t) /\ CtorIs(h, less, t, {}, 1, 1)
  <2>1. CtorIs(h, DecConstructor(made, t, 1), t, {}, 2 - 1, IF 2 = 1 THEN 1 - 1 ELSE 1)
    BY <1>3, DecFacts
  <2>2. CtorIs(h, DecConstructor(made, t, 1), t, {}, 1, 1)
    BY <2>1
  <2>3. QED
    BY <2>2 DEF CtorIs, DefineAttributeFails
<1>7. Good(DefineAttributeFails(less, t))
  <2>1. CtorIs(h, DecConstructor(less, t, 1), t, {}, 1 - 1, IF 1 = 1 THEN 1 - 1 ELSE 1)
    BY <1>6, DecFacts
  <2>2. PICK g \in Heap : g = DecConstructor(less, t, 1) /\ CtorIs(h, g, t, {}, 0, One(0 > 0))
    BY <2>1 DEF CtorIs, One
  <2>3. QED
    BY <2>2, CtorSettles, FS_EmptySet DEF DefineAttributeFails
<1>8. Good(DefineAttributeFails(one, t))
  <2>1. PICK b : b = {"__init__"}
    OBVIOUS
  <2>2. CtorIs(h, DecConstructor(one, t, 1), t, b, 2 - 1, IF 2 = 1 THEN 1 - 1 ELSE 1)
    BY <1>4, <2>1, DecFacts
  <2>3. PICK g \in Heap : g = DecConstructor(one, t, 1) /\ CtorIs(h, g, t, b, 1, One(1 > 0))
    BY <2>2 DEF CtorIs, One
  <2>4. Cardinality(b) = 1
    BY <2>1, FS_Singleton
  <2>5. QED
    BY <2>3, <2>4, CtorSettles DEF DefineAttributeFails
<1>9. QED
  BY <1>2, <1>3, <1>4, <1>5, <1>6, <1>7, <1>8

-----------------------------------------------------------------------------
(* The frames: how many construct an object, and how many use a mode.       *)

SelfAt(s, o) == {i \in DOMAIN s : s[i].self = o}
ModeAt(s, m) == {i \in DOMAIN s : s[i].mode = m}

\* From s to r a frame for o with mode m comes (d = 1) or goes (d = -1).
FramesMove(s, r, o, m, d) ==
  /\ Cardinality(SelfAt(s, o)) \in Nat
  /\ Cardinality(SelfAt(r, o)) = Cardinality(SelfAt(s, o)) + d
  /\ \A p \in Objects : p # o => SelfAt(r, p) = SelfAt(s, p)
  /\ Cardinality(ModeAt(s, m)) \in Nat
  /\ Cardinality(ModeAt(r, m)) = Cardinality(ModeAt(s, m)) + d
  /\ \A k \in Modes : k # m => ModeAt(r, k) = ModeAt(s, k)

\* Positions in a sequence are counted.
LEMMA PositionFacts ==
  ASSUME NEW n \in Nat, NEW P \in SUBSET (1..n)
  PROVE  /\ IsFiniteSet(P) /\ Cardinality(P) \in Nat
         /\ Cardinality(P \cup {n + 1}) = Cardinality(P) + 1
         /\ n \in P => Cardinality(P \ {n}) = Cardinality(P) - 1
<1>1. IsFiniteSet(1..n)
  BY FS_Interval
<1>2. IsFiniteSet(P)
  BY <1>1, FS_Subset
<1>3. n + 1 \notin P
  OBVIOUS
<1>4. QED
  BY <1>2, <1>3, FS_CardinalityType, FS_AddElement, FS_RemoveElement

LEMMA FrameCounts ==
  ASSUME NEW s \in Seq(Frame)
  PROVE  /\ \A o \in Objects : /\ IsFiniteSet(SelfAt(s, o)) /\ Cardinality(SelfAt(s, o)) \in Nat
                               /\ SelfAt(s, o) \in SUBSET (1..Len(s))
         /\ \A m \in Modes : /\ Cardinality(ModeAt(s, m)) \in Nat
                             /\ ModeAt(s, m) \in SUBSET (1..Len(s))
<1>1. Len(s) \in Nat /\ DOMAIN s = 1..Len(s)
  BY LenProperties
<1>2. /\ \A o \in Objects : SelfAt(s, o) \in SUBSET (1..Len(s))
      /\ \A m \in Modes : ModeAt(s, m) \in SUBSET (1..Len(s))
  BY <1>1 DEF SelfAt, ModeAt
<1>3. QED
  BY <1>1, <1>2, PositionFacts

\* A frame is pushed.
LEMMA PushFacts ==
  ASSUME NEW s \in Seq(Frame), NEW f \in Frame
  PROVE  FramesMove(s, Append(s, f), f.self, f.mode, 1) /\ Append(s, f) \in Seq(Frame)
<1>1. PICK r \in Seq(Frame) : /\ r = Append(s, f) /\ Len(r) = Len(s) + 1 /\ r[Len(s) + 1] = f
                              /\ \A i \in 1..Len(s) : r[i] = s[i]
  <2>1. /\ Append(s, f) \in Seq(Frame) /\ Len(Append(s, f)) = Len(s) + 1
        /\ \A i \in 1..Len(s) : Append(s, f)[i] = s[i]
        /\ Append(s, f)[Len(s) + 1] = f
    BY AppendProperties
  <2>2. QED
    BY <2>1
<1>2. PICK n \in Nat : n = Len(s)
  BY LenProperties
<1>3. /\ DOMAIN s = 1..n /\ DOMAIN r = 1..n + 1 /\ r[n + 1] = f
      /\ \A i \in 1..n : r[i] = s[i]
  BY <1>1, <1>2, LenProperties
<1>4. /\ \A i \in 1..n + 1 : i \in 1..n \/ i = n + 1
      /\ \A i \in 1..n : i \in 1..n + 1 /\ i # n + 1
      /\ n + 1 \in 1..n + 1
  OBVIOUS
<1>5. f.self \in Objects /\ f.mode \in Modes
  BY DEF Frame
<1>6. /\ SelfAt(r, f.self) = SelfAt(s, f.self) \cup {n + 1}
      /\ \A p \in Objects : p # f.self => SelfAt(r, p) = SelfAt(s, p)
  BY <1>3, <1>4 DEF SelfAt
<1>7. /\ ModeAt(r, f.mode) = ModeAt(s, f.mode) \cup {n + 1}
      /\ \A k \in Modes : k # f.mode => ModeAt(r, k) = ModeAt(s, k)
  BY <1>3, <1>4 DEF ModeAt
<1>8. SelfAt(s, f.self) \in SUBSET (1..n) /\ ModeAt(s, f.mode) \in SUBSET (1..n)
  BY <1>2, <1>5, FrameCounts
<1>9. /\ Cardinality(SelfAt(r, f.self)) = Cardinality(SelfAt(s, f.self)) + 1
      /\ Cardinality(ModeAt(r, f.mode)) = Cardinality(ModeAt(s, f.mode)) + 1
      /\ Cardinality(SelfAt(s, f.self)) \in Nat /\ Cardinality(ModeAt(s, f.mode)) \in Nat
  <2>1. PICK A \in SUBSET (1..n), B \in SUBSET (1..n) :
          A = SelfAt(s, f.self) /\ B = ModeAt(s, f.mode)
    BY <1>8
  <2>2. /\ Cardinality(A \cup {n + 1}) = Cardinality(A) + 1 /\ Cardinality(A) \in Nat
        /\ Cardinality(B \cup {n + 1}) = Cardinality(B) + 1 /\ Cardinality(B) \in Nat
    BY PositionFacts
  <2>3. QED
    BY <1>6, <1>7, <2>1, <2>2
<1>10. QED
  BY <1>1, <1>6, <1>7, <1>9 DEF FramesMove

\* The running frame is popped.
LEMMA PopFacts ==
  ASSUME NEW s \in Seq(Frame), s # <<>>
  PROVE  /\ FramesMove(s, SubSeq(s, 1, Len(s) - 1), s[Len(s)].self, s[Len(s)].mode, -1)
         /\ SubSeq(s, 1, Len(s) - 1) \in Seq(Frame)
         /\ Len(SubSeq(s, 1, Len(s) - 1)) = Len(s) - 1 /\ Len(s) \in Nat \ {0}
         /\ \A i \in 1..Len(s) - 1 : SubSeq(s, 1, Len(s) - 1)[i] = s[i]
         /\ s[Len(s)] \in Frame
<1>1. Len(s) \in Nat \ {0} /\ DOMAIN s = 1..Len(s)
  BY EmptySeq, LenProperties
<1>2. PICK n \in Nat : n = Len(s) - 1 /\ Len(s) = n + 1
  <2>1. \A k \in Nat \ {0} : k - 1 \in Nat /\ k = (k - 1) + 1
    OBVIOUS
  <2>2. QED
    BY <1>1, <2>1
<1>3. \A i \in 1..n : s[i] \in Frame
  BY <1>1, <1>2, LenProperties
<1>4. PICK r \in Seq(Frame) : /\ r = SubSeq(s, 1, n) /\ Len(r) = n /\ DOMAIN r = 1..n
                              /\ \A i \in 1..n : r[i] = s[i]
  <2>1. /\ SubSeq(s, 1, n) \in Seq(Frame)
        /\ Len(SubSeq(s, 1, n)) = (IF 1 <= n THEN n - 1 + 1 ELSE 0)
        /\ \A i \in 1..n - 1 + 1 : SubSeq(s, 1, n)[i] = s[1 + i - 1]
    BY <1>3, SubSeqProperties
  <2>2. Len(SubSeq(s, 1, n)) = n /\ \A i \in 1..n : SubSeq(s, 1, n)[i] = s[i]
    BY <2>1
  <2>3. QED
    BY <2>1, <2>2, LenProperties
<1>5. PICK f \in Frame : f = s[n + 1]
  BY <1>1, <1>2, LenProperties
<1>6. f.self \in Objects /\ f.mode \in Modes
  BY DEF Frame
<1>7. /\ \A i \in 1..n + 1 : i \in 1..n \/ i = n + 1
      /\ \A i \in 1..n : i \in 1..n + 1 /\ i # n + 1
      /\ n + 1 \in 1..n + 1
  OBVIOUS
<1>8. /\ DOMAIN s = 1..n + 1 /\ DOMAIN r = 1..n /\ s[n + 1] = f
       /\ \A i \in 1..n : r[i] = s[i]
  BY <1>1, <1>2, <1>4, <1>5
<1>9. /\ SelfAt(r, f.self) = SelfAt(s, f.self) \ {n + 1} /\ n + 1 \in SelfAt(s, f.self)
      /\ \A p \in Objects : p # f.self => SelfAt(r, p) = SelfAt(s, p)
  BY ONLY <1>7, <1>8 DEF SelfAt
<1>10. /\ ModeAt(r, f.mode) = ModeAt(s, f.mode) \ {n + 1} /\ n + 1 \in ModeAt(s, f.mode)
      /\ \A k \in Modes : k # f.mode => ModeAt(r, k) = ModeAt(s, k)
  BY ONLY <1>7, <1>8 DEF ModeAt
<1>11. SelfAt(s, f.self) \in SUBSET (1..n + 1) /\ ModeAt(s, f.mode) \in SUBSET (1..n + 1)
  BY <1>2, <1>6, FrameCounts
<1>12. /\ Cardinality(SelfAt(r, f.self)) = Cardinality(SelfAt(s, f.self)) + (-1)
       /\ Cardinality(ModeAt(r, f.mode)) = Cardinality(ModeAt(s, f.mode)) + (-1)
       /\ Cardinality(SelfAt(s, f.self)) \in Nat /\ Cardinality(ModeAt(s, f.mode)) \in Nat
  <2>1. PICK m \in Nat : m = n + 1
    OBVIOUS
  <2>2. PICK A \in SUBSET (1..m), B \in SUBSET (1..m) :
          A = SelfAt(s, f.self) /\ B = ModeAt(s, f.mode)
    BY <1>11, <2>1
  <2>3. /\ m \in A => Cardinality(A \ {m}) = Cardinality(A) - 1
        /\ m \in B => Cardinality(B \ {m}) = Cardinality(B) - 1
        /\ Cardinality(A) \in Nat /\ Cardinality(B) \in Nat
    BY PositionFacts
  <2>4. QED
    BY <1>9, <1>10, <2>1, <2>2, <2>3
<1>13. FramesMove(s, r, f.self, f.mode, -1)
  BY <1>9, <1>10, <1>12 DEF FramesMove
<1>14. QED
  BY <1>1, <1>2, <1>4, <1>5, <1>13

\* The running frame is replaced by another state of itself.
LEMMA GoesFacts ==
  ASSUME NEW s \in Seq(Frame), s # <<>>, NEW f \in Frame,
         f.self = s[Len(s)].self, f.mode = s[Len(s)].mode
  PROVE  /\ [s EXCEPT ![Len(s)] = f] \in Seq(Frame)
         /\ \A o \in Objects : SelfAt([s EXCEPT ![Len(s)] = f], o) = SelfAt(s, o)
         /\ \A m \in Modes : ModeAt([s EXCEPT ![Len(s)] = f], m) = ModeAt(s, m)
         /\ Len([s EXCEPT ![Len(s)] = f]) = Len(s) /\ Len(s) \in Nat \ {0}
         /\ \A i \in 1..Len(s) : [s EXCEPT ![Len(s)] = f][i] = IF i = Len(s) THEN f ELSE s[i]
         /\ s[Len(s)] \in Frame
<1>1. Len(s) \in Nat \ {0} /\ DOMAIN s = 1..Len(s) /\ Len(s) \in 1..Len(s)
  BY EmptySeq, LenProperties
<1>2. PICK r \in Seq(Frame) :
        /\ r = [s EXCEPT ![Len(s)] = f] /\ Len(r) = Len(s) /\ DOMAIN r = 1..Len(s)
        /\ \A i \in 1..Len(s) : r[i] = IF i = Len(s) THEN f ELSE s[i]
  <2>1. /\ [s EXCEPT ![Len(s)] = f] \in Seq(Frame)
        /\ Len([s EXCEPT ![Len(s)] = f]) = Len(s)
        /\ \A i \in 1..Len(s) : [s EXCEPT ![Len(s)] = f][i] = IF i = Len(s) THEN f ELSE s[i]
    BY <1>1, ExceptSeq
  <2>2. QED
    BY <2>1, LenProperties
<1>3. \A i \in 1..Len(s) : r[i].self = s[i].self /\ r[i].mode = s[i].mode
  BY <1>2
<1>4. /\ \A o \in Objects : SelfAt(r, o) = SelfAt(s, o)
      /\ \A m \in Modes : ModeAt(r, m) = ModeAt(s, m)
  BY <1>1, <1>2, <1>3 DEF SelfAt, ModeAt
<1>5. s[Len(s)] \in Frame
  BY <1>1, LenProperties
<1>6. QED
  BY <1>1, <1>2, <1>4, <1>5

-----------------------------------------------------------------------------
(* The counts agree with the references.                                    *)

References(o) == py[o] + cpp[o] + Cardinality(SelfAt(frames, o))
Roots(t) == One(attr = t) + One(target = t) + One(local = t)

LEMMA RootsNat == \A t : Roots(t) \in Nat
  BY DEF Roots, One

\* The invariant, in the terms of the lemmas on the heap.
LEMMA CountFacts ==
  ASSUME ConstantsOK, CountInv
  PROVE  /\ heap \in Heap /\ HeapInv(heap) /\ frames \in Seq(Frame)
         /\ py \in [Objects -> Nat] /\ cpp \in [Objects -> Nat]
         /\ {attr, target, local} \subseteq Types \cup {Null}
         /\ \A o \in Objects : /\ heap.rc[o] = References(o)
                               /\ Cardinality(SelfAt(frames, o)) \in Nat
                               /\ References(o) \in Nat
         /\ \A t \in Types : Spare(heap, t) = Roots(t) /\ Spare(heap, t) >= 0
         /\ heap.loans = Cardinality(ModeAt(frames, "offset"))
         /\ heap.buffers = Cardinality(ModeAt(frames, "malloc"))
         /\ heap.loans \in Nat /\ heap.buffers \in Nat
<1>1. /\ heap \in Heap /\ HeapInv(heap) /\ frames \in Seq(Frame)
      /\ py \in [Objects -> Nat] /\ cpp \in [Objects -> Nat]
      /\ {attr, target, local} \subseteq Types \cup {Null}
  BY DEF CountInv, TypeOK
<1>2. \A o \in Objects : heap.rc[o] = References(o)
  BY DEF CountInv, RefCountsExact, References, SelfAt
<1>3. /\ \A o \in Objects : Cardinality(SelfAt(frames, o)) \in Nat
      /\ \A m \in Modes : Cardinality(ModeAt(frames, m)) \in Nat
  BY <1>1, FrameCounts
<1>4. \A o \in Objects : References(o) \in Nat
  BY <1>1, <1>3 DEF References
<1>5. ASSUME NEW t \in Types PROVE Spare(heap, t) = Roots(t) /\ Spare(heap, t) >= 0
  <2>1. heap.typeRefs[t] = Roots(t) + Cardinality(InstancesOf(heap, t))
    BY DEF CountInv, RefCountsExact, Roots, InstancesOf
  <2>2. Cardinality(InstancesOf(heap, t)) \in Nat
    <3>1. InstancesOf(heap, t) \in SUBSET Objects
      BY DEF InstancesOf
    <3>2. QED
      BY <3>1, FS_Subset, FS_CardinalityType DEF ConstantsOK
  <2>3. QED
    BY <2>1, <2>2, RootsNat DEF Spare
<1>6. /\ heap.loans = Cardinality(ModeAt(frames, "offset"))
      /\ heap.buffers = Cardinality(ModeAt(frames, "malloc"))
  BY DEF CountInv, ArgumentsGivenBack, ModeAt
<1>7. heap.loans \in Nat /\ heap.buffers \in Nat
  BY <1>3, <1>6 DEF Modes
<1>8. QED
  BY <1>1, <1>2, <1>3, <1>4, <1>5, <1>6, <1>7

\* The invariant again, from the terms of the lemmas.
Agrees ==
  /\ ConstantsOK /\ TypeOK /\ HeapInv(heap)
  /\ \A o \in Objects : heap.rc[o] = References(o)
  /\ \A t \in Types : Spare(heap, t) = Roots(t)
  /\ heap.loans = Cardinality(ModeAt(frames, "offset"))
  /\ heap.buffers = Cardinality(ModeAt(frames, "malloc"))

LEMMA CountAgrees == Agrees => CountInv
<1> SUFFICES ASSUME ConstantsOK, TypeOK, HeapInv(heap),
                    \A o \in Objects : heap.rc[o] = References(o),
                    \A t \in Types : Spare(heap, t) = Roots(t),
                    heap.loans = Cardinality(ModeAt(frames, "offset")),
                    heap.buffers = Cardinality(ModeAt(frames, "malloc"))
             PROVE  CountInv
  BY DEF Agrees
<1>1. ArgumentsGivenBack
  BY DEF ArgumentsGivenBack, ModeAt
<1>2. \A o \in Objects :
        heap.rc[o] = py[o] + cpp[o] + Cardinality({i \in DOMAIN frames : frames[i].self = o})
  BY DEF References, SelfAt
<1>3. ASSUME NEW t \in Types
      PROVE  heap.typeRefs[t] = One(attr = t) + One(target = t) + One(local = t)
                                  + Cardinality({o \in Objects : heap.type[o] = t})
  <2>1. Cardinality(InstancesOf(heap, t)) \in Nat /\ heap.typeRefs[t] \in Int
    <3>1. InstancesOf(heap, t) \in SUBSET Objects
      BY DEF InstancesOf
    <3>2. Cardinality(InstancesOf(heap, t)) \in Nat
      BY <3>1, FS_Subset, FS_CardinalityType DEF ConstantsOK
    <3>3. QED
      BY <3>2 DEF TypeOK, Heap
  <2>2. heap.typeRefs[t] - Cardinality(InstancesOf(heap, t)) = Roots(t)
    BY DEF Spare
  <2>3. heap.typeRefs[t] = Roots(t) + Cardinality(InstancesOf(heap, t))
    BY <2>1, <2>2, RootsNat
  <2>4. QED
    BY <2>3 DEF Roots, InstancesOf
<1>4. QED
  BY <1>1, <1>2, <1>3 DEF CountInv, RefCountsExact, HeapInv

\* A step that moves the references to one object, h being the heap with at most a native
\* more.
LEMMA ObjectKeeps ==
  ASSUME ConstantsOK, CountInv, TypeOK', UNCHANGED roots,
         NEW h, NEW o \in Objects, NEW d \in Int, Shifts(h, heap', o, d),
         h.rc = heap.rc, \A t \in Types : Spare(h, t) = Spare(heap, t),
         References(o)' = References(o) + d,
         \A p \in Objects : p # o => References(p)' = References(p),
         heap'.loans = Cardinality(ModeAt(frames', "offset")),
         heap'.buffers = Cardinality(ModeAt(frames', "malloc"))
  PROVE  CountInv'
<1>1. /\ \A p \in Objects : heap.rc[p] = References(p)
      /\ \A t \in Types : Spare(heap, t) = Roots(t)
  BY CountFacts
<1>2. HeapInv(heap') /\ \A p \in Objects : heap'.rc[p] = References(p)'
  BY <1>1 DEF Shifts
<1>3. \A t \in Types : Roots(t)' = Roots(t)
  BY DEF Roots, roots
<1>4. \A t \in Types : Spare(heap', t) = Roots(t)'
  BY <1>1, <1>3 DEF Shifts
<1>5. Agrees'
  BY <1>2, <1>4 DEF Agrees, ConstantsOK
<1>6. QED
  BY <1>5, CountAgrees, PTL

\* Python and C++ keep or drop references between constructions.
LEMMA BetweenKeeps ==
  ASSUME ConstantsOK, CountInv, NEW o \in Objects,
         Refer(o) \/ Release(o) \/ DefineInstance(o) \/ PythonDrops(o)
  PROVE  CountInv' /\ \E d \in Int : Shifts(heap, heap', o, d)
<1> USE CountFacts
<1>1. /\ UNCHANGED <<roots, frames, constructed>>
      /\ \A p \in Objects : p # o => py'[p] = py[p] /\ cpp'[p] = cpp[p]
      /\ py' \in [Objects -> Nat] /\ cpp' \in [Objects -> Nat]
  <2>1. py \in [Objects -> Nat] /\ cpp \in [Objects -> Nat]
    OBVIOUS
  <2> DEFINE Typed == /\ \A p \in Objects : p # o => py'[p] = py[p] /\ cpp'[p] = cpp[p]
                      /\ py' \in [Objects -> Nat] /\ cpp' \in [Objects -> Nat]
  <2>2. ASSUME Refer(o) PROVE Typed
    BY ONLY <2>1, <2>2 DEF Refer
  <2>3. ASSUME Release(o) PROVE Typed
    BY ONLY <2>1, <2>3 DEF Release
  <2>4. ASSUME DefineInstance(o) PROVE Typed
    BY ONLY <2>1, <2>4 DEF DefineInstance
  <2>5. ASSUME PythonDrops(o) PROVE Typed
    BY ONLY <2>1, <2>5 DEF PythonDrops
  <2>6. UNCHANGED <<roots, frames, constructed>>
    BY DEF Refer, Release, DefineInstance, PythonDrops
  <2>7. QED
    BY ONLY <2>2, <2>3, <2>4, <2>5, <2>6,
            Refer(o) \/ Release(o) \/ DefineInstance(o) \/ PythonDrops(o)
<1>2. PICK d \in Int : Moves(heap, heap', o, d) /\ py'[o] + cpp'[o] = py[o] + cpp[o] + d
  <2>1. /\ py[o] \in Nat /\ cpp[o] \in Nat /\ heap.rc[o] \in Nat
        /\ py[o] > 0 \/ cpp[o] > 0 => heap.rc[o] >= 1 /\ heap.rc[o] # 0
    BY DEF References
  <2>2. CASE Refer(o)
    <3>1. heap.rc[o] # 0 /\ heap' = IncRef(heap, o) /\ cpp'[o] = cpp[o] + 1 /\ py'[o] = py[o]
      BY <2>1, <2>2 DEF Refer
    <3>2. Moves(heap, heap', o, 1)
      BY <3>1, IncRefFacts
    <3>3. QED
      BY <2>1, <3>1, <3>2
  <2>3. CASE Release(o) \/ PythonDrops(o)
    <3>1. py \in [Objects -> Nat] /\ cpp \in [Objects -> Nat]
      OBVIOUS
    <3>2. ASSUME Release(o)
          PROVE  cpp[o] > 0 /\ cpp'[o] = cpp[o] - 1 /\ py'[o] = py[o]
      BY ONLY <3>1, <3>2, o \in Objects DEF Release
    <3>3. ASSUME PythonDrops(o)
          PROVE  py[o] > 0 /\ py'[o] = py[o] - 1 /\ cpp'[o] = cpp[o]
      BY ONLY <3>1, <3>3, o \in Objects DEF PythonDrops
    <3>4. /\ heap.rc[o] >= 1 /\ heap' = DecRef(heap, o)
          /\ py'[o] + cpp'[o] = py[o] + cpp[o] + (-1)
      <4>1. heap' = DecRef(heap, o)
        BY <2>3 DEF Release, PythonDrops
      <4>2. QED
        BY ONLY <2>1, <2>3, <3>2, <3>3, <4>1
    <3>5. Moves(heap, heap', o, -1)
      BY <3>4, DecRefFacts
    <3>6. QED
      BY <3>4, <3>5
  <2>4. CASE DefineInstance(o)
    <3>1. heap' = heap /\ py'[o] + cpp'[o] = py[o] + cpp[o] + 0
      BY <2>1, <2>4 DEF DefineInstance
    <3>2. Moves(heap, heap', o, 0)
      BY <2>1, <3>1 DEF Moves, Shifts
    <3>3. QED
      BY <3>1, <3>2
  <2>5. QED
    BY <2>2, <2>3, <2>4
<1>3. Shifts(heap, heap', o, d) /\ heap'.loans = heap.loans /\ heap'.buffers = heap.buffers
  BY <1>2 DEF Moves
<1>4. References(o)' = References(o) + d /\ \A p \in Objects : p # o => References(p)' = References(p)
  <2>1. \A p \in Objects : Cardinality(SelfAt(frames', p)) = Cardinality(SelfAt(frames, p))
    BY <1>1
  <2>2. QED
    BY <1>1, <1>2, <2>1 DEF References
<1>5. TypeOK'
  BY <1>1, <1>3 DEF Shifts, TypeOK, CountInv, roots
<1>6. CountInv'
  BY <1>1, <1>3, <1>4, <1>5, ObjectKeeps
<1>7. QED
  BY <1>3, <1>6

\* T.__new__, and a vectorcall that gets no array.
LEMMA NewKeeps ==
  ASSUME ConstantsOK, CountInv, NEW o \in Objects, NEW t \in Types,
         New(o, t) \/ VectorCallNoMemory(o, t)
  PROVE  CountInv' /\ \E d \in Int : Shifts(heap, heap', o, d)
<1> USE CountFacts
<1>1. /\ UNCHANGED <<roots, cpp, frames, constructed>> /\ heap.type[o] = Null
  BY DEF New, VectorCallNoMemory, Fresh
<1>2. References(o) = 0 /\ py[o] = 0 /\ py[o] \in Nat
  <2>1. heap.rc[o] = 0
    BY <1>1 DEF HeapInv
  <2>2. QED
    BY <2>1 DEF References
<1>3. PICK a \in Heap : a = Alloc(heap, o, t) /\ Moves(heap, a, o, 1)
  BY <1>1, AllocFacts DEF Moves, Shifts
<1>4. PICK d \in Int : /\ Moves(heap, heap', o, d) /\ py'[o] = py[o] + d /\ py'[o] \in Nat
                       /\ py' = [py EXCEPT ![o] = py'[o]]
  <2>1. CASE New(o, t)
    <3>1. heap' = a /\ py' = [py EXCEPT ![o] = 1] /\ py'[o] = py[o] + 1
      BY <1>2, <1>3, <2>1 DEF New
    <3>2. QED
      BY <1>3, <3>1
  <2>2. CASE VectorCallNoMemory(o, t)
    <3>1. heap' = DecRef(a, o) /\ py' = py
      BY <1>3, <2>2 DEF VectorCallNoMemory
    <3>2. /\ HeapInv(a) /\ a.rc[o] = 1 /\ a.rc[o] >= 1
          /\ \A u \in Types : Spare(a, u) = Spare(heap, u) /\ Spare(a, u) >= 0
      BY <1>2, <1>3 DEF Moves, Shifts
    <3>3. Moves(a, heap', o, -1)
      BY <3>1, <3>2, DecRefFacts
    <3>4. heap.native[o] = Null
      BY <1>1 DEF HeapInv
    <3>5. Moves(heap, heap', o, 0)
      <4>1. heap'.rc[o] = heap.rc[o] + 0
        BY <1>2, <3>2, <3>3 DEF Moves, Shifts
      <4>2. heap'.native[o] \in {heap.native[o], Null}
        BY <1>3, <3>3 DEF Moves, Shifts
      <4>3. QED
        BY <1>3, <3>3, <4>1, <4>2 DEF Moves, Shifts
    <3>6. QED
      BY <1>2, <3>1, <3>5
  <2>3. QED
    BY <2>1, <2>2
<1>5. Shifts(heap, heap', o, d) /\ heap'.loans = heap.loans /\ heap'.buffers = heap.buffers
  BY <1>4 DEF Moves
<1>6. /\ py' \in [Objects -> Nat] /\ \A p \in Objects : p # o => py'[p] = py[p]
  BY <1>4
<1>7. References(o)' = References(o) + d /\ \A p \in Objects : p # o => References(p)' = References(p)
  <2>1. \A p \in Objects : Cardinality(SelfAt(frames', p)) = Cardinality(SelfAt(frames, p))
    BY <1>1
  <2>2. cpp' = cpp /\ cpp[o] \in Nat /\ Cardinality(SelfAt(frames, o)) \in Nat
    BY <1>1
  <2>3. py'[o] + cpp[o] + Cardinality(SelfAt(frames, o))
          = py[o] + cpp[o] + Cardinality(SelfAt(frames, o)) + d
    BY ONLY <1>2, <1>4, <2>2
  <2>4. References(o)' = References(o) + d
    BY ONLY <2>1, <2>2, <2>3, o \in Objects DEF References
  <2>5. QED
    BY ONLY <1>6, <2>1, <2>2, <2>4 DEF References
<1>8. TypeOK'
  BY <1>1, <1>5, <1>6 DEF Shifts, TypeOK, CountInv, roots
<1>9. CountInv'
  BY <1>1, <1>5, <1>7, <1>8, ObjectKeeps
<1>10. QED
  BY <1>5, <1>9

WithLoans(h, l, b) == [h EXCEPT !.loans = l, !.buffers = b]

\* Argument slots and arrays are counted apart from everything else.
LEMMA LoansFacts ==
  ASSUME NEW h, NEW g \in Heap, HeapInv(g), NEW o \in Objects, NEW d \in Int,
         Shifts(h, g, o, d), NEW l \in Int, NEW b \in Int,
         NEW x, x = WithLoans(g, l, b)
  PROVE  Shifts(h, x, o, d) /\ x.loans = l /\ x.buffers = b
<1>1. /\ x \in Heap /\ x.loans = l /\ x.buffers = b /\ x.typeRefs = g.typeRefs
      /\ x.attrs = g.attrs /\ x.ctorRefs = g.ctorRefs /\ x.holders = g.holders
      /\ x.rc = g.rc /\ x.type = g.type /\ x.native = g.native /\ x.destroyed = g.destroyed
  BY DEF Heap, WithLoans
<1>2. HeapInv(x)
  BY <1>1 DEF HeapInv
<1>3. /\ \A t \in Types : Spare(x, t) = Spare(g, t)
      /\ \A n \in Natives : Held(x, n) = Held(g, n)
  <2>1. /\ \A t \in Types : InstancesOf(x, t) = InstancesOf(g, t)
        /\ \A n \in Natives : StorageOf(x, n) = StorageOf(g, n)
    BY <1>1 DEF InstancesOf, StorageOf
  <2>2. QED
    BY <1>1, <2>1 DEF Spare, Held
<1>4. Shifts(h, x, o, d)
  BY <1>1, <1>2, <1>3 DEF Shifts
<1>5. QED
  BY <1>1, <1>4

\* A construction begins with a reference to its instance.
LEMMA EnterKeeps ==
  ASSUME ConstantsOK, CountInv, NEW f \in Frame, frames' = Append(frames, f),
         Shifts(heap, heap', f.self, 1), UNCHANGED <<roots, py, cpp, constructed>>,
         heap'.loans = heap.loans + (IF f.mode = "offset" THEN 1 ELSE 0),
         heap'.buffers = heap.buffers + (IF f.mode = "malloc" THEN 1 ELSE 0)
  PROVE  CountInv'
<1>1. f.self \in Objects /\ f.mode \in Modes
  BY DEF Frame
<1>2. frames \in Seq(Frame)
  BY CountFacts
<1>3. FramesMove(frames, frames', f.self, f.mode, 1) /\ frames' \in Seq(Frame)
  BY <1>2, PushFacts
<1>4. TypeOK'
  BY <1>3 DEF Shifts, TypeOK, CountInv, roots
<1>5. /\ References(f.self)' = References(f.self) + 1
      /\ \A p \in Objects : p # f.self => References(p)' = References(p)
  <2>1. py' = py /\ cpp' = cpp /\ py[f.self] \in Nat /\ cpp[f.self] \in Nat
    BY <1>1, CountFacts
  <2>2. /\ Cardinality(SelfAt(frames, f.self)) \in Nat
        /\ Cardinality(SelfAt(frames', f.self)) = Cardinality(SelfAt(frames, f.self)) + 1
        /\ \A p \in Objects : p # f.self => SelfAt(frames', p) = SelfAt(frames, p)
    BY <1>3 DEF FramesMove
  <2>3. QED
    BY ONLY <2>1, <2>2 DEF References
<1>6. /\ heap.loans = Cardinality(ModeAt(frames, "offset"))
      /\ heap.buffers = Cardinality(ModeAt(frames, "malloc"))
      /\ heap.loans \in Nat /\ heap.buffers \in Nat
  BY CountFacts
<1>7. /\ heap'.loans = Cardinality(ModeAt(frames', "offset"))
      /\ heap'.buffers = Cardinality(ModeAt(frames', "malloc"))
  <2>1. /\ Cardinality(ModeAt(frames', f.mode)) = Cardinality(ModeAt(frames, f.mode)) + 1
        /\ \A k \in {"offset", "malloc"} : k # f.mode => ModeAt(frames', k) = ModeAt(frames, k)
    BY <1>3 DEF FramesMove, Modes
  <2>2. QED
    BY <1>6, <2>1
<1>8. QED
  BY <1>1, <1>4, <1>5, <1>7, ObjectKeeps

\* The frame that a construction starts with.
LEMMA EnterFacts ==
  ASSUME NEW how \in {"vectorcall", "init", "make"}, NEW o \in Objects, NEW type,
         NEW mode \in Modes, how # "vectorcall" => mode = "local"
  PROVE  \E f \in Frame : /\ Enter(how, o, type, mode) = Append(frames, f)
                          /\ f.self = o /\ f.mode = mode /\ f.at # "construct"
                          /\ f.entry = how
<1> DEFINE f == [entry |-> how, self |-> o, mode |-> mode, native |-> Null,
                 at |-> IF type = target THEN "convert" ELSE "failed"]
<1>1. /\ f \in Frame /\ f.self = o /\ f.mode = mode /\ f.at # "construct" /\ f.entry = how
  BY DEF Frame
<1>2. QED
  BY <1>1 DEF Enter

\* export_type_vectorcall, __init__ and make_export_object_impl, up to construct().
LEMMA BeginsKeeps ==
  ASSUME ConstantsOK, CountInv, NEW o \in Objects,
         \/ \E t \in Types, mode \in Modes : VectorCall(o, t, mode)
         \/ CallInit(o) \/ MakeExportObject(o)
  PROVE  /\ CountInv' /\ Shifts(heap, heap', o, 1)
         /\ \E f \in Frame : frames' = Append(frames, f) /\ f.self = o /\ f.at # "construct"
<1>1. heap \in Heap /\ HeapInv(heap) /\ heap.loans \in Nat /\ heap.buffers \in Nat
  BY CountFacts
<1>2. ASSUME NEW t \in Types, NEW mode \in Modes, VectorCall(o, t, mode)
      PROVE  \E f \in Frame :
               /\ frames' = Append(frames, f) /\ f.self = o /\ f.at # "construct"
               /\ Shifts(heap, heap', o, 1) /\ UNCHANGED <<roots, py, cpp, constructed>>
               /\ heap'.loans = heap.loans + (IF f.mode = "offset" THEN 1 ELSE 0)
               /\ heap'.buffers = heap.buffers + (IF f.mode = "malloc" THEN 1 ELSE 0)
  <2>1. PICK a \in Heap : a = Alloc(heap, o, t) /\ Moves(heap, a, o, 1) /\ HeapInv(a)
    BY <1>1, <1>2, AllocFacts DEF VectorCall, Fresh, Moves, Shifts
  <2>2. PICK l \in Int, b \in Int :
          /\ l = (IF mode = "offset" THEN heap.loans + 1 ELSE heap.loans)
          /\ b = (IF mode = "malloc" THEN heap.buffers + 1 ELSE heap.buffers)
    BY <1>1
  <2>3. heap' = [a EXCEPT !.loans = l, !.buffers = b]
    <3>1. a.loans = heap.loans /\ a.buffers = heap.buffers
      BY <2>1 DEF Moves
    <3>2. heap' = [a EXCEPT !.loans = IF mode = "offset" THEN a.loans + 1 ELSE a.loans,
                            !.buffers = IF mode = "malloc" THEN a.buffers + 1 ELSE a.buffers]
      BY <1>2, <2>1 DEF VectorCall
    <3>3. QED
      BY <2>2, <3>1, <3>2
  <2>4. Shifts(heap, a, o, 1)
    BY <2>1 DEF Moves
  <2>5. Shifts(heap, heap', o, 1) /\ heap'.loans = l /\ heap'.buffers = b
    <3>1. PICK x : x = heap'
      OBVIOUS
    <3>2. x = WithLoans(a, l, b)
      BY <2>3, <3>1 DEF WithLoans
    <3>3. Shifts(heap, x, o, 1) /\ x.loans = l /\ x.buffers = b
      BY <2>1, <2>4, <3>2, LoansFacts
    <3>4. QED
      BY <3>1, <3>3
  <2>6. PICK f \in Frame : /\ frames' = Append(frames, f)
                           /\ f.self = o /\ f.mode = mode /\ f.at # "construct"
    <3>1. frames' = Enter("vectorcall", o, t, mode)
      BY <1>2 DEF VectorCall
    <3>2. QED
      BY <3>1, EnterFacts
  <2>7. UNCHANGED <<roots, py, cpp, constructed>>
    BY <1>2 DEF VectorCall
  <2>8. /\ heap'.loans = heap.loans + (IF f.mode = "offset" THEN 1 ELSE 0)
        /\ heap'.buffers = heap.buffers + (IF f.mode = "malloc" THEN 1 ELSE 0)
    BY <1>1, <2>2, <2>5, <2>6
  <2>9. QED
    BY <2>5, <2>6, <2>7, <2>8
<1>3. ASSUME CallInit(o) \/ MakeExportObject(o)
      PROVE  \E f \in Frame :
               /\ frames' = Append(frames, f) /\ f.self = o /\ f.at # "construct"
               /\ Shifts(heap, heap', o, 1) /\ UNCHANGED <<roots, py, cpp, constructed>>
               /\ heap'.loans = heap.loans + (IF f.mode = "offset" THEN 1 ELSE 0)
               /\ heap'.buffers = heap.buffers + (IF f.mode = "malloc" THEN 1 ELSE 0)
  <2>1. Moves(heap, heap', o, 1)
    <3>1. CASE CallInit(o)
      <4>1. heap.rc[o] # 0
        <5>1. py[o] > 0
          BY <3>1 DEF CallInit
        <5>2. /\ heap.rc[o] = py[o] + cpp[o] + Cardinality(SelfAt(frames, o))
              /\ py[o] \in Nat /\ cpp[o] \in Nat /\ Cardinality(SelfAt(frames, o)) \in Nat
          BY CountFacts DEF References
        <5>3. QED
          BY ONLY <5>1, <5>2
      <4>2. QED
        BY <1>1, <3>1, <4>1, IncRefFacts DEF CallInit
    <3>2. CASE MakeExportObject(o)
      <4>1. PICK t \in Types : t = target
        BY <3>2, CountFacts DEF MakeExportObject
      <4>2. heap' = Alloc(heap, o, t) /\ heap.type[o] = Null
        BY <3>2, <4>1 DEF MakeExportObject, Fresh
      <4>3. QED
        BY <1>1, <4>2, AllocFacts
    <3>3. QED
      BY <1>3, <3>1, <3>2
  <2>2. PICK how \in {"init", "make"} : \E type : frames' = Enter(how, o, type, "local")
    BY <1>3 DEF CallInit, MakeExportObject
  <2>3. PICK f \in Frame : /\ frames' = Append(frames, f)
                           /\ f.self = o /\ f.mode = "local" /\ f.at # "construct"
    BY <2>2, EnterFacts DEF Modes
  <2>4. UNCHANGED <<roots, py, cpp, constructed>>
    BY <1>3 DEF CallInit, MakeExportObject
  <2>5. QED
    BY <1>1, <2>1, <2>3, <2>4 DEF Moves
<1>4. PICK f \in Frame :
        /\ frames' = Append(frames, f) /\ f.self = o /\ f.at # "construct"
        /\ Shifts(heap, heap', o, 1) /\ UNCHANGED <<roots, py, cpp, constructed>>
        /\ heap'.loans = heap.loans + (IF f.mode = "offset" THEN 1 ELSE 0)
        /\ heap'.buffers = heap.buffers + (IF f.mode = "malloc" THEN 1 ELSE 0)
  BY <1>2, <1>3
<1>5. QED
  BY <1>4, EnterKeeps

\* The running frame, and the reference it holds.
LEMMA RunningFacts ==
  ASSUME ConstantsOK, CountInv, frames # <<>>
  PROVE  /\ Top \in Frame /\ Top.self \in Objects /\ Top.mode \in Modes
         /\ Len(frames) \in Nat \ {0} /\ Len(frames) \in 1..Len(frames)
         /\ Cardinality(SelfAt(frames, Top.self)) \in Nat
         /\ heap.rc[Top.self] \in Nat /\ heap.rc[Top.self] >= 1
<1>1. frames \in Seq(Frame)
  BY CountFacts
<1>2. Len(frames) \in Nat \ {0} /\ Len(frames) \in 1..Len(frames) /\ DOMAIN frames = 1..Len(frames)
  BY <1>1, EmptySeq, LenProperties
<1>3. Top \in Frame
  BY <1>1, <1>2, LenProperties DEF Top
<1>4. Top.self \in Objects /\ Top.mode \in Modes
  BY <1>3 DEF Frame
<1>5. Cardinality(SelfAt(frames, Top.self)) \in Nat \ {0}
  <2>1. Len(frames) \in SelfAt(frames, Top.self)
    BY <1>2 DEF SelfAt, Top
  <2>2. IsFiniteSet(SelfAt(frames, Top.self)) /\ Cardinality(SelfAt(frames, Top.self)) \in Nat
    BY <1>1, <1>4, FrameCounts
  <2>3. Cardinality(SelfAt(frames, Top.self)) # 0
    BY <2>1, <2>2, FS_EmptySet
  <2>4. QED
    BY <2>2, <2>3
<1>6. heap.rc[Top.self] \in Nat /\ heap.rc[Top.self] >= 1
  <2>1. /\ heap.rc[Top.self] = py[Top.self] + cpp[Top.self] + Cardinality(SelfAt(frames, Top.self))
        /\ py[Top.self] \in Nat /\ cpp[Top.self] \in Nat
    BY <1>4, CountFacts DEF References
  <2>2. QED
    BY ONLY <1>5, <2>1
<1>7. QED
  BY <1>2, <1>3, <1>4, <1>5, <1>6

\* The arguments are converted and the constructor runs, or throws.
LEMMA RunKeeps ==
  ASSUME ConstantsOK, CountInv, Throw \/ \E n \in Natives : Begin(n)
  PROVE  CountInv'
<1>1. frames # <<>> /\ UNCHANGED <<heap, roots, py, cpp, constructed>>
  BY DEF Throw, Begin, In
<1>2. Top \in Frame /\ frames \in Seq(Frame) /\ Len(frames) \in Nat \ {0}
  BY <1>1, RunningFacts, CountFacts
<1>3. PICK f \in Frame : Goes(f) /\ f.self = Top.self /\ f.mode = Top.mode
  <2>1. ASSUME NEW n \in Natives, Begin(n)
        PROVE  \E f \in Frame : Goes(f) /\ f.self = Top.self /\ f.mode = Top.mode
    <3> DEFINE f == [Top EXCEPT !.at = "construct", !.native = n]
    <3>1. f \in Frame /\ f.self = Top.self /\ f.mode = Top.mode
      BY <1>2 DEF Frame, ConstantsOK
    <3>2. QED
      BY <2>1, <3>1 DEF Begin
  <2>2. ASSUME Throw
        PROVE  \E f \in Frame : Goes(f) /\ f.self = Top.self /\ f.mode = Top.mode
    <3> DEFINE f == [Top EXCEPT !.at = "failed", !.native = Null]
    <3>1. f \in Frame /\ f.self = Top.self /\ f.mode = Top.mode
      BY <1>2 DEF Frame
    <3>2. QED
      BY <2>2, <3>1 DEF Throw
  <2>3. QED
    BY <2>1, <2>2
<1>4. PICK r : r = frames'
  OBVIOUS
<1>5. /\ r \in Seq(Frame)
      /\ \A o \in Objects : SelfAt(r, o) = SelfAt(frames, o)
      /\ \A m \in Modes : ModeAt(r, m) = ModeAt(frames, m)
  BY <1>1, <1>2, <1>3, <1>4, GoesFacts DEF Goes, Top
<1>6. Agrees'
  <2>1. TypeOK'
    BY <1>1, <1>4, <1>5 DEF CountInv, TypeOK, roots
  <2>2. HeapInv(heap') /\ ConstantsOK'
    BY <1>1 DEF CountInv, ConstantsOK
  <2>3. \A o \in Objects : heap'.rc[o] = References(o)'
    BY <1>1, <1>4, <1>5, CountFacts DEF References
  <2>4. \A t \in Types : Spare(heap', t) = Roots(t)'
    BY <1>1, CountFacts DEF Roots, roots
  <2>5. /\ heap'.loans = Cardinality(ModeAt(frames', "offset"))
        /\ heap'.buffers = Cardinality(ModeAt(frames', "malloc"))
    BY <1>1, <1>4, <1>5, CountFacts DEF Modes
  <2>6. QED
    BY <2>1, <2>2, <2>3, <2>4, <2>5 DEF Agrees
<1>7. QED
  BY <1>6, CountAgrees, PTL

\* Changes of the references to one object add up.
LEMMA ShiftsAdd ==
  ASSUME NEW h \in Heap, NEW g, NEW k, NEW o \in Objects, NEW d \in Int, NEW e \in Int,
         Shifts(h, g, o, d), Shifts(g, k, o, e)
  PROVE  Shifts(h, k, o, d + e)
<1>1. k.rc[o] = h.rc[o] + (d + e)
  <2>1. h.rc[o] \in Int /\ g.rc[o] = h.rc[o] + d /\ k.rc[o] = g.rc[o] + e
    BY DEF Shifts, Heap
  <2>2. QED
    BY ONLY <2>1, d \in Int, e \in Int
<1>2. QED
  BY <1>1 DEF Shifts

\* GiveBackArguments touches nothing but the slots and arrays.
LEMMA GiveBackFacts ==
  ASSUME NEW h \in Heap, HeapInv(h), NEW f \in Frame
  PROVE  /\ Shifts(h, GiveBackArguments(h, f), f.self, 0)
         /\ GiveBackArguments(h, f).loans = h.loans - (IF f.mode = "offset" THEN 1 ELSE 0)
         /\ GiveBackArguments(h, f).buffers = h.buffers - (IF f.mode = "malloc" THEN 1 ELSE 0)
<1>1. h.loans \in Int /\ h.buffers \in Int /\ f.self \in Objects
  BY DEF Heap, Frame
<1>2. PICK l \in Int, b \in Int :
        /\ l = (IF f.mode = "offset" THEN h.loans - 1 ELSE h.loans)
        /\ b = (IF f.mode = "malloc" THEN h.buffers - 1 ELSE h.buffers)
  BY <1>1
<1>3. GiveBackArguments(h, f) = WithLoans(h, l, b)
  BY <1>2 DEF GiveBackArguments, WithLoans
<1>4. PICK o \in Objects : o = f.self
  BY <1>1
<1>5. Shifts(h, h, o, 0)
  <2>1. h.rc[o] \in Int
    BY DEF Heap
  <2>2. QED
    BY <2>1 DEF Shifts
<1>6. PICK x : x = WithLoans(h, l, b)
  OBVIOUS
<1>7. Shifts(h, x, o, 0) /\ x.loans = l /\ x.buffers = b
  BY <1>5, <1>6, LoansFacts
<1>8. QED
  BY <1>1, <1>2, <1>3, <1>4, <1>6, <1>7

\* A construction ends: the frame goes, and with it or to Python or C++ its reference.
LEMMA LeaveKeeps ==
  ASSUME ConstantsOK, CountInv, frames # <<>>, Pop, UNCHANGED roots,
         NEW h, NEW d \in Int, Shifts(h, heap', Top.self, d),
         h.rc = heap.rc, \A t \in Types : Spare(h, t) = Spare(heap, t),
         heap'.loans = heap.loans - (IF Top.mode = "offset" THEN 1 ELSE 0),
         heap'.buffers = heap.buffers - (IF Top.mode = "malloc" THEN 1 ELSE 0),
         py' \in [Objects -> Nat], cpp' \in [Objects -> Nat], constructed' \subseteq Natives,
         py'[Top.self] + cpp'[Top.self] = py[Top.self] + cpp[Top.self] + d + 1,
         \A p \in Objects : p # Top.self => py'[p] = py[p] /\ cpp'[p] = cpp[p]
  PROVE  CountInv'
<1>1. PICK o \in Objects, m \in Modes : o = Top.self /\ m = Top.mode
  BY RunningFacts
<1>2. frames \in Seq(Frame)
  BY CountFacts
<1>3. PICK r : r = frames'
  OBVIOUS
<1>4. FramesMove(frames, r, o, m, -1) /\ r \in Seq(Frame)
  <2>1. r = SubSeq(frames, 1, Len(frames) - 1)
    BY <1>3 DEF Pop
  <2>2. o = frames[Len(frames)].self /\ m = frames[Len(frames)].mode
    BY <1>1 DEF Top
  <2>3. QED
    BY <1>2, <2>1, <2>2, PopFacts
<1>5. heap' \in Heap
  BY DEF Shifts
<1>6. TypeOK'
  BY <1>3, <1>4, <1>5 DEF TypeOK, CountInv, roots
<1>7. References(o)' = References(o) + d
  <2>1. /\ py[o] \in Nat /\ cpp[o] \in Nat /\ Cardinality(SelfAt(frames, o)) \in Nat
        /\ py'[o] \in Nat /\ cpp'[o] \in Nat
    BY CountFacts
  <2>2. py'[o] + cpp'[o] = py[o] + cpp[o] + d + 1
    BY <1>1
  <2>3. Cardinality(SelfAt(frames', o)) = Cardinality(SelfAt(frames, o)) + (-1)
    BY <1>3, <1>4 DEF FramesMove
  <2>4. QED
    BY ONLY <2>1, <2>2, <2>3, d \in Int DEF References
<1>8. \A p \in Objects : p # o => References(p)' = References(p)
  <2>1. \A p \in Objects : p # o => SelfAt(frames', p) = SelfAt(frames, p)
    BY <1>3, <1>4 DEF FramesMove
  <2>2. \A p \in Objects : p # o => py'[p] = py[p] /\ cpp'[p] = cpp[p]
    BY <1>1
  <2>3. QED
    BY ONLY <2>1, <2>2 DEF References
<1>9. /\ heap'.loans = Cardinality(ModeAt(frames', "offset"))
      /\ heap'.buffers = Cardinality(ModeAt(frames', "malloc"))
  <2>1. /\ heap.loans = Cardinality(ModeAt(frames, "offset"))
        /\ heap.buffers = Cardinality(ModeAt(frames, "malloc"))
        /\ heap.loans \in Nat /\ heap.buffers \in Nat
    BY CountFacts
  <2>2. /\ Cardinality(ModeAt(frames', m)) = Cardinality(ModeAt(frames, m)) + (-1)
        /\ \A k \in {"offset", "malloc"} : k # m => ModeAt(frames', k) = ModeAt(frames, k)
    BY <1>3, <1>4 DEF FramesMove, Modes
  <2>3. /\ heap'.loans = heap.loans - (IF m = "offset" THEN 1 ELSE 0)
        /\ heap'.buffers = heap.buffers - (IF m = "malloc" THEN 1 ELSE 0)
    BY <1>1
  <2>4. QED
    BY ONLY <2>1, <2>2, <2>3
<1>10. Shifts(h, heap', o, d)
  BY <1>1
<1>11. QED
  BY <1>6, <1>7, <1>8, <1>9, <1>10, ObjectKeeps

\* The construction failed.
LEMMA FailedKeeps ==
  ASSUME ConstantsOK, CountInv, Failed
  PROVE  CountInv' /\ Shifts(heap, heap', Top.self, -1)
<1>1. frames # <<>> /\ Pop /\ UNCHANGED <<roots, py, cpp, constructed>>
  BY DEF Failed, In
<1>2. PICK o \in Objects : o = Top.self /\ heap.rc[o] \in Nat /\ heap.rc[o] >= 1 /\ Top \in Frame
  BY <1>1, RunningFacts
<1>3. heap \in Heap /\ HeapInv(heap) /\ \A t \in Types : Spare(heap, t) >= 0
  BY CountFacts
<1>4. PICK g \in Heap :
        /\ g = GiveBackArguments(heap, Top) /\ Shifts(heap, g, o, 0)
        /\ g.loans = heap.loans - (IF Top.mode = "offset" THEN 1 ELSE 0)
        /\ g.buffers = heap.buffers - (IF Top.mode = "malloc" THEN 1 ELSE 0)
  <2>1. PICK g : g = GiveBackArguments(heap, Top)
    OBVIOUS
  <2>2. /\ Shifts(heap, g, Top.self, 0)
        /\ g.loans = heap.loans - (IF Top.mode = "offset" THEN 1 ELSE 0)
        /\ g.buffers = heap.buffers - (IF Top.mode = "malloc" THEN 1 ELSE 0)
    BY <1>2, <1>3, <2>1, GiveBackFacts
  <2>3. QED
    BY <1>2, <2>1, <2>2 DEF Shifts
<1>5. HeapInv(g) /\ g.rc[o] >= 1 /\ \A t \in Types : Spare(g, t) >= 0
  BY <1>2, <1>3, <1>4 DEF Shifts
<1>6. heap' = DecRef(g, o)
  BY <1>2, <1>4 DEF Failed
<1>7. Moves(g, heap', o, -1)
  BY <1>5, <1>6, DecRefFacts
<1>8. Shifts(heap, heap', o, -1)
  <2>1. PICK k : k = heap'
    OBVIOUS
  <2>2. Shifts(g, k, o, -1) /\ -1 \in Int /\ 0 \in Int
    BY <1>7, <2>1 DEF Moves
  <2>3. Shifts(heap, k, o, 0 + (-1))
    BY <1>3, <1>4, <2>2, ShiftsAdd
  <2>4. QED
    BY <2>1, <2>3
<1>9. /\ heap'.loans = heap.loans - (IF Top.mode = "offset" THEN 1 ELSE 0)
      /\ heap'.buffers = heap.buffers - (IF Top.mode = "malloc" THEN 1 ELSE 0)
  BY <1>4, <1>7 DEF Moves
<1>10. /\ py' \in [Objects -> Nat] /\ cpp' \in [Objects -> Nat] /\ constructed' \subseteq Natives
       /\ \A p \in Objects : py'[p] = py[p] /\ cpp'[p] = cpp[p]
  BY <1>1 DEF CountInv, TypeOK
<1>11. py'[Top.self] + cpp'[Top.self] = py[Top.self] + cpp[Top.self] + (-1) + 1
  <2>1. py[o] \in Nat /\ cpp[o] \in Nat /\ py'[o] = py[o] /\ cpp'[o] = cpp[o]
    BY <1>10, CountFacts
  <2>2. QED
    BY <1>2, <2>1
<1>12. CountInv'
  <2>1. PICK d \in Int : d = -1
    OBVIOUS
  <2>2. /\ Shifts(heap, heap', Top.self, d)
        /\ py'[Top.self] + cpp'[Top.self] = py[Top.self] + cpp[Top.self] + d + 1
    BY <1>2, <1>8, <1>11, <2>1
  <2>3. QED
    BY <1>1, <1>9, <1>10, <2>2, LeaveKeeps
<1>13. QED
  BY <1>2, <1>8, <1>12

\* The native is published in the instance.
LEMMA PublishFacts ==
  ASSUME ConstantsOK, NEW h \in Heap, HeapInv(h), NEW o \in Objects, h.rc[o] # 0,
         NEW n \in Natives, NEW p, p = [h EXCEPT !.native[o] = n]
  PROVE  /\ p \in Heap /\ HeapInv(p) /\ p.rc = h.rc
         /\ p.loans = h.loans /\ p.buffers = h.buffers
         /\ \A t \in Types : Spare(p, t) = Spare(h, t)
         /\ p.native[o] = n /\ \A q \in Objects : q # o => p.native[q] = h.native[q]
         /\ h.native[o] = Null => /\ Held(p, n) = Held(h, n) + 1
                                  /\ \A m \in Natives : m # n => Held(p, m) = Held(h, m)
<1>1. /\ p \in Heap /\ p.native = [h.native EXCEPT ![o] = n]
      /\ p.rc = h.rc /\ p.type = h.type /\ p.typeRefs = h.typeRefs
      /\ p.attrs = h.attrs /\ p.ctorRefs = h.ctorRefs /\ p.holders = h.holders
      /\ p.loans = h.loans /\ p.buffers = h.buffers /\ p.destroyed = h.destroyed
  BY DEF Heap
<1>2. p.native[o] = n /\ \A q \in Objects : q # o => h.native[q] = p.native[q]
  BY <1>1 DEF Heap
<1>3. HeapInv(p)
  <2>1. \A q \in Objects : p.type[q] = Null => p.rc[q] = 0 /\ p.native[q] = Null
    BY <1>1, <1>2 DEF HeapInv
  <2>2. QED
    BY <1>1, <2>1 DEF HeapInv
<1>4. \A t \in Types : Spare(p, t) = Spare(h, t)
  BY <1>1 DEF Spare, InstancesOf
<1>5. ASSUME h.native[o] = Null
      PROVE  /\ Held(p, n) = Held(h, n) + 1
             /\ \A m \in Natives : m # n => Held(p, m) = Held(h, m)
  <2>1. /\ Cardinality(StorageOf(h, n)) \in Nat
        /\ Cardinality(StorageOf(p, n)) = Cardinality(StorageOf(h, n)) + 1
    <3>1. h.native[o] # n
      BY <1>5 DEF ConstantsOK
    <3>2. QED
      BY <1>2, <3>1, StorageChanges
  <2>2. p.destroyed[n] = h.destroyed[n] /\ h.destroyed[n] \in Int
    BY <1>1 DEF Heap
  <2>3. Held(p, n) = Held(h, n) + 1
    BY ONLY <2>1, <2>2 DEF Held
  <2>4. ASSUME NEW m \in Natives, m # n PROVE Held(p, m) = Held(h, m)
    <3>1. h.native[o] # m /\ p.native[o] # m
      BY <1>2, <1>5, <2>4 DEF ConstantsOK
    <3>2. StorageOf(p, m) = StorageOf(h, m)
      BY <1>2, <3>1, StorageChanges
    <3>3. QED
      BY <1>1, <3>2 DEF Held
  <2>5. QED
    BY <2>3, <2>4
<1>6. QED
  BY <1>1, <1>2, <1>3, <1>4, <1>5

\* The constructor returned: what the object_t and the frame held goes to Python or C++.
LEMMA ConstructedKeeps ==
  ASSUME ConstantsOK, CountInv, Constructed
  PROVE  /\ CountInv'
         /\ \E p \in Heap, d \in Int : /\ p = [heap EXCEPT !.native[Top.self] = Top.native]
                                       /\ Shifts(p, heap', Top.self, d)
<1>1. frames # <<>> /\ Top.at = "construct" /\ Pop /\ UNCHANGED roots
  BY DEF Constructed, In
<1>2. PICK o \in Objects : /\ o = Top.self /\ heap.rc[o] \in Nat /\ heap.rc[o] >= 1
                           /\ Top \in Frame /\ heap.rc[o] # 0
  <2>1. \A k \in Nat : k >= 1 => k # 0
    OBVIOUS
  <2>2. QED
    BY <1>1, <2>1, RunningFacts
<1>3. PICK n \in Natives : n = Top.native
  BY <1>1, <1>2 DEF Frame
<1>4. heap \in Heap /\ HeapInv(heap) /\ \A t \in Types : Spare(heap, t) >= 0
  BY CountFacts
<1>5. PICK p \in Heap :
        /\ p = [heap EXCEPT !.native[o] = n] /\ HeapInv(p) /\ p.rc = heap.rc
        /\ p.loans = heap.loans /\ p.buffers = heap.buffers
        /\ \A t \in Types : Spare(p, t) = Spare(heap, t)
  <2>1. PICK p : p = [heap EXCEPT !.native[o] = n]
    OBVIOUS
  <2>2. /\ p \in Heap /\ HeapInv(p) /\ p.rc = heap.rc
        /\ p.loans = heap.loans /\ p.buffers = heap.buffers
        /\ \A t \in Types : Spare(p, t) = Spare(heap, t)
    BY <1>2, <1>4, <2>1, PublishFacts
  <2>3. QED
    BY <2>1, <2>2
<1>6. PICK q \in Heap : q = IncRef(p, o) /\ Moves(p, q, o, 1) /\ HeapInv(q)
  <2>1. p.rc[o] # 0
    BY <1>2, <1>5
  <2>2. QED
    BY <1>5, <2>1, IncRefFacts DEF Moves, Shifts
<1>7. q.rc[o] = heap.rc[o] + 1 /\ \A t \in Types : Spare(q, t) >= 0
  BY <1>4, <1>5, <1>6 DEF Moves, Shifts
<1>8. PICK k \in Heap : k = DecRef(q, o) /\ Moves(q, k, o, -1) /\ HeapInv(k)
  <2>1. q.rc[o] >= 1
    BY <1>2, <1>7
  <2>2. QED
    BY <1>6, <1>7, <2>1, DecRefFacts DEF Moves, Shifts
<1>9. k.rc[o] = heap.rc[o] /\ \A t \in Types : Spare(k, t) >= 0
  <2>1. k.rc[o] = q.rc[o] + (-1) /\ \A t \in Types : Spare(k, t) = Spare(q, t)
    BY <1>8 DEF Moves, Shifts
  <2>2. QED
    BY <1>2, <1>7, <2>1
<1>10. Shifts(p, k, o, 0) /\ k.loans = heap.loans /\ k.buffers = heap.buffers
  <2>1. Shifts(p, q, o, 1) /\ Shifts(q, k, o, -1)
    BY <1>6, <1>8 DEF Moves
  <2>2. Shifts(p, k, o, 1 + (-1))
    BY <2>1, ShiftsAdd
  <2>3. QED
    BY <1>5, <1>6, <1>8, <2>2 DEF Moves
<1>11. heap' = IF Top.entry = "init" THEN DecRef(k, o) ELSE GiveBackArguments(k, Top)
  <2>1. k = DecRef(IncRef([heap EXCEPT !.native[Top.self] = Top.native], Top.self), Top.self)
    BY <1>2, <1>3, <1>5, <1>6, <1>8
  <2>2. QED
    BY <1>2, <2>1 DEF Constructed
<1>12. PICK d \in Int :
         /\ Shifts(p, heap', o, d) /\ d = (IF Top.entry = "init" THEN -1 ELSE 0)
         /\ heap'.loans = heap.loans - (IF Top.mode = "offset" THEN 1 ELSE 0)
         /\ heap'.buffers = heap.buffers - (IF Top.mode = "malloc" THEN 1 ELSE 0)
  <2>1. PICK x : x = heap'
    OBVIOUS
  <2>2. CASE Top.entry = "init"
    <3>1. k.rc[o] >= 1
      BY <1>2, <1>9
    <3>2. Moves(k, x, o, -1)
      BY <1>8, <1>9, <1>11, <2>1, <2>2, <3>1, DecRefFacts
    <3>3. Shifts(p, x, o, 0 + (-1))
      <4>1. Shifts(k, x, o, -1)
        BY <3>2 DEF Moves
      <4>2. QED
        BY <1>10, <4>1, ShiftsAdd
    <3>4. Top.mode = "local" /\ heap.loans \in Int /\ heap.buffers \in Int
      BY <1>2, <1>4, <2>2 DEF Frame, Heap
    <3>5. x.loans = heap.loans /\ x.buffers = heap.buffers
      BY <1>10, <3>2 DEF Moves
    <3>6. QED
      BY <2>1, <2>2, <3>3, <3>4, <3>5
  <2>3. CASE Top.entry # "init"
    <3>1. /\ Shifts(k, x, o, 0)
          /\ x.loans = k.loans - (IF Top.mode = "offset" THEN 1 ELSE 0)
          /\ x.buffers = k.buffers - (IF Top.mode = "malloc" THEN 1 ELSE 0)
      BY <1>2, <1>8, <1>11, <2>1, <2>3, GiveBackFacts
    <3>2. Shifts(p, x, o, 0 + 0)
      BY <1>10, <3>1, ShiftsAdd
    <3>3. QED
      BY <1>10, <2>1, <2>3, <3>1, <3>2
  <2>4. QED
    BY <2>2, <2>3
<1>13. /\ py' \in [Objects -> Nat] /\ cpp' \in [Objects -> Nat] /\ constructed' \subseteq Natives
       /\ \A x \in Objects : x # o => py'[x] = py[x] /\ cpp'[x] = cpp[x]
       /\ py'[o] + cpp'[o] = py[o] + cpp[o] + d + 1
  <2>1. py \in [Objects -> Nat] /\ cpp \in [Objects -> Nat] /\ constructed \subseteq Natives
    BY DEF CountInv, TypeOK
  <2>2. /\ py' = [py EXCEPT ![o] = IF Top.entry = "vectorcall" THEN @ + 1 ELSE @]
        /\ cpp' = [cpp EXCEPT ![o] = IF Top.entry = "make" THEN @ + 1 ELSE @]
        /\ constructed' = constructed \cup {n}
    BY <1>2, <1>3 DEF Constructed
  <2>3. Top.entry \in {"vectorcall", "init", "make"}
    BY <1>2 DEF Frame
  <2>4. d = (IF Top.entry = "init" THEN -1 ELSE 0)
    BY <1>12
  <2>5. QED
    BY ONLY <2>1, <2>2, <2>3, <2>4, o \in Objects, n \in Natives, d \in Int
<1>14. CountInv'
  <2>1. Shifts(p, heap', Top.self, d)
    BY <1>2, <1>12
  <2>2. /\ py'[Top.self] + cpp'[Top.self] = py[Top.self] + cpp[Top.self] + d + 1
        /\ \A x \in Objects : x # Top.self => py'[x] = py[x] /\ cpp'[x] = cpp[x]
    BY <1>2, <1>13
  <2>3. QED
    BY <1>1, <1>5, <1>12, <1>13, <2>1, <2>2, LeaveKeeps
<1>15. QED
  BY <1>2, <1>3, <1>5, <1>12, <1>14

\* A registration changes the references of roots to types, and no object.
LEMMA RegistrationKeeps ==
  ASSUME ConstantsOK, CountInv, heap' \in Heap, HeapInv(heap'), SameObjects(heap, heap'),
         UNCHANGED <<py, cpp, frames, constructed>>,
         {attr', target', local'} \subseteq Types \cup {Null},
         \A t \in Types : heap'.typeRefs[t] + Roots(t) = heap.typeRefs[t] + Roots(t)'
  PROVE  CountInv'
<1>1. TypeOK'
  BY DEF CountInv, TypeOK
<1>2. \A o \in Objects : heap'.rc[o] = References(o)'
  BY CountFacts DEF References, SameObjects
<1>3. ASSUME NEW t \in Types PROVE Spare(heap', t) = Roots(t)'
  <2>1. InstancesOf(heap', t) = InstancesOf(heap, t)
    BY DEF SameObjects, InstancesOf
  <2>2. Cardinality(InstancesOf(heap, t)) \in Nat
    <3>1. InstancesOf(heap, t) \in SUBSET Objects
      BY DEF InstancesOf
    <3>2. QED
      BY <3>1, FS_Subset, FS_CardinalityType DEF ConstantsOK
  <2>3. heap.typeRefs[t] - Cardinality(InstancesOf(heap, t)) = Roots(t)
    BY CountFacts DEF Spare
  <2>4. heap.typeRefs[t] \in Int /\ heap'.typeRefs[t] \in Int
    BY DEF CountInv, TypeOK, Heap
  <2>5. Roots(t) \in Nat /\ Roots(t)' \in Nat
    BY DEF Roots, One
  <2>6. heap'.typeRefs[t] + Roots(t) = heap.typeRefs[t] + Roots(t)'
    OBVIOUS
  <2>7. heap'.typeRefs[t] - Cardinality(InstancesOf(heap, t)) = Roots(t)'
    BY ONLY <2>2, <2>3, <2>4, <2>5, <2>6
  <2>8. QED
    BY <2>1, <2>7 DEF Spare
<1>4. /\ heap'.loans = Cardinality(ModeAt(frames', "offset"))
      /\ heap'.buffers = Cardinality(ModeAt(frames', "malloc"))
  BY CountFacts DEF SameObjects
<1>5. Agrees'
  BY <1>1, <1>2, <1>3, <1>4 DEF Agrees, ConstantsOK
<1>6. QED
  BY <1>5, CountAgrees, PTL

\* A root gives up the type it refers to, if any.
LEMMA DropTypeFacts ==
  ASSUME ConstantsOK, NEW h \in Heap, HeapInv(h), NEW t \in Types \cup {Null},
         t \in Types => h.typeRefs[t] > 0, NEW g, g = DecType(h, t)
  PROVE  /\ g \in Heap /\ HeapInv(g) /\ SameObjects(h, g)
         /\ \A u \in Types : g.typeRefs[u] = IF t = u THEN h.typeRefs[u] - 1 ELSE h.typeRefs[u]
<1>1. CASE t = Null
  <2>1. g = h
    BY <1>1 DEF DecType
  <2>2. \A u \in Types : h.typeRefs[u] \in Int /\ t # u
    BY <1>1 DEF Heap, ConstantsOK
  <2>3. QED
    BY <2>1, <2>2 DEF SameObjects
<1>2. CASE t \in Types
  <2>1. t # Null
    BY <1>2 DEF ConstantsOK
  <2>2. /\ g \in Heap /\ HeapInv(g) /\ SameObjects(h, g)
        /\ g.typeRefs = [h.typeRefs EXCEPT ![t] = @ - 1]
    BY <1>2, <2>1, DecTypeFacts
  <2>3. \A u \in Types : g.typeRefs[u] = IF t = u THEN h.typeRefs[u] - 1 ELSE h.typeRefs[u]
    BY <1>2, <2>2 DEF Heap
  <2>4. QED
    BY <2>2, <2>3
<1>3. QED
  BY <1>1, <1>2

\* What a root refers to is counted; what is not counted, no root refers to.
LEMMA RootFacts ==
  ASSUME ConstantsOK, CountInv
  PROVE  \A t \in Types : /\ heap.typeRefs[t] \in Int /\ heap.typeRefs[t] >= Roots(t)
                          /\ t \in {attr, target, local} => heap.typeRefs[t] > 0
                          /\ heap.typeRefs[t] = 0 => t \notin {attr, target, local}
<1> SUFFICES ASSUME NEW t \in Types
             PROVE  /\ heap.typeRefs[t] \in Int /\ heap.typeRefs[t] >= Roots(t)
                    /\ t \in {attr, target, local} => heap.typeRefs[t] > 0
                    /\ heap.typeRefs[t] = 0 => t \notin {attr, target, local}
  OBVIOUS
<1>1. Cardinality(InstancesOf(heap, t)) \in Nat
  <2>1. InstancesOf(heap, t) \in SUBSET Objects
    BY DEF InstancesOf
  <2>2. QED
    BY <2>1, FS_Subset, FS_CardinalityType DEF ConstantsOK
<1>2. heap.typeRefs[t] \in Int /\ heap.typeRefs[t] - Cardinality(InstancesOf(heap, t)) = Roots(t)
  BY CountFacts DEF Heap, Spare
<1>3. t \in {attr, target, local} => Roots(t) > 0
  BY DEF Roots, One
<1>4. Roots(t) \in Nat
  BY RootsNat
<1>5. heap.typeRefs[t] >= Roots(t)
  BY ONLY <1>1, <1>2, <1>4
<1>6. QED
  BY ONLY <1>2, <1>3, <1>4, <1>5

\* A new type has two references.
LEMMA MadeFacts ==
  ASSUME ConstantsOK, CountInv, NEW t \in Types, Unused(t)
  PROVE  /\ MadeType(t) \in Heap /\ HeapInv(MadeType(t)) /\ SameObjects(heap, MadeType(t))
         /\ MadeType(t).typeRefs = [heap.typeRefs EXCEPT ![t] = 2]
<1>1. heap \in Heap /\ HeapInv(heap)
  BY CountFacts
<1>2. PICK a \in [Types -> Int], b \in [Types -> Int] :
        a = [heap.typeRefs EXCEPT ![t] = 1] /\ b = [heap.typeRefs EXCEPT ![t] = 2]
  <2>1. heap.typeRefs \in [Types -> Int]
    BY <1>1 DEF Heap
  <2>2. /\ [heap.typeRefs EXCEPT ![t] = 1] \in [Types -> Int]
        /\ [heap.typeRefs EXCEPT ![t] = 2] \in [Types -> Int]
    BY ONLY <2>1, t \in Types
  <2>3. QED
    BY ONLY <2>2
<1>3. b = [a EXCEPT ![t] = @ + 1]
  <2>1. heap.typeRefs \in [Types -> Int]
    BY <1>1 DEF Heap
  <2>2. QED
    BY ONLY <1>2, <2>1, t \in Types
<1>4. PICK g : g = WithTypeRefs(heap, a)
  OBVIOUS
<1>5. g \in Heap /\ g.typeRefs = a /\ SameObjects(heap, g) /\ HeapInv(g)
  BY ONLY <1>1, <1>4, a \in [Types -> Int], TypeRefsFacts
<1>6. PICK x : x = WithTypeRefs(g, b)
  OBVIOUS
<1>7. x \in Heap /\ x.typeRefs = b /\ SameObjects(g, x) /\ HeapInv(x)
  BY ONLY <1>5, <1>6, b \in [Types -> Int], TypeRefsFacts
<1>8. x = MadeType(t)
  <2>1. g = MakeExportClassType(heap, t)
    BY ONLY <1>2, <1>4 DEF MakeExportClassType, WithTypeRefs
  <2>2. x = IncType(g, t)
    BY ONLY <1>3, <1>5, <1>6 DEF IncType, WithTypeRefs
  <2>3. QED
    BY ONLY <2>1, <2>2 DEF MadeType
<1>9. SameObjects(heap, x)
  BY ONLY <1>5, <1>7 DEF SameObjects
<1>10. QED
  BY ONLY <1>2, <1>7, <1>8, <1>9

LEMMA DefineClassKeeps ==
  ASSUME ConstantsOK, CountInv, NEW t \in Types, DefineClass(t)
  PROVE  CountInv' /\ SameObjects(heap, heap')
<1>1. /\ Unused(t) /\ local = Null /\ attr' = t /\ local' = t
      /\ UNCHANGED <<target, py, cpp, frames, constructed>>
  BY DEF DefineClass
<1>2. PICK m \in Heap : /\ m = MadeType(t) /\ HeapInv(m) /\ SameObjects(heap, m)
                        /\ m.typeRefs = [heap.typeRefs EXCEPT ![t] = 2]
  BY <1>1, MadeFacts
<1>3. heap.typeRefs \in [Types -> Int] /\ {attr, target} \subseteq Types \cup {Null}
  BY CountFacts DEF Heap
<1>4. t # Null /\ t # attr /\ t # target /\ heap.typeRefs[t] = 0
  BY <1>1, RootFacts DEF Unused, ConstantsOK
<1>5. attr \in Types => m.typeRefs[attr] > 0
  BY <1>2, <1>3, <1>4, RootFacts
<1>6. /\ heap' \in Heap /\ HeapInv(heap') /\ SameObjects(m, heap')
      /\ \A u \in Types : heap'.typeRefs[u] = IF attr = u THEN m.typeRefs[u] - 1 ELSE m.typeRefs[u]
  <2>1. PICK a \in Types \cup {Null} : a = attr
    BY <1>3
  <2>2. PICK g : g = heap'
    OBVIOUS
  <2>3. g = DecType(m, a) /\ (a \in Types => m.typeRefs[a] > 0)
    BY <1>2, <1>5, <2>2, <2>1 DEF DefineClass
  <2>4. ConstantsOK /\ m \in Heap /\ HeapInv(m) /\ a \in Types \cup {Null}
    BY <1>2, <2>1
  <2>5. /\ g \in Heap /\ HeapInv(g) /\ SameObjects(m, g)
        /\ \A u \in Types : g.typeRefs[u] = IF a = u THEN m.typeRefs[u] - 1 ELSE m.typeRefs[u]
    BY ONLY <2>3, <2>4, DropTypeFacts
  <2>6. QED
    BY <2>2, <2>1, <2>5
<1>7. ASSUME NEW u \in Types
      PROVE  heap'.typeRefs[u] + Roots(u) = heap.typeRefs[u] + Roots(u)'
  <2>1. heap.typeRefs[u] \in Int /\ u # Null
    BY <1>3 DEF ConstantsOK
  <2>2. heap'.typeRefs[u] = IF attr = u THEN m.typeRefs[u] - 1 ELSE m.typeRefs[u]
    BY <1>6
  <2>3. m.typeRefs[u] = IF u = t THEN 2 ELSE heap.typeRefs[u]
    BY ONLY <1>2, <1>3, t \in Types, u \in Types
  <2>4. QED
    BY ONLY <1>1, <1>4, <2>1, <2>2, <2>3 DEF Roots, One
<1>8. SameObjects(heap, heap')
  BY <1>2, <1>6 DEF SameObjects
<1>9. {attr', target', local'} \subseteq Types \cup {Null}
  BY <1>1, <1>3
<1>10. QED
  BY <1>1, <1>6, <1>7, <1>8, <1>9, RegistrationKeeps

LEMMA DefineClassFailsKeeps ==
  ASSUME ConstantsOK, CountInv, NEW t \in Types, DefineClassFails(t)
  PROVE  CountInv' /\ SameObjects(heap, heap')
<1>1. Unused(t) /\ UNCHANGED <<roots, py, cpp, frames, constructed>>
  BY DEF DefineClassFails
<1>2. PICK m \in Heap : /\ m = MadeType(t) /\ HeapInv(m) /\ SameObjects(heap, m)
                        /\ m.typeRefs = [heap.typeRefs EXCEPT ![t] = 2]
  BY <1>1, MadeFacts
<1>3. heap.typeRefs \in [Types -> Int] /\ heap.typeRefs[t] = 0 /\ t # Null
  BY <1>1, CountFacts DEF Heap, Unused, ConstantsOK
<1>4. PICK g \in Heap : /\ g = DecType(m, t) /\ HeapInv(g) /\ SameObjects(m, g)
                        /\ g.typeRefs = [m.typeRefs EXCEPT ![t] = @ - 1]
  <2>1. m.typeRefs[t] > 0
    BY <1>2, <1>3
  <2>2. QED
    BY <1>2, <1>3, <2>1, DecTypeFacts
<1>5. g.typeRefs = [heap.typeRefs EXCEPT ![t] = 1]
  BY <1>2, <1>3, <1>4
<1>6. PICK x \in Heap : /\ x = DecType(g, t) /\ HeapInv(x) /\ SameObjects(g, x)
                        /\ x.typeRefs = [g.typeRefs EXCEPT ![t] = @ - 1]
  <2>1. g.typeRefs[t] > 0
    BY <1>3, <1>5
  <2>2. g \in Heap /\ HeapInv(g) /\ t \in Types /\ t # Null
    BY <1>3, <1>4
  <2>3. QED
    BY ONLY <2>1, <2>2, DecTypeFacts
<1>7. heap' = x
  BY <1>2, <1>4, <1>6 DEF DefineClassFails
<1>8. x.typeRefs = heap.typeRefs
  BY <1>3, <1>5, <1>6
<1>9. SameObjects(heap, heap')
  BY <1>2, <1>4, <1>6, <1>7 DEF SameObjects
<1>10. \A u \in Types : heap'.typeRefs[u] + Roots(u) = heap.typeRefs[u] + Roots(u)'
  BY <1>1, <1>7, <1>8 DEF Roots, roots
<1>11. {attr', target', local'} \subseteq Types \cup {Null}
  BY <1>1, CountFacts DEF roots
<1>12. QED
  BY <1>1, <1>6, <1>7, <1>9, <1>10, <1>11, RegistrationKeeps

LEMMA DefineConstructorKeeps ==
  ASSUME ConstantsOK, CountInv, DefineConstructor
  PROVE  CountInv' /\ SameObjects(heap, heap')
<1>1. PICK t \in Types : t = local
  BY CountFacts DEF DefineConstructor
<1>2. heap \in Heap /\ HeapInv(heap) /\ heap.attrs[t] = {}
  BY <1>1, CountFacts DEF DefineConstructor
<1>3. PICK g : g = heap'
  OBVIOUS
<1>4. g = DefineAttribute(DefineAttribute(IncConstructor(MakeConstructor(heap, t), t),
                                          t, "__init__"), t, "__dynabridge_constructor__")
  BY <1>1, <1>3 DEF DefineConstructor
<1>5. g \in Heap /\ HeapInv(g) /\ SameObjects(heap, g) /\ g.typeRefs = heap.typeRefs
  BY <1>2, <1>4, ConstructorFacts
<1>6. UNCHANGED <<roots, py, cpp, frames, constructed>>
  BY DEF DefineConstructor
<1>7. \A u \in Types : heap'.typeRefs[u] + Roots(u) = heap.typeRefs[u] + Roots(u)'
  BY <1>3, <1>5, <1>6 DEF Roots, roots
<1>8. {attr', target', local'} \subseteq Types \cup {Null}
  BY <1>6, CountFacts DEF roots
<1>9. QED
  BY <1>3, <1>5, <1>6, <1>7, <1>8, RegistrationKeeps

\* The class_target_t of a registration, of the registry or of the module's attribute goes.
LEMMA RootDropped ==
  ASSUME ConstantsOK, CountInv, NEW h \in Heap, HeapInv(h), SameObjects(heap, h),
         h.typeRefs = heap.typeRefs, NEW t \in {attr, target, local}, heap' = DecType(h, t)
  PROVE  /\ heap' \in Heap /\ HeapInv(heap') /\ SameObjects(heap, heap')
         /\ \A u \in Types : /\ heap'.typeRefs[u] = IF t = u THEN heap.typeRefs[u] - 1
                                                    ELSE heap.typeRefs[u]
                             /\ heap.typeRefs[u] \in Int /\ u # Null
<1>1. t \in Types \cup {Null} /\ (t \in Types => h.typeRefs[t] > 0)
  BY CountFacts, RootFacts
<1>2. PICK g : g = heap'
  OBVIOUS
<1>3. g = DecType(h, t)
  BY <1>2
<1>4. /\ g \in Heap /\ HeapInv(g) /\ SameObjects(h, g)
      /\ \A u \in Types : g.typeRefs[u] = IF t = u THEN h.typeRefs[u] - 1 ELSE h.typeRefs[u]
  BY <1>1, <1>3, DropTypeFacts
<1>5. \A u \in Types : heap.typeRefs[u] \in Int /\ u # Null
  BY RootFacts DEF ConstantsOK
<1>6. SameObjects(heap, g)
  BY <1>4 DEF SameObjects
<1>7. QED
  BY <1>2, <1>4, <1>5, <1>6

LEMMA DefineConstructorFailsKeeps ==
  ASSUME ConstantsOK, CountInv, DefineConstructorFails
  PROVE  CountInv' /\ SameObjects(heap, heap')
<1>1. PICK t \in Types : t = local
  BY CountFacts DEF DefineConstructorFails
<1>2. heap \in Heap /\ HeapInv(heap) /\ heap.attrs[t] = {}
  BY <1>1, CountFacts DEF DefineConstructorFails
<1>3. PICK h : /\ heap' = DecType(h, t)
               /\ LET made == IncConstructor(MakeConstructor(heap, t), t) IN
                  h \in {DefineAttributeFails(DefineAttributeFails(made, t), t),
                         DefineAttributeFails(DefineAttribute(made, t, "__init__"), t)}
  BY <1>1 DEF DefineConstructorFails
<1>4. h \in Heap /\ HeapInv(h) /\ SameObjects(heap, h) /\ h.typeRefs = heap.typeRefs
  BY <1>2, <1>3, ConstructorFacts
<1>5. /\ heap' \in Heap /\ HeapInv(heap') /\ SameObjects(heap, heap')
      /\ \A u \in Types : /\ heap'.typeRefs[u] = IF t = u THEN heap.typeRefs[u] - 1
                                                 ELSE heap.typeRefs[u]
                          /\ heap.typeRefs[u] \in Int /\ u # Null
  BY <1>1, <1>3, <1>4, RootDropped
<1>6. local' = Null /\ UNCHANGED <<attr, target, py, cpp, frames, constructed>>
  BY DEF DefineConstructorFails
<1>7. \A u \in Types : heap'.typeRefs[u] + Roots(u) = heap.typeRefs[u] + Roots(u)'
  BY ONLY <1>1, <1>5, <1>6 DEF Roots, One
<1>8. {attr', target', local'} \subseteq Types \cup {Null}
  BY <1>6, CountFacts
<1>9. QED
  BY <1>5, <1>6, <1>7, <1>8, RegistrationKeeps

LEMMA StoreKeeps ==
  ASSUME ConstantsOK, CountInv, StoreClass \/ ForgetClass
  PROVE  CountInv' /\ SameObjects(heap, heap')
<1>1. PICK t \in {attr, target, local} :
        /\ heap' = DecType(heap, t) /\ UNCHANGED <<py, cpp, frames, constructed>>
        /\ \/ t = target /\ target' = local /\ local' = Null /\ attr' = attr
           \/ t = attr /\ attr' = Null /\ target' = target /\ local' = local
  BY DEF StoreClass, ForgetClass
<1>2. heap \in Heap /\ HeapInv(heap) /\ SameObjects(heap, heap)
  BY CountFacts DEF SameObjects
<1>3. /\ heap' \in Heap /\ HeapInv(heap') /\ SameObjects(heap, heap')
      /\ \A u \in Types : /\ heap'.typeRefs[u] = IF t = u THEN heap.typeRefs[u] - 1
                                                 ELSE heap.typeRefs[u]
                          /\ heap.typeRefs[u] \in Int /\ u # Null
  BY <1>1, <1>2, RootDropped
<1>4. \A u \in Types : heap'.typeRefs[u] + Roots(u) = heap.typeRefs[u] + Roots(u)'
  BY ONLY <1>1, <1>3 DEF Roots, One
<1>5. {attr', target', local'} \subseteq Types \cup {Null}
  BY <1>1, CountFacts
<1>6. QED
  BY <1>1, <1>3, <1>4, <1>5, RegistrationKeeps

-----------------------------------------------------------------------------
(* Reference counts and argument slots, in every behaviour.                *)

LEMMA InitCount == ASSUME ConstantsOK PROVE Init => CountInv
<1> SUFFICES ASSUME Init PROVE CountInv
  OBVIOUS
<1>1. heap \in Heap
  BY DEF Init, Heap
<1>2. /\ frames = <<>> /\ constructed = {} /\ attr = Null /\ target = Null /\ local = Null
      /\ py = [o \in Objects |-> 0] /\ cpp = [o \in Objects |-> 0]
  BY DEF Init
<1>3. TypeOK
  <2>1. frames \in Seq(Frame)
    BY <1>2, EmptySeq
  <2>2. QED
    BY <1>1, <1>2, <2>1 DEF TypeOK
<1>4. /\ \A t \in Types : /\ heap.typeRefs[t] = 0 /\ heap.attrs[t] = {}
                          /\ heap.ctorRefs[t] = 0 /\ heap.holders[t] = 0
      /\ \A o \in Objects : heap.rc[o] = 0 /\ heap.type[o] = Null /\ heap.native[o] = Null
      /\ heap.loans = 0 /\ heap.buffers = 0
  BY DEF Init
<1>5. Cardinality({}) = 0
  BY FS_EmptySet
<1>6. HeapInv(heap)
  <2>1. One(0 > 0) = 0
    BY DEF One
  <2>2. \A t \in Types : /\ heap.ctorRefs[t] = Cardinality(heap.attrs[t])
                         /\ heap.holders[t] = One(heap.ctorRefs[t] > 0)
    BY <1>4, <1>5, <2>1
  <2>3. QED
    BY <1>4, <2>2 DEF HeapInv
<1>7. /\ \A o \in Objects : SelfAt(frames, o) = {}
      /\ \A m \in Modes : ModeAt(frames, m) = {}
  <2>1. DOMAIN frames = {}
    BY <1>2, EmptySeq, LenProperties
  <2>2. QED
    BY <2>1 DEF SelfAt, ModeAt
<1>8. \A o \in Objects : heap.rc[o] = References(o)
  <2>1. \A o \in Objects : py[o] = 0 /\ cpp[o] = 0
    BY <1>2
  <2>2. \A o \in Objects : Cardinality(SelfAt(frames, o)) = 0
    BY <1>5, <1>7
  <2>3. QED
    BY ONLY <1>4, <2>1, <2>2 DEF References
<1>9. \A t \in Types : Spare(heap, t) = Roots(t)
  <2>1. \A t \in Types : t # Null /\ InstancesOf(heap, t) = {}
    BY <1>4 DEF InstancesOf, ConstantsOK
  <2>2. \A t \in Types : Spare(heap, t) = 0
    BY <1>4, <1>5, <2>1 DEF Spare
  <2>3. \A t \in Types : Roots(t) = 0
    BY <1>2, <2>1 DEF Roots, One
  <2>4. QED
    BY <2>2, <2>3
<1>10. /\ heap.loans = Cardinality(ModeAt(frames, "offset"))
       /\ heap.buffers = Cardinality(ModeAt(frames, "malloc"))
  BY <1>4, <1>5, <1>7 DEF Modes
<1>11. Agrees
  BY <1>3, <1>6, <1>8, <1>9, <1>10 DEF Agrees
<1>12. QED
  BY <1>11, CountAgrees

\* A registration step.
Registers ==
  \/ \E t \in Types : DefineClass(t) \/ DefineClassFails(t)
  \/ DefineConstructor \/ DefineConstructorFails \/ StoreClass \/ ForgetClass

LEMMA RegistersKeeps ==
  ASSUME ConstantsOK, CountInv, Registers
  PROVE  CountInv' /\ SameObjects(heap, heap') /\ UNCHANGED <<frames, constructed>>
<1>1. UNCHANGED <<frames, constructed>>
  BY DEF Registers, DefineClass, DefineClassFails, DefineConstructor,
         DefineConstructorFails, StoreClass, ForgetClass
<1>2. QED
  BY <1>1, DefineClassKeeps, DefineClassFailsKeeps, DefineConstructorKeeps,
     DefineConstructorFailsKeeps, StoreKeeps DEF Registers

\* Every step keeps the counts.
LEMMA CountStep == ASSUME ConstantsOK PROVE CountInv /\ [Next]_vars => CountInv'
<1> SUFFICES ASSUME CountInv, [Next]_vars PROVE CountInv'
  OBVIOUS
<1>1. CASE Registers
  BY <1>1, RegistersKeeps
<1>2. ASSUME NEW o \in Objects, NEW t \in Types, New(o, t) \/ VectorCallNoMemory(o, t)
      PROVE  CountInv'
  BY <1>2, NewKeeps
<1>3. ASSUME NEW o \in Objects,
             \/ \E t \in Types, mode \in Modes : VectorCall(o, t, mode)
             \/ CallInit(o) \/ MakeExportObject(o)
      PROVE  CountInv'
  BY <1>3, BeginsKeeps
<1>4. ASSUME NEW o \in Objects, Refer(o) \/ Release(o) \/ DefineInstance(o) \/ PythonDrops(o)
      PROVE  CountInv'
  BY <1>4, BetweenKeeps
<1>5. CASE Throw \/ \E n \in Natives : Begin(n)
  BY <1>5, RunKeeps
<1>6. CASE Constructed
  BY <1>6, ConstructedKeeps
<1>7. CASE Failed
  BY <1>7, FailedKeeps
<1>8. CASE UNCHANGED vars
  BY <1>8 DEF vars, CountInv, TypeOK, HeapInv, RefCountsExact, ArgumentsGivenBack
<1>9. QED
  BY <1>1, <1>2, <1>3, <1>4, <1>5, <1>6, <1>7, <1>8 DEF Next, Registers

LEMMA CountsKept == Spec => []CountInv
<1>1. Init => CountInv
  BY InitCount, ObjectsAssumption
<1>2. CountInv /\ [Next]_vars => CountInv'
  BY CountStep, ObjectsAssumption
<1>3. QED
  BY <1>1, <1>2, PTL DEF Spec

\* Every reference count of Python's objects, types and constructors is the number of
\* references that exist, whatever fails and however constructions nest, for any number
\* of classes, instances and nested constructions.
THEOREM CountsExact == Spec => []RefCountsExact
<1>1. CountInv => RefCountsExact
  BY DEF CountInv
<1>2. QED
  BY <1>1, CountsKept, PTL

\* A vectorcall that is over, with an instance or an error, has put back the caller's
\* argument slot and freed its array.
THEOREM ArgumentsReturned == Spec => []ArgumentsGivenBack
<1>1. CountInv => ArgumentsGivenBack
  BY DEF CountInv
<1>2. QED
  BY <1>1, CountsKept, PTL

-----------------------------------------------------------------------------
(* Natives, when Python does not call __init__ below a construction.        *)

\* What is held stays what was constructed, and so do the frames, when an object changes
\* as far as its references do.
LEMMA NativesStay ==
  ASSUME CountInv, NativeInv, UNCHANGED <<frames, constructed>>,
         \A n \in Natives : Held(heap', n) = Held(heap, n),
         \A o \in Objects : heap'.native[o] \in {heap.native[o], Null}
  PROVE  NativeInv'
<1>1. \A i \in 1..Len(frames) : frames[i].self \in Objects
  BY LenProperties DEF CountInv, TypeOK, Frame
<1>2. \A n \in Natives : Held(heap', n) = One(n \in constructed')
  BY DEF NativeInv
<1>3. \A i \in 1..Len(frames) : frames[i].at = "construct" =>
        heap'.native[frames[i].self] = Null /\ frames[i].native \notin constructed
  BY <1>1 DEF NativeInv
<1>4. QED
  BY <1>2, <1>3 DEF NativeInv

LEMMA ShiftStays ==
  ASSUME CountInv, NativeInv, UNCHANGED <<frames, constructed>>,
         NEW o \in Objects, NEW d \in Int, Shifts(heap, heap', o, d)
  PROVE  NativeInv'
<1>1. \A n \in Natives : Held(heap', n) = Held(heap, n)
  BY DEF Shifts
<1>2. \A p \in Objects : heap'.native[p] \in {heap.native[p], Null}
  BY DEF Shifts
<1>3. QED
  BY <1>1, <1>2, NativesStay

\* A registration touches no native.
LEMMA RegistersStays ==
  ASSUME ConstantsOK, CountInv, NativeInv, Registers
  PROVE  NativeInv'
<1>1. SameObjects(heap, heap') /\ UNCHANGED <<frames, constructed>>
  BY RegistersKeeps
<1>2. \A n \in Natives : Held(heap', n) = Held(heap, n)
  BY <1>1 DEF SameObjects, Held, StorageOf
<1>3. QED
  BY <1>1, <1>2, NativesStay DEF SameObjects

\* An instance that a construction begins with is in no other construction.
LEMMA BeginsAlone ==
  ASSUME ConstantsOK, ~Reenter, CountInv, NEW o \in Objects,
         \/ \E t \in Types, mode \in Modes : VectorCall(o, t, mode)
         \/ CallInit(o) \/ MakeExportObject(o)
  PROVE  /\ \A i \in 1..Len(frames) : frames[i].self # o
         /\ constructed' = constructed
<1>1. constructed' = constructed
  BY DEF VectorCall, CallInit, MakeExportObject
<1>2. DOMAIN frames = 1..Len(frames)
  BY LenProperties DEF CountInv, TypeOK
<1>3. CASE CallInit(o)
  BY <1>1, <1>2, <1>3 DEF CallInit, UnderConstruction
<1>4. CASE Fresh(o)
  <2>1. heap.rc[o] = 0
    BY <1>4 DEF CountInv, HeapInv, Fresh
  <2>2. Cardinality(SelfAt(frames, o)) = 0
    <3>1. /\ heap.rc[o] = py[o] + cpp[o] + Cardinality(SelfAt(frames, o))
          /\ py[o] \in Nat /\ cpp[o] \in Nat /\ Cardinality(SelfAt(frames, o)) \in Nat
      BY CountFacts DEF References
    <3>2. QED
      BY ONLY <2>1, <3>1
  <2>3. SelfAt(frames, o) = {}
    BY <2>2, CountFacts, FrameCounts, FS_EmptySet
  <2>4. QED
    BY <1>1, <1>2, <2>3 DEF SelfAt
<1>5. QED
  BY <1>3, <1>4 DEF VectorCall, MakeExportObject

LEMMA BeginsStays ==
  ASSUME ConstantsOK, ~Reenter, CountInv, NativeInv, NEW o \in Objects,
         \/ \E t \in Types, mode \in Modes : VectorCall(o, t, mode)
         \/ CallInit(o) \/ MakeExportObject(o)
  PROVE  NativeInv'
<1>1. /\ \A i \in 1..Len(frames) : frames[i].self # o
      /\ constructed' = constructed
  BY BeginsAlone
<1>2. PICK f \in Frame : frames' = Append(frames, f) /\ f.self = o /\ f.at # "construct"
  BY BeginsKeeps
<1>3. Shifts(heap, heap', o, 1)
  BY BeginsKeeps
<1>4. PICK r \in Seq(Frame), n \in Nat :
        /\ r = frames' /\ n = Len(frames) /\ Len(r) = n + 1 /\ r[n + 1] = f
        /\ \A i \in 1..n : r[i] = frames[i] /\ r[i] \in Frame
  <2>1. frames \in Seq(Frame)
    BY CountFacts
  <2>2. /\ Append(frames, f) \in Seq(Frame) /\ Len(Append(frames, f)) = Len(frames) + 1
        /\ \A i \in 1..Len(frames) : Append(frames, f)[i] = frames[i]
        /\ Append(frames, f)[Len(frames) + 1] = f
    BY <2>1, AppendProperties
  <2>3. Len(frames) \in Nat /\ \A i \in 1..Len(frames) : frames[i] \in Frame
    BY <2>1, LenProperties
  <2>4. QED
    BY <1>2, <2>2, <2>3
<1>5. \A i \in 1..n + 1 : i \in 1..n \/ i = n + 1
  OBVIOUS
<1>6. \A m \in Natives : Held(heap', m) = One(m \in constructed')
  BY <1>1, <1>3 DEF NativeInv, Shifts
<1>7. \A i \in 1..n + 1 : r[i].at = "construct" =>
        heap'.native[r[i].self] = Null /\ r[i].native \notin constructed'
  <2>1. SUFFICES ASSUME NEW i \in 1..n, r[i].at = "construct"
                 PROVE  heap'.native[r[i].self] = Null /\ r[i].native \notin constructed'
    BY <1>2, <1>4, <1>5
  <2>2. r[i].self \in Objects /\ r[i].self # o
    BY <1>1, <1>4 DEF Frame
  <2>3. heap.native[r[i].self] = Null /\ r[i].native \notin constructed
    BY <1>4, <2>1 DEF NativeInv
  <2>4. QED
    BY <1>1, <1>3, <2>2, <2>3 DEF Shifts
<1>8. \A i, j \in 1..n + 1 : i # j =>
        /\ r[i].self # r[j].self
        /\ r[i].at = "construct" /\ r[j].at = "construct" => r[i].native # r[j].native
  <2>1. \A i, j \in 1..n : i # j =>
          /\ r[i].self # r[j].self
          /\ r[i].at = "construct" /\ r[j].at = "construct" => r[i].native # r[j].native
    BY <1>4 DEF NativeInv
  <2>2. \A i \in 1..n : r[i].self # r[n + 1].self
    BY <1>1, <1>2, <1>4
  <2>3. r[n + 1].at # "construct"
    BY <1>2, <1>4
  <2>4. QED
    BY ONLY <1>5, <2>1, <2>2, <2>3
<1>9. QED
  BY <1>4, <1>6, <1>7, <1>8 DEF NativeInv

\* The native whose constructor starts is new, in storage that is empty; one whose
\* constructor throws is forgotten.
LEMMA RunStays ==
  ASSUME ConstantsOK, CountInv, NativeInv, Throw \/ \E n \in Natives : Begin(n)
  PROVE  NativeInv'
<1>1. frames # <<>> /\ UNCHANGED <<heap, constructed>>
  BY DEF Throw, Begin, In
<1>2. Top \in Frame /\ frames \in Seq(Frame)
  BY <1>1, RunningFacts, CountFacts
<1>3. PICK f \in Frame :
        /\ Goes(f) /\ f.self = Top.self /\ f.mode = Top.mode
        /\ f.at = "construct" => /\ heap.native[f.self] = Null /\ f.native \notin constructed
                                 /\ \A i \in 1..Len(frames) : frames[i].native # f.native
  <2> DEFINE Good(f) ==
        /\ Goes(f) /\ f.self = Top.self /\ f.mode = Top.mode
        /\ f.at = "construct" => /\ heap.native[f.self] = Null /\ f.native \notin constructed
                                 /\ \A i \in 1..Len(frames) : frames[i].native # f.native
  <2>1. ASSUME NEW n \in Natives, Begin(n) PROVE \E f \in Frame : Good(f)
    <3> DEFINE f == [Top EXCEPT !.at = "construct", !.native = n]
    <3>1. n # Null
      BY DEF ConstantsOK
    <3>2. f \in Frame /\ f.self = Top.self /\ f.mode = Top.mode /\ f.native = n
      BY ONLY <1>2, <3>1, n \in Natives DEF Frame
    <3>3. DOMAIN frames = 1..Len(frames)
      BY <1>2, LenProperties
    <3>4. /\ Goes(f) /\ heap.native[Top.self] = Null /\ n \notin constructed
          /\ \A i \in 1..Len(frames) : frames[i].native # n
      BY <2>1, <3>3 DEF Begin, Uninitialised
    <3> HIDE DEF f
    <3>5. Good(f)
      BY ONLY <3>2, <3>4
    <3> HIDE DEF Good
    <3>6. QED
      BY ONLY <3>2, <3>5
  <2>2. ASSUME Throw PROVE \E f \in Frame : Good(f)
    <3> DEFINE f == [Top EXCEPT !.at = "failed", !.native = Null]
    <3>1. f \in Frame /\ f.self = Top.self /\ f.mode = Top.mode /\ f.at # "construct"
      BY <1>2 DEF Frame
    <3>2. QED
      BY <2>2, <3>1 DEF Throw
  <2>3. QED
    BY <2>1, <2>2
<1>4. PICK r : r = frames'
  OBVIOUS
<1>5. PICK n \in Nat : r = frames' /\ n = Len(frames)
  BY <1>4, <1>2, LenProperties
<1>6. /\ Len(r) = n
      /\ \A i \in 1..n : r[i] = IF i = n THEN f ELSE frames[i]
  BY <1>1, <1>2, <1>3, <1>5, GoesFacts DEF Goes, Top
<1>7. \A i \in 1..n : r[i].self = frames[i].self
  BY <1>3, <1>5, <1>6 DEF Top
<1>8. \A m \in Natives : Held(heap', m) = One(m \in constructed')
  BY <1>1 DEF NativeInv
<1>9. \A i \in 1..n : r[i].at = "construct" =>
        heap'.native[r[i].self] = Null /\ r[i].native \notin constructed'
  BY <1>1, <1>3, <1>5, <1>6 DEF NativeInv
<1>10. \A i, j \in 1..n : i # j =>
        /\ r[i].self # r[j].self
        /\ r[i].at = "construct" /\ r[j].at = "construct" => r[i].native # r[j].native
  <2>1. \A i, j \in 1..n : i # j => r[i].self # r[j].self
    BY <1>5, <1>7 DEF NativeInv
  <2>2. \A i, j \in 1..n : i # j /\ r[i].at = "construct" /\ r[j].at = "construct" =>
          r[i].native # r[j].native
    BY <1>3, <1>5, <1>6 DEF NativeInv
  <2>3. QED
    BY <2>1, <2>2
<1>11. QED
  BY <1>5, <1>6, <1>8, <1>9, <1>10 DEF NativeInv

\* What is left of the frames when a construction is over.
LEMMA PopStays ==
  ASSUME ConstantsOK, CountInv, NativeInv, frames # <<>>, Pop,
         \A n \in Natives : Held(heap', n) = One(n \in constructed'),
         \A o \in Objects : o # Top.self => heap'.native[o] = heap.native[o],
         \A i \in 1..Len(frames) - 1 : frames[i].at = "construct" =>
           frames[i].native \notin constructed'
  PROVE  NativeInv'
<1>1. PICK r : r = frames'
  OBVIOUS
<1>2. PICK n \in Nat : r = frames' /\ Len(frames) = n
  BY <1>1, CountFacts, LenProperties
<1>3. /\ Len(r) = n - 1 /\ n \in Nat \ {0}
      /\ \A i \in 1..n - 1 : r[i] = frames[i]
  <2>1. r = SubSeq(frames, 1, Len(frames) - 1) /\ frames \in Seq(Frame)
    BY <1>2, CountFacts DEF Pop
  <2>2. QED
    BY <1>2, <2>1, PopFacts
<1>4. \A i \in 1..n - 1 : /\ i \in 1..n /\ i # n /\ n \in 1..n
                          /\ frames[i].self \in Objects /\ frames[i].self # Top.self
  <2>1. \A i \in 1..n - 1 : i \in 1..n /\ i # n /\ n \in 1..n
    BY <1>3
  <2>2. \A i \in 1..n : frames[i].self \in Objects
    BY <1>2, LenProperties DEF CountInv, TypeOK, Frame
  <2>3. \A i \in 1..n : i # n /\ n \in 1..n => frames[i].self # frames[n].self
    BY <1>2 DEF NativeInv
  <2>4. QED
    BY <1>2, <2>1, <2>2, <2>3 DEF Top
<1>5. \A i \in 1..n - 1 : r[i].at = "construct" =>
        heap'.native[r[i].self] = Null /\ r[i].native \notin constructed'
  BY <1>2, <1>3, <1>4 DEF NativeInv
<1>6. \A i, j \in 1..n - 1 : i # j =>
        /\ r[i].self # r[j].self
        /\ r[i].at = "construct" /\ r[j].at = "construct" => r[i].native # r[j].native
  BY <1>2, <1>3, <1>4 DEF NativeInv
<1>7. QED
  BY <1>2, <1>3, <1>5, <1>6 DEF NativeInv

LEMMA FailedStays ==
  ASSUME ConstantsOK, CountInv, NativeInv, Failed
  PROVE  NativeInv'
<1>1. frames # <<>> /\ Pop /\ constructed' = constructed
  BY DEF Failed, In
<1>2. Shifts(heap, heap', Top.self, -1)
  BY FailedKeeps
<1>3. /\ \A n \in Natives : Held(heap', n) = One(n \in constructed')
      /\ \A o \in Objects : o # Top.self => heap'.native[o] = heap.native[o]
  BY <1>1, <1>2 DEF NativeInv, Shifts
<1>4. \A i \in 1..Len(frames) - 1 : frames[i].at = "construct" =>
        frames[i].native \notin constructed'
  <2>1. Len(frames) \in Nat
    BY CountFacts, LenProperties
  <2>2. \A i \in 1..Len(frames) - 1 : i \in 1..Len(frames)
    BY <2>1
  <2>3. QED
    BY <1>1, <2>2 DEF NativeInv
<1>5. QED
  BY <1>1, <1>3, <1>4, PopStays

\* The native that is published was new, and its storage was empty.
LEMMA ConstructedStays ==
  ASSUME ConstantsOK, CountInv, NativeInv, Constructed
  PROVE  NativeInv'
<1>1. frames # <<>> /\ Top.at = "construct" /\ Pop /\ constructed' = constructed \cup {Top.native}
  BY DEF Constructed, In
<1>2. PICK k \in Nat : /\ k = Len(frames) /\ k \in 1..k /\ Top = frames[k]
                       /\ \A i \in 1..k - 1 : i \in 1..k /\ i # k
  <2>1. Len(frames) \in Nat /\ Len(frames) \in 1..Len(frames)
    BY <1>1, RunningFacts
  <2>2. QED
    BY <2>1 DEF Top
<1>3. PICK o \in Objects : o = Top.self /\ heap.rc[o] # 0
  <2>1. \A j \in Nat : j >= 1 => j # 0
    OBVIOUS
  <2>2. QED
    BY <1>1, <2>1, RunningFacts
<1>4. PICK n \in Natives : n = Top.native
  BY <1>1, RunningFacts DEF Frame
<1>5. heap.native[o] = Null /\ n \notin constructed
  BY <1>1, <1>2, <1>3, <1>4 DEF NativeInv
<1>6. PICK p \in Heap : p = [heap EXCEPT !.native[o] = n] /\ \E d \in Int : Shifts(p, heap', o, d)
  BY <1>3, <1>4, ConstructedKeeps
<1>7. /\ \A q \in Objects : q # o => p.native[q] = heap.native[q]
      /\ Held(p, n) = Held(heap, n) + 1
      /\ \A m \in Natives : m # n => Held(p, m) = Held(heap, m)
  <2>1. heap \in Heap /\ HeapInv(heap)
    BY CountFacts
  <2>2. QED
    BY <1>3, <1>5, <1>6, <2>1, PublishFacts
<1>8. /\ \A q \in Objects : q # Top.self => heap'.native[q] = heap.native[q]
      /\ \A m \in Natives : Held(heap', m) = Held(p, m)
  BY <1>3, <1>6, <1>7 DEF Shifts
<1>9. \A m \in Natives : Held(heap', m) = One(m \in constructed')
  <2>1. \A m \in Natives : Held(heap, m) = IF m \in constructed THEN 1 ELSE 0
    BY DEF NativeInv, One
  <2>2. \A m \in Natives : Held(heap', m) = IF m \in constructed' THEN 1 ELSE 0
    BY <1>1, <1>4, <1>5, <1>7, <1>8, <2>1
  <2>3. QED
    BY <2>2 DEF One
<1>10. \A i \in 1..Len(frames) - 1 : frames[i].at = "construct" =>
         frames[i].native \notin constructed'
  BY <1>1, <1>2 DEF NativeInv
<1>11. QED
  BY <1>1, <1>8, <1>9, <1>10, PopStays

LEMMA InitNative == ASSUME ConstantsOK PROVE Init => NativeInv
<1> SUFFICES ASSUME Init PROVE NativeInv
  OBVIOUS
<1>1. /\ \A n \in Natives : heap.destroyed[n] = 0
      /\ \A o \in Objects : heap.native[o] = Null
      /\ frames = <<>> /\ constructed = {}
  BY DEF Init
<1>2. \A n \in Natives : Held(heap, n) = 0
  <2>1. \A n \in Natives : StorageOf(heap, n) = {}
    BY <1>1 DEF StorageOf, ConstantsOK
  <2>2. Cardinality({}) = 0
    BY FS_EmptySet
  <2>3. QED
    BY <1>1, <2>1, <2>2 DEF Held
<1>3. \A n \in Natives : One(n \in constructed) = 0
  BY <1>1 DEF One
<1>4. Len(frames) = 0
  BY <1>1, EmptySeq
<1>5. QED
  BY <1>2, <1>3, <1>4 DEF NativeInv

LEMMA NativeStep ==
  ASSUME ConstantsOK, ~Reenter
  PROVE  CountInv /\ NativeInv /\ [Next]_vars => NativeInv'
<1> SUFFICES ASSUME CountInv, NativeInv, [Next]_vars PROVE NativeInv'
  OBVIOUS
<1>1. CASE Registers
  BY <1>1, RegistersStays
<1>2. ASSUME NEW o \in Objects, NEW t \in Types, New(o, t) \/ VectorCallNoMemory(o, t)
      PROVE  NativeInv'
  <2>1. UNCHANGED <<frames, constructed>>
    BY <1>2 DEF New, VectorCallNoMemory
  <2>2. PICK d \in Int : Shifts(heap, heap', o, d)
    BY <1>2, NewKeeps
  <2>3. QED
    BY <2>1, <2>2, ShiftStays
<1>3. ASSUME NEW o \in Objects,
             \/ \E t \in Types, mode \in Modes : VectorCall(o, t, mode)
             \/ CallInit(o) \/ MakeExportObject(o)
      PROVE  NativeInv'
  BY <1>3, BeginsStays
<1>4. ASSUME NEW o \in Objects, Refer(o) \/ Release(o) \/ DefineInstance(o) \/ PythonDrops(o)
      PROVE  NativeInv'
  <2>1. UNCHANGED <<frames, constructed>>
    BY <1>4 DEF Refer, Release, DefineInstance, PythonDrops
  <2>2. PICK d \in Int : Shifts(heap, heap', o, d)
    BY <1>4, BetweenKeeps
  <2>3. QED
    BY <2>1, <2>2, ShiftStays
<1>5. CASE Throw \/ \E n \in Natives : Begin(n)
  BY <1>5, RunStays
<1>6. CASE Constructed
  BY <1>6, ConstructedStays
<1>7. CASE Failed
  BY <1>7, FailedStays
<1>8. CASE UNCHANGED vars
  <2>1. \A n \in Natives : Held(heap', n) = Held(heap, n)
    BY <1>8 DEF vars
  <2>2. QED
    BY <1>8, <2>1, NativesStay DEF vars
<1>9. QED
  BY <1>1, <1>2, <1>3, <1>4, <1>5, <1>6, <1>7, <1>8 DEF Next, Registers

\* Unless Python calls __init__ of an instance that is being constructed: no constructor
\* runs on storage that holds a native or is being constructed, and what was
\* constructed is destroyed once, when its instance goes.
THEOREM NativesKeptBalanced == ASSUME ~Reenter PROVE Spec => []NativesBalanced
<1>1. Init => CountInv /\ NativeInv
  BY InitCount, InitNative, ObjectsAssumption
<1>2. CountInv /\ NativeInv /\ [Next]_vars => CountInv' /\ NativeInv'
  BY CountStep, NativeStep, ObjectsAssumption
<1>3. ASSUME CountInv, NativeInv PROVE NativesBalanced
  <2>1. DOMAIN frames = 1..Len(frames) /\ constructed \subseteq Natives
    BY <1>3, LenProperties DEF CountInv, TypeOK
  <2>2. ASSUME NEW n \in constructed
        PROVE  heap.destroyed[n] + Cardinality({o \in Objects : heap.native[o] = n}) = 1
    <3>1. Held(heap, n) = 1
      BY <1>3, <2>1 DEF NativeInv, One
    <3>2. QED
      BY <3>1 DEF Held, StorageOf
  <2>3. \A i, j \in DOMAIN frames :
          /\ frames[i].at = "construct" => heap.native[frames[i].self] = Null
          /\ i # j /\ frames[i].at = "construct" /\ frames[j].at = "construct" =>
               frames[i].self # frames[j].self
    BY <1>3, <2>1 DEF NativeInv
  <2>4. QED
    BY <2>2, <2>3 DEF NativesBalanced
<1>4. QED
  BY <1>1, <1>2, <1>3, PTL DEF Spec

-----------------------------------------------------------------------------
(* PythonCalls: arguments, references and the error of calls.              *)


\* A step of CallsNext outside the arguments of an imported call: those of the exported
\* callable's holders and its body.
ExportStep ==
  \/ TypedCall \/ OverloadCall \/ Converted \/ ConvertRejects \/ ConvertThrows
  \/ BodyThrows \/ BodyReturns \/ BodyHandles \/ Boundary \/ PythonContinues

\* The other steps: an imported call, from its start to the conversion of its result.
ImportStep ==
  \/ InvokeFree \/ InvokeMember \/ ConstructImport
  \/ \E i \in Arguments : Lower(i) \/ LowerThrows(i)
  \/ CallReturns \/ NoCallable \/ TupleFails \/ (\E e \in Errors : CallRaises(e))
  \/ CallEnds \/ CallUnwinds \/ CallFails
  \/ ResultConverted \/ ResultRejected

LEMMA StepCases == [CallsNext]_callsVars => ExportStep \/ ImportStep \/ UNCHANGED callsVars
  BY DEF CallsNext, ExportStep, ImportStep

-----------------------------------------------------------------------------
(* References.                                                              *)

LEMMA ReferenceExport == ReferenceInv /\ ExportStep => ReferenceInv'
<1> SUFFICES ASSUME ReferenceInv, ExportStep PROVE ReferenceInv'
  OBVIOUS
<1> USE CallsAssumption DEF ReferenceInv, InCall, NoDrops, Arguments, call, Refuse, Throws, Plain
<1>1. CASE TypedCall
  BY <1>1 DEF TypedCall
<1>2. CASE OverloadCall
  BY <1>2 DEF OverloadCall
<1>3. CASE Converted
  BY <1>3 DEF Converted
<1>4. CASE ConvertRejects
  BY <1>4 DEF ConvertRejects
<1>5. CASE ConvertThrows
  BY <1>5 DEF ConvertThrows
<1>6. CASE BodyThrows
  BY <1>6 DEF BodyThrows
<1>7. CASE BodyReturns
  BY <1>7 DEF BodyReturns
<1>8. CASE BodyHandles
  BY <1>8 DEF BodyHandles
<1>9. CASE Boundary
  BY <1>9 DEF Boundary
<1>10. CASE PythonContinues
  <2>1. refs' = {} /\ items' = {} /\ gained' = {} /\ drops' = NoDrops /\ args' = 0 /\ pc' = "python"
    BY <1>10 DEF PythonContinues
  <2>2. QED
    BY <2>1
<1>11. QED
  BY <1>1, <1>2, <1>3, <1>4, <1>5, <1>6, <1>7, <1>8, <1>9, <1>10 DEF ExportStep

\* A call starts with no references, and its arguments gain them one by one.
LEMMA ReferenceLower ==
  ASSUME ReferenceInv,
         \/ InvokeFree \/ InvokeMember \/ ConstructImport
         \/ \E i \in Arguments : Lower(i) \/ LowerThrows(i)
  PROVE  ReferenceInv'
<1> USE CallsAssumption DEF ReferenceInv, InCall, Plain
<1>1. ASSUME NEW k, Starts(k), args' \in 0..MaxArgs PROVE ReferenceInv'
  BY <1>1 DEF Starts, NoDrops, Arguments
<1>2. CASE InvokeFree \/ InvokeMember \/ ConstructImport
  <2>1. args' \in 0..MaxArgs /\ \E k \in {"free", "member", "constructor"} : Starts(k)
    BY <1>2 DEF InvokeFree, InvokeMember, ConstructImport
  <2>2. QED
    BY <1>1, <2>1
<1>3. ASSUME NEW i \in Arguments, Lower(i) PROVE ReferenceInv'
  <2>1. drops' = [j \in Arguments |-> IF j \in gained' \ (refs' \cup items') THEN 1 ELSE 0]
    BY <1>3 DEF Lower, Arguments
  <2>2. QED
    BY <1>3, <2>1 DEF Lower, Arguments
<1>4. ASSUME NEW i \in Arguments, LowerThrows(i) PROVE ReferenceInv'
  BY <1>4 DEF LowerThrows, call
<1>5. QED
  BY <1>2, <1>3, <1>4

\* decref_args drops what plain arguments hold and leaves the rest to their owners.
LEMMA DecrefKeeps ==
  ASSUME ReferenceInv, Lowered, DecrefArgs, args' = args, raw' = raw,
         pc' \in {"returns", "throws", "fails"}
  PROVE  ReferenceInv'
<1> USE CallsAssumption DEF ReferenceInv, InCall, Plain
<1>1. drops' = [i \in Arguments |-> IF i \in gained' \ (refs' \cup items') THEN 1 ELSE 0]
  BY DEF DecrefArgs, Dropped, Lowered, Arguments
<1>2. refs' \subseteq refs /\ items' = {} /\ gained' = gained /\ Plain' = {}
  BY DEF DecrefArgs, Lowered
<1>3. QED
  BY <1>1, <1>2

\* fill_tuple moves every reference from its argument to the tuple.
LEMMA FillKeeps ==
  ASSUME ReferenceInv, Lowered, FillTuple, args' = args, raw' = raw,
         pc' \in {"returns", "throws", "fails"}
  PROVE  ReferenceInv'
  BY CallsAssumption DEF ReferenceInv, InCall, Plain, FillTuple, Lowered

\* When the frames of a call end the tuple and the object_refs drop what is left, and
\* no reference is held by both.
LEMMA FrameDrops ==
  ASSUME ReferenceInv, FrameEnds, pc \in {"returns", "throws", "fails"},
         pc' \in {"result", "unwind"}
  PROVE  ReferenceInv'
<1> USE CallsAssumption DEF ReferenceInv, InCall
<1>1. Owned = refs /\ refs' = {} /\ items' = {} /\ gained' = gained
  BY DEF Owned, Plain, FrameEnds
<1>2. drops' = [i \in Arguments |-> IF i \in gained' \ (refs' \cup items') THEN 1 ELSE 0]
  BY <1>1 DEF FrameEnds, Arguments
<1>3. QED
  BY <1>1, <1>2 DEF FrameEnds, Plain

LEMMA ReferenceImport == ReferenceInv /\ ImportStep => ReferenceInv'
<1> SUFFICES ASSUME ReferenceInv, ImportStep PROVE ReferenceInv'
  OBVIOUS
<1>1. ASSUME Lowered, Passed, args' = args, raw' = raw, pc' \in {"returns", "throws"}
      PROVE  ReferenceInv'
  BY <1>1, DecrefKeeps, FillKeeps DEF Passed
<1>2. CASE CallReturns
  BY <1>1, <1>2 DEF CallReturns
<1>3. ASSUME NEW e \in Errors, CallRaises(e) PROVE ReferenceInv'
  BY <1>1, <1>3 DEF CallRaises
<1>4. CASE NoCallable \/ TupleFails
  BY <1>4, DecrefKeeps DEF NoCallable, TupleFails
<1>5. CASE CallEnds \/ CallUnwinds \/ CallFails
  BY <1>5, FrameDrops DEF CallEnds, CallUnwinds, CallFails, Throws
<1>6. CASE ResultConverted \/ ResultRejected
  BY <1>6 DEF ReferenceInv, InCall, Plain, ResultConverted, ResultRejected, call, Throws
<1>7. QED
  BY <1>2, <1>3, <1>4, <1>5, <1>6, ReferenceLower DEF ImportStep

-----------------------------------------------------------------------------
(* The error of a failed call.                                              *)

LEMMA RaisedStep == RaisedInv /\ [CallsNext]_callsVars => RaisedInv'
<1> SUFFICES ASSUME RaisedInv, [CallsNext]_callsVars PROVE RaisedInv'
  OBVIOUS
<1> USE CallsAssumption DEF RaisedInv, Refuse, Throws
<1>1. CASE TypedCall
  BY <1>1 DEF TypedCall
<1>2. CASE OverloadCall
  BY <1>2 DEF OverloadCall
<1>3. CASE Converted
  BY <1>3 DEF Converted
<1>4. CASE ConvertRejects
  BY <1>4 DEF ConvertRejects
<1>5. CASE ConvertThrows
  BY <1>5 DEF ConvertThrows
<1>6. CASE BodyThrows
  BY <1>6 DEF BodyThrows
<1>7. CASE BodyReturns
  BY <1>7 DEF BodyReturns
<1>8. CASE BodyHandles
  BY <1>8 DEF BodyHandles
<1>9. CASE Boundary
  BY <1>9 DEF Boundary, Reported
<1>10. CASE PythonContinues
  BY <1>10 DEF PythonContinues
<1>11. CASE InvokeFree \/ InvokeMember \/ ConstructImport
  BY <1>11 DEF InvokeFree, InvokeMember, ConstructImport, Starts
<1>12. ASSUME NEW i \in Arguments, Lower(i) \/ LowerThrows(i) PROVE RaisedInv'
  BY <1>12 DEF Lower, LowerThrows
<1>13. CASE CallReturns
  BY <1>13 DEF CallReturns, Lowered
<1>14. CASE NoCallable \/ TupleFails
  BY <1>14 DEF NoCallable, TupleFails, Lowered
<1>15. ASSUME NEW e \in Errors, CallRaises(e) PROVE RaisedInv'
  BY <1>15 DEF CallRaises, Capture, Lowered
<1>16. CASE CallEnds
  BY <1>16 DEF CallEnds
<1>17. CASE CallUnwinds
  BY <1>17 DEF CallUnwinds, Finalised
<1>18. CASE CallFails
  BY <1>18 DEF CallFails
<1>19. CASE ResultConverted \/ ResultRejected
  BY <1>19 DEF ResultConverted, ResultRejected
<1>20. CASE UNCHANGED callsVars
  BY <1>20 DEF callsVars
<1>21. QED
  BY <1>1, <1>2, <1>3, <1>4, <1>5, <1>6, <1>7, <1>8, <1>9, <1>10, <1>11, <1>12, <1>13,
     <1>14, <1>15, <1>16, <1>17, <1>18, <1>19, <1>20 DEF CallsNext

-----------------------------------------------------------------------------
(* The error indicator.                                                     *)

LEMMA ErrorStep ==
  ASSUME ~Swallows, ErrorInv, [CallsNext]_callsVars
  PROVE  ErrorInv'
<1> USE CallsAssumption DEF ErrorInv, NullIffError, Refuse, Throws, BackendErrors, Exceptions
<1>1. CASE TypedCall
  BY <1>1 DEF TypedCall
<1>2. CASE OverloadCall
  BY <1>2 DEF OverloadCall
<1>3. CASE Converted
  BY <1>3 DEF Converted
<1>4. CASE ConvertRejects
  BY <1>4 DEF ConvertRejects, ClearedConversion
<1>5. CASE ConvertThrows
  BY <1>5 DEF ConvertThrows
<1>6. CASE BodyThrows
  BY <1>6 DEF BodyThrows
<1>7. CASE BodyReturns
  BY <1>7 DEF BodyReturns
<1>8. CASE BodyHandles
  BY <1>8 DEF BodyHandles
<1>9. CASE Boundary
  BY <1>9 DEF Boundary, Reported
<1>10. CASE PythonContinues
  BY <1>10 DEF PythonContinues
<1>11. CASE InvokeFree \/ InvokeMember \/ ConstructImport
  BY <1>11 DEF InvokeFree, InvokeMember, ConstructImport, Starts
<1>12. ASSUME NEW i \in Arguments, Lower(i) \/ LowerThrows(i) PROVE ErrorInv'
  BY <1>12 DEF Lower, LowerThrows
<1>13. CASE CallReturns
  BY <1>13 DEF CallReturns, Lowered
<1>14. CASE NoCallable \/ TupleFails
  BY <1>14 DEF NoCallable, TupleFails, Lowered
<1>15. ASSUME NEW e \in Errors, CallRaises(e) PROVE ErrorInv'
  BY <1>15 DEF CallRaises, Capture, Lowered
<1>16. CASE CallEnds
  BY <1>16 DEF CallEnds
<1>17. CASE CallUnwinds
  BY <1>17 DEF CallUnwinds
<1>18. CASE CallFails
  BY <1>18 DEF CallFails, Finalised
<1>19. CASE ResultConverted \/ ResultRejected
  BY <1>19 DEF ResultConverted, ResultRejected, ClearedConversion
<1>20. CASE UNCHANGED callsVars
  BY <1>20 DEF callsVars
<1>21. QED
  BY <1>1, <1>2, <1>3, <1>4, <1>5, <1>6, <1>7, <1>8, <1>9, <1>10, <1>11, <1>12, <1>13,
     <1>14, <1>15, <1>16, <1>17, <1>18, <1>19, <1>20 DEF CallsNext

-----------------------------------------------------------------------------
(* Theorems.                                                                *)

\* An exported callable returns null exactly when an error is pending, if its body lets
\* the exception of an argument that cannot be converted pass.
THEOREM CallingProtocol == ASSUME ~Swallows PROVE CallsSpec => []NullIffError
<1>1. CallsInit => ErrorInv
  BY DEF CallsInit, ErrorInv, NullIffError
<1>2. ErrorInv /\ [CallsNext]_callsVars => ErrorInv'
  BY ErrorStep
<1>3. ErrorInv => NullIffError
  BY DEF ErrorInv
<1>4. QED
  BY <1>1, <1>2, <1>3, PTL DEF CallsSpec

\* Python gets back the exception its own code raised in a failed imported call,
\* whatever the finalisers of the call's arguments did.
THEOREM ErrorsSurvive == CallsSpec => []OriginalErrorSurvives
<1>1. CallsInit => RaisedInv
  BY CallsAssumption DEF CallsInit, RaisedInv
<1>2. RaisedInv => OriginalErrorSurvives
  BY CallsAssumption DEF RaisedInv, OriginalErrorSurvives, Exceptions
<1>3. QED
  BY <1>1, <1>2, RaisedStep, PTL DEF CallsSpec

\* Every reference an argument got is dropped exactly once, on every path of a call, by
\* whichever of decref_args, the argument tuple and the object_ref holds it.
THEOREM ReferencesBalance == CallsSpec => []ReferencesDroppedOnce
<1>1. CallsInit => ReferenceInv
  <2>1. CallsInit => drops = [i \in Arguments |-> IF i \in gained \ (refs \cup items) THEN 1 ELSE 0]
    BY DEF CallsInit, NoDrops
  <2>2. QED
    BY <2>1, CallsAssumption DEF CallsInit, ReferenceInv, InCall, Plain
<1>2. ReferenceInv /\ [CallsNext]_callsVars => ReferenceInv'
  <2>1. ReferenceInv /\ UNCHANGED callsVars => ReferenceInv'
    BY DEF ReferenceInv, InCall, Plain, callsVars, call
  <2>2. QED
    BY <2>1, StepCases, ReferenceExport, ReferenceImport
<1>3. ReferenceInv => ReferencesDroppedOnce
  BY DEF ReferenceInv, ReferencesDroppedOnce
<1>4. QED
  BY <1>1, <1>2, <1>3, PTL DEF CallsSpec
=============================================================================
