----------------------------- MODULE NapiProofs -----------------------------
(***************************************************************************)
(* Proofs about the three parts of the Node-API backend, for any sets of    *)
(* objects, natives, functions, contexts and errors: each native has one    *)
(* owner at a time, each constructor reference one hook that releases it,   *)
(* and each import context one frame that uses it.                          *)
(***************************************************************************)
EXTENDS MCNapi, Sequences, SequenceTheorems, TLAPS

-----------------------------------------------------------------------------
(* NapiObjects, in an environment whose calls do not fail inside a handoff. *)


\* Initially nothing exists.
LEMMA InitIInv == Init => IInv
  BY NapiAssumption DEF NapiAssumption, Init, IInv, TypeOK, WrapperInv, FrameInv, DeleteInv, Owner

\* Every step keeps the types; a handoff ends with its operation.
LEMMA TypeStep == ~HandoffMayFail /\ IInv /\ [Next]_vars => TypeOK'
<1> SUFFICES ASSUME ~HandoffMayFail, IInv, [Next]_vars PROVE TypeOK'
  OBVIOUS
<1> USE NapiAssumption DEF NapiAssumption, Delete, Idle, FromJs, MayFail, Leave, FirstStep,
           Throw, TakenOver, Finalizer, heap, frame, IInv, TypeOK,
           WrapperInv, FrameInv, Unwrapped
<1>1. ASSUME NEW o \in Objects, NEW n \in Natives, JsConstruct(o, n) PROVE TypeOK'
  BY <1>1 DEF JsConstruct
<1>2. ASSUME NEW n \in Natives, MakeExportObject(n) PROVE TypeOK'
  BY <1>2 DEF MakeExportObject
<1>3. CASE ExternalFails
  BY <1>3 DEF ExternalFails
<1>4. CASE ConstructorFails
  BY <1>4 DEF ConstructorFails
<1>5. CASE NewInstanceFails
  BY <1>5 DEF NewInstanceFails
<1>6. ASSUME NEW o \in Objects, NewInstance(o) PROVE TypeOK'
  BY <1>6 DEF NewInstance
<1>7. CASE TagObject
  BY <1>7 DEF TagObject
<1>8. CASE TagFails
  BY <1>8 DEF TagFails
<1>9. CASE WrapObject
  BY <1>9 DEF WrapObject
<1>10. CASE WrapFails
  BY <1>10 DEF WrapFails
<1>11. CASE Constructed
  BY <1>11 DEF Constructed
<1>12. CASE ReferenceFails
  BY <1>12 DEF ReferenceFails
<1>13. CASE Failed
  BY <1>13 DEF Failed
<1>14. CASE Returned
  BY <1>14 DEF Returned
<1>15. ASSUME NEW o \in Objects, Refer(o) PROVE TypeOK'
  BY <1>15 DEF Refer
<1>16. ASSUME NEW o \in Objects, Release(o) PROVE TypeOK'
  BY <1>16 DEF Release
<1>17. ASSUME NEW o \in Objects, HandToJs(o) PROVE TypeOK'
  BY <1>17 DEF HandToJs
<1>18. ASSUME NEW o \in Objects, JsForgets(o) PROVE TypeOK'
  BY <1>18 DEF JsForgets
<1>19. ASSUME NEW o \in Objects, Collect(o) PROVE TypeOK'
  BY <1>19 DEF Collect
<1>20. CASE ShutDown
  BY <1>20 DEF ShutDown
<1>21. CASE Closed
  BY <1>21 DEF Closed
<1>22. CASE Finished
  BY <1>22 DEF Finished, vars
<1>23. CASE UNCHANGED vars
  BY <1>23 DEF vars
<1>24. QED
  BY <1>1, <1>2, <1>3, <1>4, <1>5, <1>6, <1>7, <1>8, <1>9, <1>10, <1>11, <1>12,
     <1>13, <1>14, <1>15, <1>16, <1>17, <1>18, <1>19, <1>20, <1>21, <1>22,
     <1>23
  DEF Next, Construction

\* Every step keeps the wrappers apart and their natives live.
LEMMA WrapperStep == ~HandoffMayFail /\ IInv /\ [Next]_vars => WrapperInv'
<1> SUFFICES ASSUME ~HandoffMayFail, IInv, [Next]_vars PROVE WrapperInv'
  OBVIOUS
<1> USE NapiAssumption DEF NapiAssumption, Delete, Idle, FromJs, MayFail, Leave, FirstStep,
           Throw, TakenOver, Finalizer, heap, frame, IInv, TypeOK,
           WrapperInv, FrameInv, DeleteInv, Unwrapped
<1>1. ASSUME NEW o \in Objects, NEW n \in Natives, JsConstruct(o, n) PROVE WrapperInv'
  BY <1>1 DEF JsConstruct
<1>2. ASSUME NEW n \in Natives, MakeExportObject(n) PROVE WrapperInv'
  BY <1>2 DEF MakeExportObject
<1>3. CASE ExternalFails
  BY <1>3 DEF ExternalFails
<1>4. CASE ConstructorFails
  BY <1>4 DEF ConstructorFails
<1>5. CASE NewInstanceFails
  BY <1>5 DEF NewInstanceFails
<1>6. ASSUME NEW o \in Objects, NewInstance(o) PROVE WrapperInv'
  BY <1>6 DEF NewInstance
<1>7. CASE TagObject
  BY <1>7 DEF TagObject
<1>8. CASE TagFails
  BY <1>8 DEF TagFails
<1>9. CASE WrapObject
  BY <1>9 DEF WrapObject
<1>10. CASE WrapFails
  BY <1>10 DEF WrapFails
<1>11. CASE Constructed
  BY <1>11 DEF Constructed
<1>12. CASE ReferenceFails
  BY <1>12 DEF ReferenceFails
<1>13. CASE Failed
  BY <1>13 DEF Failed
<1>14. CASE Returned
  BY <1>14 DEF Returned
<1>15. ASSUME NEW o \in Objects, Refer(o) PROVE WrapperInv'
  BY <1>15 DEF Refer
<1>16. ASSUME NEW o \in Objects, Release(o) PROVE WrapperInv'
  BY <1>16 DEF Release
<1>17. ASSUME NEW o \in Objects, HandToJs(o) PROVE WrapperInv'
  BY <1>17 DEF HandToJs
<1>18. ASSUME NEW o \in Objects, JsForgets(o) PROVE WrapperInv'
  BY <1>18 DEF JsForgets
<1>19. ASSUME NEW o \in Objects, Collect(o) PROVE WrapperInv'
  BY <1>19 DEF Collect
<1>20. CASE ShutDown
  BY <1>20 DEF ShutDown
<1>21. CASE Closed
  BY <1>21 DEF Closed
<1>22. CASE Finished
  BY <1>22 DEF Finished, vars
<1>23. CASE UNCHANGED vars
  BY <1>23 DEF vars
<1>24. QED
  BY <1>1, <1>2, <1>3, <1>4, <1>5, <1>6, <1>7, <1>8, <1>9, <1>10, <1>11, <1>12,
     <1>13, <1>14, <1>15, <1>16, <1>17, <1>18, <1>19, <1>20, <1>21, <1>22,
     <1>23
  DEF Next, Construction

\* Every step passes the native under construction on to one owner.
LEMMA FrameStep == ~HandoffMayFail /\ IInv /\ [Next]_vars => FrameInv'
<1> SUFFICES ASSUME ~HandoffMayFail, IInv, [Next]_vars PROVE FrameInv'
  OBVIOUS
<1> USE NapiAssumption DEF NapiAssumption, Delete, Idle, FromJs, MayFail, Leave, FirstStep,
           Throw, TakenOver, Finalizer, heap, frame, IInv, TypeOK,
           WrapperInv, FrameInv, DeleteInv, Unwrapped
<1>1. ASSUME NEW o \in Objects, NEW n \in Natives, JsConstruct(o, n) PROVE FrameInv'
  BY <1>1 DEF JsConstruct
<1>2. ASSUME NEW n \in Natives, MakeExportObject(n) PROVE FrameInv'
  BY <1>2 DEF MakeExportObject
<1>3. CASE ExternalFails
  BY <1>3 DEF ExternalFails
<1>4. CASE ConstructorFails
  BY <1>4 DEF ConstructorFails
<1>5. CASE NewInstanceFails
  BY <1>5 DEF NewInstanceFails
<1>6. ASSUME NEW o \in Objects, NewInstance(o) PROVE FrameInv'
  BY <1>6 DEF NewInstance
<1>7. CASE TagObject
  BY <1>7 DEF TagObject
<1>8. CASE TagFails
  BY <1>8 DEF TagFails
<1>9. CASE WrapObject
  BY <1>9 DEF WrapObject
<1>10. CASE WrapFails
  BY <1>10 DEF WrapFails
<1>11. CASE Constructed
  BY <1>11 DEF Constructed
<1>12. CASE ReferenceFails
  BY <1>12 DEF ReferenceFails
<1>13. CASE Failed
  BY <1>13 DEF Failed
<1>14. CASE Returned
  BY <1>14 DEF Returned
<1>15. ASSUME NEW o \in Objects, Refer(o) PROVE FrameInv'
  BY <1>15 DEF Refer
<1>16. ASSUME NEW o \in Objects, Release(o) PROVE FrameInv'
  BY <1>16 DEF Release
<1>17. ASSUME NEW o \in Objects, HandToJs(o) PROVE FrameInv'
  BY <1>17 DEF HandToJs
<1>18. ASSUME NEW o \in Objects, JsForgets(o) PROVE FrameInv'
  BY <1>18 DEF JsForgets
<1>19. ASSUME NEW o \in Objects, Collect(o) PROVE FrameInv'
  BY <1>19 DEF Collect
<1>20. CASE ShutDown
  BY <1>20 DEF ShutDown
<1>21. CASE Closed
  BY <1>21 DEF Closed
<1>22. CASE Finished
  BY <1>22 DEF Finished, vars
<1>23. CASE UNCHANGED vars
  BY <1>23 DEF vars
<1>24. QED
  BY <1>1, <1>2, <1>3, <1>4, <1>5, <1>6, <1>7, <1>8, <1>9, <1>10, <1>11, <1>12,
     <1>13, <1>14, <1>15, <1>16, <1>17, <1>18, <1>19, <1>20, <1>21, <1>22,
     <1>23
  DEF Next, Construction

\* Every step leaves a live native with an owner and deletes it once.
LEMMA DeleteStep == ~HandoffMayFail /\ IInv /\ [Next]_vars => DeleteInv'
<1> SUFFICES ASSUME ~HandoffMayFail, IInv, [Next]_vars PROVE DeleteInv'
  OBVIOUS
<1> USE NapiAssumption DEF NapiAssumption, Delete, Idle, FromJs, MayFail, Leave, FirstStep,
           Throw, TakenOver, Finalizer, heap, frame, IInv, TypeOK,
           WrapperInv, FrameInv, DeleteInv, Unwrapped, Owner
<1>1. ASSUME NEW o \in Objects, NEW n \in Natives, JsConstruct(o, n) PROVE DeleteInv'
  BY <1>1 DEF JsConstruct
<1>2. ASSUME NEW n \in Natives, MakeExportObject(n) PROVE DeleteInv'
  BY <1>2 DEF MakeExportObject
<1>3. CASE ExternalFails
  BY <1>3 DEF ExternalFails
<1>4. CASE ConstructorFails
  BY <1>4 DEF ConstructorFails
<1>5. CASE NewInstanceFails
  BY <1>5 DEF NewInstanceFails
<1>6. ASSUME NEW o \in Objects, NewInstance(o) PROVE DeleteInv'
  BY <1>6 DEF NewInstance
<1>7. CASE TagObject
  BY <1>7 DEF TagObject
<1>8. CASE TagFails
  BY <1>8 DEF TagFails
<1>9. CASE WrapObject
  BY <1>9 DEF WrapObject
<1>10. CASE WrapFails
  BY <1>10 DEF WrapFails
<1>11. CASE Constructed
  BY <1>11 DEF Constructed
<1>12. CASE ReferenceFails
  BY <1>12 DEF ReferenceFails
<1>13. CASE Failed
  BY <1>13 DEF Failed
<1>14. CASE Returned
  BY <1>14 DEF Returned
<1>15. ASSUME NEW o \in Objects, Refer(o) PROVE DeleteInv'
  BY <1>15 DEF Refer
<1>16. ASSUME NEW o \in Objects, Release(o) PROVE DeleteInv'
  BY <1>16 DEF Release
<1>17. ASSUME NEW o \in Objects, HandToJs(o) PROVE DeleteInv'
  BY <1>17 DEF HandToJs
<1>18. ASSUME NEW o \in Objects, JsForgets(o) PROVE DeleteInv'
  BY <1>18 DEF JsForgets
<1>19. ASSUME NEW o \in Objects, Collect(o) PROVE DeleteInv'
  BY <1>19 DEF Collect
<1>20. CASE ShutDown
  BY <1>20 DEF ShutDown
<1>21. CASE Closed
  BY <1>21 DEF Closed
<1>22. CASE Finished
  BY <1>22 DEF Finished, vars
<1>23. CASE UNCHANGED vars
  BY <1>23 DEF vars
<1>24. QED
  BY <1>1, <1>2, <1>3, <1>4, <1>5, <1>6, <1>7, <1>8, <1>9, <1>10, <1>11, <1>12,
     <1>13, <1>14, <1>15, <1>16, <1>17, <1>18, <1>19, <1>20, <1>21, <1>22,
     <1>23
  DEF Next, Construction

\* The invariant holds in every reachable state.
THEOREM Invariance == ASSUME ~HandoffMayFail PROVE Spec => []IInv
<1>1. Init => IInv
  BY InitIInv
<1>2. IInv /\ [Next]_vars => IInv'
  BY TypeStep, WrapperStep, FrameStep, DeleteStep DEF IInv
<1>3. QED
  BY <1>1, <1>2, PTL DEF Spec

\* Whatever the collector, failing constructions and the shutdown do, no native is
\* deleted twice and no callback sees a deleted one (construct_export_object_from_native,
\* make_export_object_impl, native_finalizer).
THEOREM DeletedOnce ==
  ASSUME ~HandoffMayFail PROVE Spec => []NativeDeletedOnce
<1>1. IInv => \A n \in Natives : deletes[n] <= 1
  BY DEF IInv, DeleteInv
<1>2. IInv => \A o \in alive : Bound(o) # None => deletes[Bound(o)] = 0
  BY DEF IInv, TypeOK, WrapperInv, Bound
<1>3. IInv => NativeDeletedOnce
  BY <1>1, <1>2 DEF NativeDeletedOnce
<1>4. QED
  BY <1>3, Invariance, PTL

\* When no construction is in progress, the live natives are those an object wraps and
\* those make_export_object_impl dropped because target.constructor() threw: every other
\* error path of a construction leaves its native deleted or with a finaliser.
THEOREM NoNativeLeaks == ASSUME ~HandoffMayFail PROVE Spec => []NothingLeaks
<1>1. ASSUME IInv, pc = "js", NEW n \in born, deletes[n] = 0
      PROVE  n \in abandoned \/ \E o \in alive : wrapped[o] = n
  BY <1>1, NapiAssumption DEF NapiAssumption, IInv, TypeOK, DeleteInv, Owner
<1>2. ASSUME IInv, NEW n \in born, n \in abandoned \/ \E o \in alive : wrapped[o] = n
      PROVE  deletes[n] = 0
  BY <1>2, NapiAssumption DEF NapiAssumption, IInv, TypeOK, WrapperInv, DeleteInv
<1>3. IInv => NothingLeaks
  BY <1>1, <1>2 DEF NothingLeaks
<1>4. QED
  BY <1>3, Invariance, PTL

-----------------------------------------------------------------------------
(* Sequences: what appending, and taking one element out, do to the elements *)
(* of a sequence and to its being without repetitions.                      *)

\* An element is added at the end.
LEMMA AppendFacts ==
  ASSUME NEW S, NEW s \in Seq(S), NEW e \in S
  PROVE  /\ Append(s, e) \in Seq(S)
         /\ Classes!Range(Append(s, e)) = Classes!Range(s) \cup {e}
         /\ Classes!IsInjective(s) /\ e \notin Classes!Range(s)
              => Classes!IsInjective(Append(s, e))
<1>1. /\ Len(s) \in Nat /\ Len(Append(s, e)) = Len(s) + 1
      /\ Append(s, e) \in Seq(S)
      /\ Append(s, e)[Len(s) + 1] = e
      /\ \A k \in 1..Len(s) : Append(s, e)[k] = s[k]
  OBVIOUS
<1>2. \A k \in 1..Len(Append(s, e)) : k \in 1..Len(s) \/ k = Len(s) + 1
  BY <1>1
<1>3. DOMAIN s = 1..Len(s) /\ DOMAIN Append(s, e) = 1..Len(s) + 1
  BY <1>1, LenProperties
<1>4. \A x : x \in Classes!Range(Append(s, e)) <=> x \in Classes!Range(s) \cup {e}
  BY <1>1, <1>2, <1>3 DEF Classes!Range
<1>5. ASSUME Classes!IsInjective(s), e \notin Classes!Range(s)
      PROVE  Classes!IsInjective(Append(s, e))
  <2>1. \A k \in 1..Len(s) : s[k] # e
    BY <1>3, <1>5 DEF Classes!Range
  <2>2. \A a, b \in 1..Len(s) : s[a] = s[b] => a = b
    BY <1>3, <1>5 DEF Classes!IsInjective
  <2>3. QED
    BY <1>1, <1>2, <1>3, <2>1, <2>2 DEF Classes!IsInjective
<1>6. QED
  BY <1>1, <1>4, <1>5

\* A sequence that lacks one place of another: the k-th element comes from the k-th
\* place before the gap, and from the next one after it.
Lacks(s, i, t) ==
  /\ Len(t) = Len(s) - 1
  /\ \A k \in 1..Len(s) - 1 : t[k] = IF k < i THEN s[k] ELSE s[k + 1]

\* Without that place, its element is gone and the others are there, once each.
LEMMA GapFacts ==
  ASSUME NEW S, NEW s \in Seq(S), NEW i \in 1..Len(s), NEW t \in Seq(S),
         Lacks(s, i, t), Classes!IsInjective(s)
  PROVE  /\ Classes!IsInjective(t)
         /\ Classes!Range(t) = Classes!Range(s) \ {s[i]}
<1>1. /\ Len(s) \in Nat \ {0} /\ DOMAIN s = 1..Len(s) /\ DOMAIN t = 1..Len(s) - 1
  BY LenProperties DEF Lacks
<1>2. \A a, b \in 1..Len(s) : s[a] = s[b] => a = b
  BY <1>1 DEF Classes!IsInjective
<1> DEFINE From(k) == IF k < i THEN k ELSE k + 1
<1>3. \A k \in 1..Len(s) - 1 : From(k) \in 1..Len(s) /\ From(k) # i /\ t[k] = s[From(k)]
  BY <1>1 DEF Lacks
<1>4. \A a, b \in 1..Len(s) - 1 : From(a) = From(b) => a = b
  BY <1>1
<1>5. \A h \in 1..Len(s) : h # i => \E k \in 1..Len(s) - 1 : From(k) = h
  <2> SUFFICES ASSUME NEW h \in 1..Len(s), h # i PROVE \E k \in 1..Len(s) - 1 : From(k) = h
    OBVIOUS
  <2>1. CASE h < i
    <3>1. h \in 1..Len(s) - 1 /\ From(h) = h
      BY <1>1, <2>1
    <3>2. QED
      BY <3>1
  <2>2. CASE h > i
    <3>1. h - 1 \in 1..Len(s) - 1 /\ From(h - 1) = h
      BY <1>1, <2>2
    <3>2. QED
      BY <3>1
  <2>3. QED
    BY <1>1, <2>1, <2>2
<1> HIDE DEF From
<1>6. Classes!IsInjective(t)
  BY <1>1, <1>2, <1>3, <1>4 DEF Classes!IsInjective
<1>7. \A x : x \in Classes!Range(t) => x \in Classes!Range(s) /\ x # s[i]
  BY <1>1, <1>2, <1>3 DEF Classes!Range
<1>8. \A x : x \in Classes!Range(s) /\ x # s[i] => x \in Classes!Range(t)
  <2> SUFFICES ASSUME NEW x \in Classes!Range(s), x # s[i] PROVE x \in Classes!Range(t)
    OBVIOUS
  <2>1. PICK h \in 1..Len(s) : s[h] = x
    BY <1>1 DEF Classes!Range
  <2>2. PICK k \in 1..Len(s) - 1 : From(k) = h
    BY <1>5, <2>1
  <2>3. t[k] = x
    BY <1>3, <2>1, <2>2
  <2>4. QED
    BY <1>1, <2>3 DEF Classes!Range
<1>9. QED
  BY <1>6, <1>7, <1>8

\* The last element is taken out.
LEMMA FrontFacts ==
  ASSUME NEW S, NEW s \in Seq(S), s # <<>>
  PROVE  /\ SubSeq(s, 1, Len(s) - 1) \in Seq(S)
         /\ Len(s) \in Nat \ {0} /\ s[Len(s)] \in S
         /\ Len(SubSeq(s, 1, Len(s) - 1)) = Len(s) - 1
         /\ \A k \in 1..Len(s) - 1 : SubSeq(s, 1, Len(s) - 1)[k] = s[k]
         /\ s[Len(s)] \in Classes!Range(s)
         /\ Classes!IsInjective(s) =>
              /\ Classes!IsInjective(SubSeq(s, 1, Len(s) - 1))
              /\ Classes!Range(SubSeq(s, 1, Len(s) - 1)) = Classes!Range(s) \ {s[Len(s)]}
<1>1. Len(s) \in Nat \ {0} /\ Len(s) \in 1..Len(s)
  BY EmptySeq
<1>2. PICK n \in Int : n = Len(s) - 1
  BY <1>1
<1>3. \A k \in 1..n : s[k] \in S
  BY <1>1, <1>2, LenProperties
<1>4. /\ SubSeq(s, 1, n) \in Seq(S)
      /\ Len(SubSeq(s, 1, n)) = (IF 1 <= n THEN n - 1 + 1 ELSE 0)
      /\ \A k \in 1..n - 1 + 1 : SubSeq(s, 1, n)[k] = s[1 + k - 1]
  BY <1>3, SubSeqProperties
<1>5. Len(SubSeq(s, 1, n)) = n /\ \A k \in 1..n : SubSeq(s, 1, n)[k] = s[k]
  BY <1>1, <1>2, <1>4
<1>6. s[Len(s)] \in S /\ s[Len(s)] \in Classes!Range(s)
  BY <1>1, LenProperties DEF Classes!Range
<1>7. ASSUME Classes!IsInjective(s)
      PROVE  /\ Classes!IsInjective(SubSeq(s, 1, n))
             /\ Classes!Range(SubSeq(s, 1, n)) = Classes!Range(s) \ {s[Len(s)]}
  <2>1. \A k \in 1..n : k < Len(s)
    BY <1>1, <1>2
  <2>2. Lacks(s, Len(s), SubSeq(s, 1, n))
    BY <1>2, <1>5, <2>1 DEF Lacks
  <2>3. QED
    <3>1. PICK t \in Seq(S) : t = SubSeq(s, 1, n)
      BY <1>4
    <3>2. PICK i \in 1..Len(s) : i = Len(s)
      BY <1>1
    <3>3. Classes!IsInjective(t) /\ Classes!Range(t) = Classes!Range(s) \ {s[i]}
      <4>1. Lacks(s, i, t)
        BY <2>2, <3>1, <3>2
      <4>2. QED
        BY <1>7, <4>1, GapFacts
    <3>4. QED
      BY <3>1, <3>2, <3>3
<1>8. QED
  BY <1>1, <1>2, <1>4, <1>5, <1>6, <1>7

\* RemoveAt takes one place out.
LEMMA RemoveFacts ==
  ASSUME NEW S, NEW s \in Seq(S), NEW i \in 1..Len(s), Classes!IsInjective(s)
  PROVE  /\ Classes!RemoveAt(s, i) \in Seq(S)
         /\ Classes!IsInjective(Classes!RemoveAt(s, i))
         /\ Classes!Range(Classes!RemoveAt(s, i)) = Classes!Range(s) \ {s[i]}
<1>1. Len(s) \in Nat \ {0} /\ i \in Int /\ \A k \in 1..Len(s) : s[k] \in S
  BY LenProperties
<1> DEFINE f == SubSeq(s, 1, i - 1)
           r == SubSeq(s, i + 1, Len(s))
<1>2. f \in Seq(S) /\ Len(f) = i - 1 /\ \A k \in 1..i - 1 : f[k] = s[k]
  <2>1. \A k \in 1..i - 1 : s[k] \in S
    BY <1>1
  <2>2. QED
    BY <1>1, <2>1, SubSeqProperties
<1>3. /\ r \in Seq(S) /\ Len(r) = Len(s) - i
      /\ \A k \in 1..Len(s) - i : r[k] = s[i + k]
  <2>1. \A k \in i + 1..Len(s) : s[k] \in S
    BY <1>1
  <2>2. QED
    BY <1>1, <2>1, SubSeqProperties
<1> HIDE DEF f, r
<1>4. /\ f \o r \in Seq(S) /\ Len(f \o r) = Len(f) + Len(r)
      /\ \A k \in 1..Len(f) + Len(r) :
           (f \o r)[k] = IF k <= Len(f) THEN f[k] ELSE r[k - Len(f)]
  BY <1>2, <1>3, ConcatProperties
<1>5. Len(f \o r) = Len(s) - 1
  BY <1>1, <1>2, <1>3, <1>4
<1>6. \A k \in 1..Len(s) - 1 : (f \o r)[k] = IF k < i THEN s[k] ELSE s[k + 1]
  <2> SUFFICES ASSUME NEW k \in 1..Len(s) - 1
               PROVE  (f \o r)[k] = IF k < i THEN s[k] ELSE s[k + 1]
    OBVIOUS
  <2>1. CASE k < i
    BY <1>1, <1>2, <1>3, <1>4, <2>1
  <2>2. CASE ~(k < i)
    <3>1. k - (i - 1) \in 1..Len(s) - i /\ i + (k - (i - 1)) = k + 1
      BY <1>1, <2>2
    <3>2. r[k - (i - 1)] = s[k + 1]
      BY <1>3, <3>1
    <3>3. (f \o r)[k] = r[k - (i - 1)]
      BY <1>1, <1>2, <1>3, <1>4, <2>2
    <3>4. QED
      BY <2>2, <3>2, <3>3
  <2>3. QED
    BY <2>1, <2>2
<1>7. /\ Classes!IsInjective(f \o r) /\ Classes!Range(f \o r) = Classes!Range(s) \ {s[i]}
  <2>1. Lacks(s, i, f \o r)
    BY <1>5, <1>6 DEF Lacks
  <2>2. PICK t \in Seq(S) : t = f \o r
    BY <1>4
  <2>3. Classes!IsInjective(t) /\ Classes!Range(t) = Classes!Range(s) \ {s[i]}
    <3>1. Lacks(s, i, t)
      BY <2>1, <2>2
    <3>2. QED
      BY <3>1, GapFacts
  <2>4. QED
    BY <2>2, <2>3
<1>8. Classes!RemoveAt(s, i) = f \o r
  BY DEF Classes!RemoveAt, f, r
<1>9. QED
  BY <1>4, <1>7, <1>8

\* Removing a cleanup hook leaves the others, in their order.
LEMMA WithoutFacts ==
  ASSUME NEW S, NEW s \in Seq(S), NEW c, Classes!IsInjective(s)
  PROVE  /\ Classes!Without(s, c) \in Seq(S)
         /\ Classes!IsInjective(Classes!Without(s, c))
         /\ Classes!Range(Classes!Without(s, c)) = Classes!Range(s) \ {c}
<1>1. DOMAIN s = 1..Len(s)
  BY LenProperties
<1>2. CASE Classes!Contains(s, c)
  <2>1. PICK i : i = CHOOSE k \in 1..Len(s) : s[k] = c
    OBVIOUS
  <2>2. i \in 1..Len(s) /\ s[i] = c
    BY <1>2, <2>1 DEF Classes!Contains
  <2>3. Classes!Without(s, c) = Classes!RemoveAt(s, i)
    BY <1>2, <2>1 DEF Classes!Without
  <2>4. QED
    BY <2>2, <2>3, RemoveFacts
<1>3. CASE ~Classes!Contains(s, c)
  <2>1. c \notin Classes!Range(s)
    BY <1>1, <1>3 DEF Classes!Contains, Classes!Range
  <2>2. QED
    BY <1>3, <2>1 DEF Classes!Without
<1>4. QED
  BY <1>2, <1>3

-----------------------------------------------------------------------------
(* NapiClasses, whatever fails and whenever the environment ends: an armed   *)
(* reference, its cleanup hook and its constructor belong together.         *)

HookSeq == Seq(Functions \cup {Context})

\* The types that registrations and the collector change.
DataTypes ==
  /\ functions \subseteq Functions /\ reachable \subseteq Functions
  /\ finalizer \subseteq Functions
  /\ data \in [Functions -> {"none", "live", "destroyed"}]
  /\ destroys \in [Functions -> Nat]

\* The types of the references.
ReferenceTypes ==
  /\ strong \subseteq Functions /\ releases \in [Functions -> Nat]
  /\ reference \in [Functions -> {"none", "armed", "cleaned", "freed"}]
  /\ hooks \in HookSeq

\* The types of the targets and of the two lifetimes.
TargetTypes ==
  /\ local \in Functions \cup {None} /\ stored \in Functions \cup {None}
  /\ context \in {"alive", "destroyed"}
  /\ functionsEnv \in {"open", "hooks", "finalizing", "closed"}

\* The type invariant in its three parts.
LEMMA ClassTypes == Classes!TypeOK <=> DataTypes /\ ReferenceTypes /\ TargetTypes
  BY DEF Classes!TypeOK, DataTypes, ReferenceTypes, TargetTypes, HookSeq

\* The end of the environment finds no hooks.
HooksDone ==
  functionsEnv \in {"finalizing", "closed"} => hooks = <<>>

\* The relation of a set of hooks to the references.
Armed(f, pend, ref, kept, rel) ==
  /\ ref[f] = "armed" <=> f \in Classes!Range(pend)
  /\ ref[f] = "armed" <=> f \in kept
  /\ rel[f] = IF ref[f] \in {"none", "armed"} THEN 0 ELSE 1

\* The invariant of the references, in these terms.
LEMMA ReferenceInvDef ==
  Classes!ReferenceInv <=>
    /\ Classes!IsInjective(hooks)
    /\ \A f \in Functions : Armed(f, hooks, reference, strong, releases)
    /\ HooksDone /\ ~late
  BY DEF Classes!ReferenceInv, Armed, HooksDone

\* ~constructor_reference on a target: it leaves no hook and no reference behind.
LEMMA DropFacts ==
  ASSUME ReferenceTypes, ~late, NEW c \in Functions \cup {None},
         NEW pend \in HookSeq, Classes!IsInjective(pend),
         \A f \in Functions : Armed(f, pend, reference, strong, releases),
         c # None => reference[c] \in {"armed", "cleaned"},
         pend # <<>> => functionsEnv \notin {"finalizing", "closed"},
         Classes!DropTarget(c, pend)
  PROVE  /\ ReferenceTypes' /\ ~late'
         /\ Classes!IsInjective(hooks')
         /\ \A f \in Functions : Armed(f, hooks', reference', strong', releases')
         /\ \A f \in Functions : f # c => reference'[f] = reference[f]
         /\ strong' = strong \ {c}
         /\ c # None => reference'[c] = "freed"
         /\ pend = <<>> => hooks' = <<>>
<1> USE ClassesAssumption DEF ClassesAssumption
<1>1. /\ hooks' \in HookSeq /\ Classes!IsInjective(hooks')
      /\ Classes!Range(hooks') = Classes!Range(pend) \ {c}
  <2>1. hooks' = Classes!Without(pend, c)
    BY DEF Classes!DropTarget
  <2>2. QED
    BY <2>1, WithoutFacts DEF HookSeq
<1>2. reference' = [f \in Functions |-> IF f = c THEN "freed" ELSE reference[f]]
  BY DEF Classes!DropTarget
<1>3. reference' \in [Functions -> {"none", "armed", "cleaned", "freed"}]
  BY <1>2 DEF ReferenceTypes
<1>4. /\ \A f \in Functions : f # c => reference'[f] = reference[f]
      /\ c # None => reference'[c] = "freed"
  BY <1>2
<1>5. pend = <<>> => hooks' = <<>>
  <2> SUFFICES ASSUME pend = <<>> PROVE hooks' = <<>>
    OBVIOUS
  <2>1. Len(pend) = 0
    BY EmptySeq
  <2>2. ~Classes!Contains(pend, c)
    BY <2>1 DEF Classes!Contains
  <2>3. QED
    BY <2>2 DEF Classes!DropTarget, Classes!Without
<1>6. CASE c # None /\ reference[c] = "armed"
  <2>1. c \in Functions /\ Armed(c, pend, reference, strong, releases) /\ c \in Classes!Range(pend)
    BY <1>6 DEF Armed
  <2>2. pend # <<>>
    BY <2>1, EmptySeq DEF Classes!Range
  <2>3. Classes!Delete(c)
    BY <1>6 DEF Classes!DropTarget
  <2>4. ~late' /\ strong' = strong \ {c} /\ releases' = [releases EXCEPT ![c] = @ + 1]
    BY <2>2, <2>3 DEF Classes!Delete
  <2>5. strong' \subseteq Functions /\ releases' \in [Functions -> Nat] /\ releases[c] = 0
    BY <1>6, <2>1, <2>4 DEF ReferenceTypes, Armed
  <2>6. releases'[c] = 1 /\ \A f \in Functions : f # c => releases'[f] = releases[f]
    BY <2>1, <2>4, <2>5 DEF ReferenceTypes
  <2>7. Armed(c, hooks', reference', strong', releases')
    BY <1>1, <1>4, <2>1, <2>4, <2>6 DEF Armed
  <2>8. ASSUME NEW f \in Functions, f # c PROVE Armed(f, hooks', reference', strong', releases')
    BY <1>1, <1>4, <2>4, <2>6, <2>8 DEF Armed
  <2>9. QED
    BY <1>1, <1>3, <1>4, <1>5, <2>4, <2>5, <2>7, <2>8 DEF ReferenceTypes
<1>7. CASE ~(c # None /\ reference[c] = "armed")
  <2>1. strong' = strong /\ releases' = releases /\ late' = late
    BY <1>7 DEF Classes!DropTarget
  <2>2. c \notin strong
    BY <1>7 DEF Armed, ReferenceTypes
  <2>3. ASSUME NEW f \in Functions PROVE Armed(f, hooks', reference', strong', releases')
    <3>1. CASE f = c
      <4>1. reference[f] = "cleaned" /\ reference'[f] = "freed"
        BY <1>4, <1>7, <3>1
      <4>2. releases[f] = 1 /\ f \notin Classes!Range(hooks')
        BY <1>1, <3>1, <4>1 DEF Armed
      <4>3. QED
        BY <2>1, <2>2, <3>1, <4>1, <4>2 DEF Armed
    <3>2. CASE f # c
      BY <1>1, <1>4, <2>1, <3>2 DEF Armed
    <3>3. QED
      BY <3>1, <3>2
  <2>4. strong' = strong \ {c}
    BY <2>1, <2>2
  <2>5. QED
    BY <1>1, <1>3, <1>4, <1>5, <2>1, <2>3, <2>4 DEF ReferenceTypes
<1>8. QED
  BY <1>6, <1>7

\* Initially there is no function, no hook and no target.
LEMMA ClassesInit == Classes!Init => Classes!IInv
<1> SUFFICES ASSUME Classes!Init PROVE Classes!IInv
  OBVIOUS
<1> USE ClassesAssumption DEF ClassesAssumption, Classes!Init
<1>1. /\ hooks \in Seq(Functions \cup {Context})
      /\ Classes!IsInjective(hooks) /\ Classes!Range(hooks) = {}
  BY EmptySeq DEF Classes!IsInjective, Classes!Range
<1>2. Classes!TypeOK
  BY <1>1 DEF Classes!TypeOK
<1>3. Classes!ReferenceInv
  BY <1>1 DEF Classes!ReferenceInv
<1>4. Classes!TargetInv /\ Classes!DataInv
  BY DEF Classes!TargetInv, Classes!DataInv
<1>5. QED
  BY <1>2, <1>3, <1>4 DEF Classes!IInv

\* A function is made, with its finaliser, or its data is freed again.
LEMMA MakeKeeps ==
  ASSUME Classes!IInv, NEW f \in Functions, Classes!FunctionMade(f) \/ Classes!FunctionFails(f),
         functionsEnv = "open",
         UNCHANGED <<strong, releases, reference, hooks, late, local, stored, context, functionsEnv>>
  PROVE  Classes!IInv'
<1> USE DEF Classes!FunctionMade, Classes!FunctionFails, Classes!Fresh
<1>1. DataTypes' /\ Classes!DataInv'
  <2>1. DataTypes /\ f \notin strong
    BY ClassTypes DEF Classes!IInv, Classes!DataInv, Classes!ReferenceInv
  <2>2. DataTypes'
    BY <2>1 DEF DataTypes
  <2>3. CASE Classes!FunctionMade(f)
    BY <2>3, <2>1 DEF Classes!IInv, Classes!DataInv, DataTypes
  <2>4. CASE Classes!FunctionFails(f)
    BY <2>4, <2>1 DEF Classes!IInv, Classes!DataInv, DataTypes
  <2>5. QED
    BY <2>2, <2>3, <2>4
<1>2. Classes!TypeOK'
  BY <1>1, ClassTypes DEF Classes!IInv, ReferenceTypes, TargetTypes, Classes!TypeOK, DataTypes
<1>3. Classes!ReferenceInv' /\ Classes!TargetInv'
  BY DEF Classes!IInv, Classes!ReferenceInv, Classes!TargetInv
<1>4. QED
  BY <1>1, <1>2, <1>3 DEF Classes!IInv

\* A class is defined: its reference is armed, and its hook is the newest.
LEMMA DefineKeeps ==
  ASSUME Classes!IInv, NEW f \in Functions, Classes!DefineClass(f)
  PROVE  Classes!IInv'
<1> USE ClassesAssumption DEF ClassesAssumption
<1>1. /\ data[f] = "none" /\ reference[f] = "none" /\ functionsEnv = "open" /\ local = None
      /\ functionsEnv' = "open" /\ late' = late
  BY DEF Classes!DefineClass, Classes!FunctionMade, Classes!Fresh, Classes!Registering,
         Classes!IInv, Classes!DataInv
<1>2. DataTypes /\ ReferenceTypes /\ TargetTypes /\ hooks \in HookSeq
  BY ClassTypes DEF Classes!IInv, ReferenceTypes
<1>3. f \notin Classes!Range(hooks) /\ f \notin strong /\ releases[f] = 0 /\ Classes!IsInjective(hooks)
      /\ ~late
  BY <1>1 DEF Classes!IInv, Classes!ReferenceInv
<1>4. /\ hooks' \in HookSeq /\ Classes!IsInjective(hooks')
      /\ Classes!Range(hooks') = Classes!Range(hooks) \cup {f}
  <2>1. hooks' = Append(hooks, f) /\ f \in Functions \cup {Context}
    BY DEF Classes!DefineClass
  <2>2. QED
    BY <1>2, <1>3, <2>1, AppendFacts DEF HookSeq
<1>5. /\ reference' \in [Functions -> {"none", "armed", "cleaned", "freed"}]
      /\ reference'[f] = "armed" /\ \A g \in Functions : g # f => reference'[g] = reference[g]
      /\ strong' = strong \cup {f} /\ releases' = releases
  BY <1>2 DEF Classes!DefineClass, ReferenceTypes
<1>6. Classes!ReferenceInv'
  BY <1>1, <1>3, <1>4, <1>5 DEF Classes!IInv, Classes!ReferenceInv
<1>7. local' = f /\ stored' = stored /\ context' = context /\ stored # f
  BY <1>1 DEF Classes!DefineClass, Classes!IInv, Classes!TargetInv
<1>8. Classes!TargetInv'
  BY <1>1, <1>2, <1>5, <1>7 DEF Classes!IInv, Classes!TargetInv, TargetTypes
<1>9. DataTypes'
  BY <1>2 DEF DataTypes, Classes!DefineClass, Classes!FunctionMade
<1>10. Classes!DataInv'
  BY <1>1, <1>2, <1>5 DEF Classes!DefineClass, Classes!FunctionMade, DataTypes,
     Classes!IInv, Classes!DataInv
<1>11. ReferenceTypes' /\ TargetTypes'
  BY <1>1, <1>2, <1>4, <1>5, <1>7 DEF ReferenceTypes, TargetTypes
<1>12. Classes!TypeOK'
  BY <1>9, <1>11 DEF DataTypes, ReferenceTypes, TargetTypes, HookSeq, Classes!TypeOK
<1>13. QED
  BY <1>6, <1>8, <1>10, <1>12 DEF Classes!IInv

\* The hook cannot be added: the reference is gone again.
LEMMA HookFailsKeeps ==
  ASSUME Classes!IInv, NEW f \in Functions, Classes!HookFails(f)
  PROVE  Classes!IInv'
<1> USE ClassesAssumption DEF ClassesAssumption
<1>1. /\ data[f] = "none" /\ reference[f] = "none" /\ functionsEnv = "open" /\ local = None
      /\ UNCHANGED <<strong, hooks, late, local, stored, context, functionsEnv>>
  BY DEF Classes!HookFails, Classes!FunctionMade, Classes!Fresh, Classes!Registering,
         Classes!IInv, Classes!DataInv, Classes!targets
<1>2. DataTypes /\ ReferenceTypes /\ TargetTypes
  BY ClassTypes DEF Classes!IInv
<1>3. f \notin Classes!Range(hooks) /\ f \notin strong /\ releases[f] = 0
  BY <1>1 DEF Classes!IInv, Classes!ReferenceInv
<1>4. /\ reference' \in [Functions -> {"none", "armed", "cleaned", "freed"}]
      /\ reference'[f] = "freed" /\ \A g \in Functions : g # f => reference'[g] = reference[g]
      /\ releases' \in [Functions -> Nat]
      /\ releases'[f] = 1 /\ \A g \in Functions : g # f => releases'[g] = releases[g]
  BY <1>2, <1>3 DEF Classes!HookFails, ReferenceTypes
<1>5. Classes!ReferenceInv'
  BY <1>1, <1>3, <1>4 DEF Classes!IInv, Classes!ReferenceInv
<1>6. stored # f
  BY <1>1 DEF Classes!IInv, Classes!TargetInv
<1>7. Classes!TargetInv'
  BY <1>1, <1>2, <1>4, <1>6 DEF Classes!IInv, Classes!TargetInv, TargetTypes
<1>8. DataTypes'
  BY <1>2 DEF DataTypes, Classes!HookFails, Classes!FunctionMade
<1>9. Classes!DataInv'
  BY <1>1, <1>2, <1>4 DEF Classes!HookFails, Classes!FunctionMade, DataTypes,
     Classes!IInv, Classes!DataInv
<1>10. ReferenceTypes' /\ TargetTypes'
  BY <1>1, <1>2, <1>4 DEF ReferenceTypes, TargetTypes
<1>11. Classes!TypeOK'
  BY <1>8, <1>10 DEF DataTypes, ReferenceTypes, TargetTypes, HookSeq, Classes!TypeOK
<1>12. QED
  BY <1>5, <1>7, <1>9, <1>11 DEF Classes!IInv

\* A target is dropped, by replacement, by a registration that throws or with the
\* context: the functions stay, and one reference is freed.
LEMMA DropKeeps ==
  ASSUME Classes!IInv, NEW c \in {local, stored}, NEW pend \in HookSeq,
         Classes!IsInjective(pend),
         \A f \in Functions : f \in Classes!Range(pend) <=> f \in Classes!Range(hooks),
         hooks = <<>> => pend = <<>>,
         Classes!DropTarget(c, pend),
         UNCHANGED <<functions, reachable, data, destroys, finalizer, functionsEnv>>
  PROVE  /\ DataTypes' /\ ReferenceTypes' /\ Classes!ReferenceInv' /\ Classes!DataInv'
         /\ \A f \in Functions : f # c => reference'[f] = reference[f]
<1> USE ClassesAssumption DEF ClassesAssumption
<1>1. DataTypes /\ ReferenceTypes /\ TargetTypes /\ c \in Functions \cup {None}
  BY ClassTypes DEF Classes!IInv, TargetTypes
<1>2. /\ ~late /\ \A f \in Functions : Armed(f, hooks, reference, strong, releases)
      /\ HooksDone
  BY ReferenceInvDef DEF Classes!IInv
<1>3. \A f \in Functions : Armed(f, pend, reference, strong, releases)
  BY <1>2 DEF Armed
<1>4. c # None => reference[c] \in {"armed", "cleaned"}
  BY DEF Classes!IInv, Classes!TargetInv
<1>5. pend # <<>> => functionsEnv \notin {"finalizing", "closed"}
  BY <1>2 DEF HooksDone
<1>6. /\ ReferenceTypes' /\ ~late'
      /\ Classes!IsInjective(hooks')
      /\ \A f \in Functions : Armed(f, hooks', reference', strong', releases')
      /\ \A f \in Functions : f # c => reference'[f] = reference[f]
      /\ strong' = strong \ {c}
      /\ c # None => reference'[c] = "freed"
      /\ pend = <<>> => hooks' = <<>>
  BY <1>1, <1>2, <1>3, <1>4, <1>5, DropFacts
<1>7. functionsEnv' \in {"finalizing", "closed"} => hooks' = <<>>
  BY <1>2, <1>6 DEF HooksDone
<1>8. Classes!ReferenceInv'
  BY <1>6, <1>7 DEF Classes!ReferenceInv, Armed
<1>9. DataTypes'
  BY <1>1 DEF DataTypes
<1>10. c # None => data[c] # "none"
  BY <1>1, <1>4 DEF Classes!IInv, Classes!DataInv
<1>11. Classes!DataInv'
  BY <1>1, <1>6, <1>10 DEF Classes!IInv, Classes!DataInv
<1>12. QED
  BY <1>6, <1>8, <1>9, <1>11

\* A class is stored, and the target stored earlier goes.
LEMMA StoreKeeps == Classes!IInv /\ Classes!StoreClass => Classes!IInv'
<1> SUFFICES ASSUME Classes!IInv, Classes!StoreClass PROVE Classes!IInv'
  OBVIOUS
<1> USE ClassesAssumption DEF ClassesAssumption
<1>1. /\ functionsEnv = "open" /\ local # None /\ Classes!DropTarget(stored, hooks)
      /\ stored' = local /\ local' = None
      /\ UNCHANGED <<functions, reachable, data, destroys, finalizer, context, functionsEnv>>
  BY DEF Classes!StoreClass, Classes!Registering, Classes!js
<1>2. TargetTypes /\ hooks \in HookSeq /\ Classes!IsInjective(hooks)
  BY ClassTypes DEF Classes!IInv, ReferenceTypes, Classes!ReferenceInv
<1>3. /\ DataTypes' /\ ReferenceTypes' /\ Classes!ReferenceInv' /\ Classes!DataInv'
      /\ \A f \in Functions : f # stored => reference'[f] = reference[f]
  BY <1>1, <1>2, DropKeeps
<1>4. local \in Functions /\ local # stored /\ reference[local] = "armed"
  BY <1>1, <1>2 DEF Classes!IInv, Classes!TargetInv, TargetTypes
<1>5. Classes!TargetInv' /\ TargetTypes'
  BY <1>1, <1>2, <1>3, <1>4 DEF Classes!TargetInv, TargetTypes
<1>6. Classes!TypeOK'
  BY <1>3, <1>5 DEF DataTypes, ReferenceTypes, TargetTypes, HookSeq, Classes!TypeOK
<1>7. QED
  BY <1>3, <1>5, <1>6 DEF Classes!IInv

\* The target of a registration that throws goes with its hook.
LEMMA RegistrationKeeps == Classes!IInv /\ Classes!RegistrationThrows => Classes!IInv'
<1> SUFFICES ASSUME Classes!IInv, Classes!RegistrationThrows PROVE Classes!IInv'
  OBVIOUS
<1> USE ClassesAssumption DEF ClassesAssumption
<1>1. /\ functionsEnv = "open" /\ local # None /\ Classes!DropTarget(local, hooks)
      /\ stored' = stored /\ local' = None
      /\ UNCHANGED <<functions, reachable, data, destroys, finalizer, context, functionsEnv>>
  BY DEF Classes!RegistrationThrows, Classes!Registering, Classes!js
<1>2. TargetTypes /\ hooks \in HookSeq /\ Classes!IsInjective(hooks)
  BY ClassTypes DEF Classes!IInv, ReferenceTypes, Classes!ReferenceInv
<1>3. /\ DataTypes' /\ ReferenceTypes' /\ Classes!ReferenceInv' /\ Classes!DataInv'
      /\ \A f \in Functions : f # local => reference'[f] = reference[f]
  BY <1>1, <1>2, DropKeeps
<1>4. local # stored /\ (stored # None => stored \in Functions /\ reference[stored] = "armed")
  BY <1>1, <1>2 DEF Classes!IInv, Classes!TargetInv, TargetTypes
<1>5. Classes!TargetInv' /\ TargetTypes'
  BY <1>1, <1>2, <1>3, <1>4 DEF Classes!TargetInv, TargetTypes
<1>6. Classes!TypeOK'
  BY <1>3, <1>5 DEF DataTypes, ReferenceTypes, TargetTypes, HookSeq, Classes!TypeOK
<1>7. QED
  BY <1>3, <1>5, <1>6 DEF Classes!IInv

\* The context goes, in its hook or after the environment, and its target with it.
LEMMA ContextKeeps ==
  ASSUME Classes!IInv, Classes!RunContextHook \/ Classes!StaticDestruction
  PROVE  Classes!IInv'
<1> USE ClassesAssumption DEF ClassesAssumption
<1>1. /\ functionsEnv # "open" /\ stored' = None /\ context' = "destroyed"
      /\ UNCHANGED <<functions, reachable, data, destroys, finalizer, local, functionsEnv>>
  BY DEF Classes!RunContextHook, Classes!StaticDestruction, Classes!js
<1>2. TargetTypes /\ hooks \in HookSeq /\ Classes!IsInjective(hooks)
  BY ClassTypes DEF Classes!IInv, ReferenceTypes, Classes!ReferenceInv
<1>3. DataTypes' /\ ReferenceTypes' /\ Classes!ReferenceInv' /\ Classes!DataInv'
  <2>1. CASE Classes!RunContextHook
    <3>1. /\ hooks # <<>> /\ hooks[Len(hooks)] = Context
          /\ Classes!DropTarget(stored, SubSeq(hooks, 1, Len(hooks) - 1))
      BY <2>1 DEF Classes!RunContextHook, Classes!Last, Classes!Front
    <3>2. PICK pend : pend = SubSeq(hooks, 1, Len(hooks) - 1)
      OBVIOUS
    <3>3. /\ pend \in HookSeq /\ Classes!IsInjective(pend)
          /\ Classes!Range(pend) = Classes!Range(hooks) \ {Context}
      BY <1>2, <3>1, <3>2, FrontFacts DEF HookSeq
    <3>4. \A f \in Functions : f \in Classes!Range(pend) <=> f \in Classes!Range(hooks)
      BY <3>3
    <3>5. Classes!DropTarget(stored, pend)
      BY <3>1, <3>2
    <3>6. QED
      BY <1>1, <3>1, <3>3, <3>4, <3>5, DropKeeps
  <2>2. CASE Classes!StaticDestruction
    <3>1. Classes!DropTarget(stored, hooks)
      BY <2>2 DEF Classes!StaticDestruction
    <3>2. QED
      BY <1>1, <1>2, <3>1, DropKeeps
  <2>3. QED
    BY <2>1, <2>2
<1>4. local = None
  BY <1>1 DEF Classes!IInv, Classes!TargetInv
<1>5. Classes!TargetInv' /\ TargetTypes'
  BY <1>1, <1>2, <1>4 DEF Classes!TargetInv, TargetTypes
<1>6. Classes!TypeOK'
  BY <1>3, <1>5 DEF DataTypes, ReferenceTypes, TargetTypes, HookSeq, Classes!TypeOK
<1>7. QED
  BY <1>3, <1>5, <1>6 DEF Classes!IInv

\* The collector and the finalisers destroy the data of what JavaScript can no longer
\* reach, or of everything once the hooks have run.
LEMMA CollectKeeps ==
  ASSUME Classes!IInv, NEW f \in Functions, Classes!JsForgets(f) \/ Classes!Collect(f)
  PROVE  Classes!IInv'
<1>1. UNCHANGED <<strong, releases, reference, hooks, late, local, stored, context, functionsEnv>>
  BY DEF Classes!JsForgets, Classes!Collect, Classes!refs, Classes!targets
<1>2. DataTypes
  BY ClassTypes DEF Classes!IInv
<1>3. DataTypes' /\ Classes!DataInv'
  <2>1. CASE Classes!JsForgets(f)
    BY <1>1, <1>2, <2>1 DEF Classes!JsForgets, Classes!IInv, Classes!DataInv, DataTypes
  <2>2. CASE Classes!Collect(f)
    <3>1. /\ f \in functions /\ functions' = functions \ {f} /\ reachable' = reachable \ {f}
          /\ finalizer' = finalizer /\ Classes!Finalize(f)
          /\ functionsEnv = "open" => f \notin strong
      BY <2>2 DEF Classes!Collect
    <3>2. data[f] # "none" /\ functionsEnv # "closed"
      BY <3>1 DEF Classes!IInv, Classes!DataInv
    <3>3. CASE f \in finalizer
      BY <1>1, <1>2, <3>1, <3>2, <3>3
      DEF Classes!Finalize, Classes!IInv, Classes!DataInv, DataTypes
    <3>4. CASE f \notin finalizer
      BY <1>1, <1>2, <3>1, <3>2, <3>4
      DEF Classes!Finalize, Classes!IInv, Classes!DataInv, DataTypes
    <3>5. QED
      BY <3>3, <3>4
  <2>3. QED
    BY <2>1, <2>2
<1>4. Classes!TypeOK'
  BY <1>1, <1>3 DEF Classes!IInv, DataTypes, Classes!TypeOK
<1>5. Classes!ReferenceInv' /\ Classes!TargetInv'
  BY <1>1 DEF Classes!IInv, Classes!ReferenceInv, Classes!TargetInv
<1>6. QED
  BY <1>3, <1>4, <1>5 DEF Classes!IInv

\* The module adds the hook of its context.
LEMMA OwnContextKeeps == Classes!IInv /\ Classes!OwnContext => Classes!IInv'
<1> SUFFICES ASSUME Classes!IInv, Classes!OwnContext PROVE Classes!IInv'
  OBVIOUS
<1> USE ClassesAssumption DEF ClassesAssumption
<1>1. /\ functionsEnv = "open" /\ hooks' = Append(hooks, Context)
      /\ ~Classes!Contains(hooks, Context)
      /\ UNCHANGED <<functions, reachable, data, destroys, finalizer, strong, releases,
                     reference, late, local, stored, context, functionsEnv>>
  BY DEF Classes!OwnContext, Classes!js, Classes!targets
<1>2. hooks \in HookSeq /\ Classes!IsInjective(hooks)
  BY ClassTypes DEF Classes!IInv, ReferenceTypes, Classes!ReferenceInv
<1>3. Context \notin Classes!Range(hooks)
  BY <1>1, <1>2, LenProperties DEF HookSeq, Classes!Contains, Classes!Range
<1>4. /\ hooks' \in HookSeq /\ Classes!IsInjective(hooks')
      /\ Classes!Range(hooks') = Classes!Range(hooks) \cup {Context}
  <2>1. Context \in Functions \cup {Context}
    OBVIOUS
  <2>2. QED
    BY <1>1, <1>2, <1>3, <2>1, AppendFacts DEF HookSeq
<1>5. Classes!ReferenceInv'
  BY <1>1, <1>4 DEF Classes!IInv, Classes!ReferenceInv
<1>6. Classes!TypeOK'
  BY <1>1, <1>4 DEF Classes!IInv, Classes!TypeOK, HookSeq
<1>7. Classes!TargetInv' /\ Classes!DataInv'
  BY <1>1 DEF Classes!IInv, Classes!TargetInv, Classes!DataInv
<1>8. QED
  BY <1>5, <1>6, <1>7 DEF Classes!IInv

\* cleanup() of the newest hook: its reference is released, and no longer armed.
LEMMA CleanupKeeps == Classes!IInv /\ Classes!RunCleanup => Classes!IInv'
<1> SUFFICES ASSUME Classes!IInv, Classes!RunCleanup PROVE Classes!IInv'
  OBVIOUS
<1> USE ClassesAssumption DEF ClassesAssumption
<1>1. PICK c : c = hooks[Len(hooks)]
  OBVIOUS
<1>2. /\ functionsEnv = "hooks" /\ hooks # <<>> /\ c # Context /\ Classes!Delete(c)
      /\ reference' = [reference EXCEPT ![c] = "cleaned"]
      /\ hooks' = SubSeq(hooks, 1, Len(hooks) - 1)
      /\ UNCHANGED <<functions, reachable, data, destroys, finalizer, local, stored,
                     context, functionsEnv>>
  BY <1>1 DEF Classes!RunCleanup, Classes!Last, Classes!Front, Classes!Cleaned,
     Classes!js, Classes!targets
<1>3. /\ hooks \in HookSeq /\ Classes!IsInjective(hooks) /\ DataTypes /\ ReferenceTypes /\ TargetTypes
  BY ClassTypes DEF Classes!IInv, ReferenceTypes, Classes!ReferenceInv
<1>4. /\ hooks' \in HookSeq /\ c \in Functions \cup {Context} /\ c \in Classes!Range(hooks)
      /\ Classes!IsInjective(hooks') /\ Classes!Range(hooks') = Classes!Range(hooks) \ {c}
  BY <1>1, <1>2, <1>3, FrontFacts DEF HookSeq
<1>5. c \in Functions /\ reference[c] = "armed" /\ releases[c] = 0 /\ ~late
  BY <1>2, <1>4 DEF Classes!IInv, Classes!ReferenceInv
<1>6. ~late' /\ strong' = strong \ {c} /\ releases' = [releases EXCEPT ![c] = @ + 1]
  BY <1>2, <1>5 DEF Classes!Delete
<1>7. /\ releases' \in [Functions -> Nat] /\ releases'[c] = 1
      /\ \A f \in Functions : f # c => releases'[f] = releases[f]
  BY <1>3, <1>5, <1>6 DEF ReferenceTypes
<1>8. /\ reference' \in [Functions -> {"none", "armed", "cleaned", "freed"}]
      /\ reference'[c] = "cleaned"
      /\ \A f \in Functions : f # c => reference'[f] = reference[f]
  BY <1>2, <1>3, <1>5 DEF ReferenceTypes
<1>9. Classes!ReferenceInv'
  BY <1>2, <1>4, <1>5, <1>6, <1>7, <1>8 DEF Classes!IInv, Classes!ReferenceInv
<1>10. local = None
  BY <1>2 DEF Classes!IInv, Classes!TargetInv
<1>11. Classes!TargetInv'
  BY <1>2, <1>3, <1>8, <1>10 DEF Classes!IInv, Classes!TargetInv, TargetTypes
<1>12. data[c] # "none"
  BY <1>5 DEF Classes!IInv, Classes!DataInv
<1>13. Classes!DataInv'
  BY <1>2, <1>5, <1>6, <1>8, <1>12 DEF Classes!IInv, Classes!DataInv
<1>14. DataTypes' /\ ReferenceTypes' /\ TargetTypes'
  BY <1>2, <1>3, <1>4, <1>6, <1>7, <1>8 DEF DataTypes, ReferenceTypes, TargetTypes
<1>15. Classes!TypeOK'
  BY <1>14 DEF DataTypes, ReferenceTypes, TargetTypes, HookSeq, Classes!TypeOK
<1>16. QED
  BY <1>9, <1>11, <1>13, <1>15 DEF Classes!IInv

\* The end of the environment, step by step.
LEMMA EndKeeps ==
  ASSUME Classes!IInv, Classes!ShutDown \/ Classes!HooksDone \/ Classes!Closed
  PROVE  Classes!IInv'
<1>1. UNCHANGED <<functions, reachable, data, destroys, finalizer, strong, releases,
                  reference, hooks, late, local, stored, context>>
  BY DEF Classes!ShutDown, Classes!HooksDone, Classes!Closed, Classes!js, Classes!refs,
         Classes!targets
<1>2. CASE Classes!ShutDown
  <2>1. functionsEnv = "open" /\ functionsEnv' = "hooks" /\ local = None
    BY <1>2 DEF Classes!ShutDown
  <2>2. QED
    BY <1>1, <2>1 DEF Classes!IInv, Classes!TypeOK, Classes!ReferenceInv,
       Classes!TargetInv, Classes!DataInv
<1>3. CASE Classes!HooksDone
  <2>1. functionsEnv = "hooks" /\ functionsEnv' = "finalizing" /\ hooks = <<>>
    BY <1>3 DEF Classes!HooksDone
  <2>2. QED
    BY <1>1, <2>1 DEF Classes!IInv, Classes!TypeOK, Classes!ReferenceInv,
       Classes!TargetInv, Classes!DataInv
<1>4. CASE Classes!Closed
  <2>1. functionsEnv = "finalizing" /\ functionsEnv' = "closed" /\ functions = {}
    BY <1>4 DEF Classes!Closed
  <2>2. QED
    BY <1>1, <2>1 DEF Classes!IInv, Classes!TypeOK, Classes!ReferenceInv,
       Classes!TargetInv, Classes!DataInv
<1>5. QED
  BY <1>2, <1>3, <1>4

\* The invariant of registrations holds in every reachable state.
THEOREM ClassesInvariance == Classes!Spec => []Classes!IInv
<1>1. Classes!IInv /\ [Classes!Next]_(Classes!vars) => Classes!IInv'
  <2> SUFFICES ASSUME Classes!IInv, [Classes!Next]_(Classes!vars) PROVE Classes!IInv'
    OBVIOUS
  <2>1. ASSUME NEW f \in Functions, Classes!MakeFunction(f) \/ Classes!DefineClassFails(f)
        PROVE  Classes!IInv'
    <3>1. /\ functionsEnv = "open"
          /\ Classes!FunctionMade(f) \/ Classes!FunctionFails(f)
          /\ UNCHANGED <<strong, releases, reference, hooks, late, local, stored, context,
                         functionsEnv>>
      BY <2>1 DEF Classes!MakeFunction, Classes!DefineClassFails, Classes!Registering,
         Classes!refs, Classes!targets
    <3>2. QED
      BY <3>1, MakeKeeps
  <2>2. ASSUME NEW f \in Functions, Classes!DefineClass(f) \/ Classes!HookFails(f)
        PROVE  Classes!IInv'
    BY <2>2, DefineKeeps, HookFailsKeeps
  <2>3. ASSUME NEW f \in Functions, Classes!JsForgets(f) \/ Classes!Collect(f)
        PROVE  Classes!IInv'
    BY <2>3, CollectKeeps
  <2>4. CASE Classes!StoreClass \/ Classes!RegistrationThrows
    BY <2>4, StoreKeeps, RegistrationKeeps
  <2>5. CASE Classes!RunContextHook \/ Classes!StaticDestruction
    BY <2>5, ContextKeeps
  <2>6. CASE Classes!OwnContext \/ Classes!RunCleanup
    BY <2>6, OwnContextKeeps, CleanupKeeps
  <2>7. CASE Classes!ShutDown \/ Classes!HooksDone \/ Classes!Closed
    BY <2>7, EndKeeps
  <2>8. CASE Classes!Finished \/ UNCHANGED Classes!vars
    <3>1. UNCHANGED <<functions, reachable, data, destroys, finalizer, strong, releases,
                      reference, hooks, local, stored, context, late, functionsEnv>>
      BY <2>8 DEF Classes!Finished, Classes!vars, Classes!js, Classes!refs, Classes!targets
    <3>2. Classes!TypeOK' /\ Classes!ReferenceInv'
      BY <3>1 DEF Classes!IInv, Classes!TypeOK, Classes!ReferenceInv
    <3>3. Classes!TargetInv' /\ Classes!DataInv'
      BY <3>1 DEF Classes!IInv, Classes!TargetInv, Classes!DataInv
    <3>4. QED
      BY <3>2, <3>3 DEF Classes!IInv
  <2>9. QED
    BY <2>1, <2>2, <2>3, <2>4, <2>5, <2>6, <2>7, <2>8 DEF Classes!Next
<1>2. QED
  BY <1>1, ClassesInit, PTL DEF Classes!Spec

\* Whichever of replacement, a registration that throws, the cleanup hook and the
\* destruction of the context comes first releases a constructor reference, the others
\* find it released, and none acts after the environment's end (constructor_reference).
THEOREM ReferencesReleased == Classes!Spec => []ReferenceReleasedOnce
<1>1. Classes!IInv => ReferenceReleasedOnce
  <2> SUFFICES ASSUME Classes!IInv PROVE Classes!ReferenceReleasedOnce
    BY DEF ReferenceReleasedOnce
  <2>1. /\ ~late /\ HooksDone /\ hooks \in HookSeq
        /\ \A f \in Functions : Armed(f, hooks, reference, strong, releases)
        /\ reference \in [Functions -> {"none", "armed", "cleaned", "freed"}]
    BY ReferenceInvDef, ClassTypes DEF Classes!IInv, ReferenceTypes
  <2>2. \A f \in Functions : releases[f] <= 1
    BY <2>1 DEF Armed
  <2>3. \A f \in Functions : (reference[f] = "armed") = (f \in strong)
    BY <2>1 DEF Armed
  <2>4. \A f \in Functions : reference[f] = "freed" => \A i \in DOMAIN hooks : hooks[i] # f
    BY <2>1 DEF Armed, Classes!Range
  <2>5. ASSUME NEW f \in Functions, functionsEnv = "closed", reference[f] # "none"
        PROVE  releases[f] = 1
    <3>1. hooks = <<>>
      BY <2>1, <2>5 DEF HooksDone
    <3>2. Classes!Range(hooks) = {}
      BY <3>1, EmptySeq DEF Classes!Range
    <3>3. QED
      BY <2>1, <2>5, <3>2 DEF Armed
  <2>6. QED
    BY <2>1, <2>2, <2>3, <2>4, <2>5 DEF Classes!ReferenceReleasedOnce
<1>2. QED
  BY <1>1, ClassesInvariance, PTL

\* A callback holder or class state that JavaScript or a target of an open environment
\* can reach is live, and each is destroyed once, by the error path of its registration
\* or by its finaliser.
THEOREM HoldersDestroyed == Classes!Spec => []DataDestroyedOnce
<1>1. Classes!IInv => DataDestroyedOnce
  <2> SUFFICES ASSUME Classes!IInv, NEW f \in Functions
               PROVE  /\ (f \in reachable \/ (f \in {local, stored} /\ functionsEnv = "open"))
                           => data[f] = "live"
                      /\ destroys[f] = (IF data[f] = "destroyed" THEN 1 ELSE 0)
                      /\ functionsEnv = "closed" => data[f] # "live"
    BY DEF DataDestroyedOnce, Classes!DataDestroyedOnce
  <2>1. f \in {local, stored} /\ functionsEnv = "open" => f \in strong
    BY ClassesAssumption DEF ClassesAssumption, Classes!IInv, Classes!TargetInv, Classes!ReferenceInv
  <2>2. QED
    BY <2>1 DEF Classes!IInv, Classes!DataInv
<1>2. QED
  BY <1>1, ClassesInvariance, PTL

-----------------------------------------------------------------------------
(* NapiCalls, where no frame refreshes a context that a frame further out   *)
(* uses: the scopes of handles, and the exception of the running frame.     *)

\* The running frame is replaced by another state of itself.
LEMMA TopFacts ==
  ASSUME Calls!TypeOK, stack # <<>>, NEW top \in Calls!Frames,
         stack' = [stack EXCEPT ![Len(stack)] = top]
  PROVE  /\ stack' \in Seq(Calls!Frames) /\ Len(stack') = Len(stack)
         /\ Len(stack) \in Nat \ {0} /\ stack' # <<>>
         /\ stack'[Len(stack)] = top
         /\ \A i \in 1..Len(stack) - 1 : stack'[i] = stack[i]
<1>1. stack \in Seq(Calls!Frames) /\ Len(stack) \in Nat \ {0} /\ Len(stack) \in 1..Len(stack)
  BY EmptySeq DEF Calls!TypeOK
<1>2. /\ stack' \in Seq(Calls!Frames) /\ Len(stack') = Len(stack)
      /\ \A j \in 1..Len(stack) : stack'[j] = IF j = Len(stack) THEN top ELSE stack[j]
  BY <1>1, ExceptSeq
<1>3. stack' # <<>>
  BY <1>1, <1>2, EmptySeq
<1>4. \A i \in 1..Len(stack) - 1 : i \in 1..Len(stack) /\ i # Len(stack)
  <2>1. Len(stack) \in Nat
    BY <1>1
  <2>2. QED
    BY ONLY <2>1
<1>5. stack'[Len(stack)] = top /\ \A i \in 1..Len(stack) - 1 : stack'[i] = stack[i]
  BY <1>1, <1>2, <1>4
<1>6. QED
  BY <1>1, <1>2, <1>3, <1>5

\* The running frame is one of the frames.
LEMMA RunningFrame ==
  ASSUME Calls!TypeOK, stack # <<>>
  PROVE  /\ Len(stack) \in Nat \ {0} /\ Calls!Top = stack[Len(stack)]
         /\ Calls!Top \in Calls!Frames /\ Calls!Scope \in Nat
         /\ Calls!Top.fresh \subseteq Contexts /\ Calls!Top.borrowed \subseteq Contexts
<1>1. stack \in Seq(Calls!Frames) /\ Len(stack) \in Nat \ {0} /\ Len(stack) \in 1..Len(stack)
  BY EmptySeq DEF Calls!TypeOK
<1>2. Calls!Top = stack[Len(stack)]
  BY DEF Calls!Top, Calls!Last
<1>3. stack[Len(stack)] \in Calls!Frames
  BY <1>1, ElementOfSeq
<1>4. QED
  BY <1>1, <1>2, <1>3 DEF Calls!Frames, Calls!Scope

\* A step of the running frame: the contexts it takes or changes are used by no frame
\* further out, and it uses handles of its own scope or of those around it.
RunningStep ==
  /\ stack # <<>> /\ stack' # <<>>
  /\ stack' \in Seq(Calls!Frames) /\ Len(stack') = Len(stack)
  /\ \A i \in 1..Len(stack) - 1 : stack'[i] = stack[i]
  /\ stack'[Len(stack)].scope = stack[Len(stack)].scope
  /\ \A c \in stack'[Len(stack)].fresh :
       /\ c \in stack[Len(stack)].fresh \/ Calls!Unshared(c)
       /\ ctx'[c].callable \in Calls!ScopesTo(Len(stack))
       /\ ctx'[c].this \in Calls!ScopesTo(Len(stack))
  /\ \A c \in Contexts : ctx'[c] = ctx[c] \/ Calls!Unshared(c)

CtxType == [Contexts -> [ref : BOOLEAN, callable : Nat \cup {None}, this : Nat \cup {None}]]

\* What a frame uses, no frame further out does.
LEMMA FreshUnshared ==
  ASSUME Calls!TypeOK, Calls!ScopeInv, stack # <<>>, NEW c \in Calls!Top.fresh
  PROVE  /\ c \in Contexts /\ Calls!Unshared(c)
         /\ ctx[c].callable \in Calls!ScopesTo(Len(stack))
         /\ ctx[c].this \in Calls!ScopesTo(Len(stack))
<1>1. /\ Len(stack) \in Nat \ {0} /\ Calls!Top = stack[Len(stack)]
      /\ Calls!Top.fresh \subseteq Contexts /\ Len(stack) \in 1..Len(stack)
  BY RunningFrame
<1>2. \A i \in 1..Len(stack) - 1 : stack[i].fresh \cap stack[Len(stack)].fresh = {}
  BY <1>1 DEF Calls!ScopeInv
<1>3. QED
  BY <1>1, <1>2 DEF Calls!ScopeInv, Calls!Unshared

\* The scope of the running frame, and no scope at all, are among those a frame may use.
LEMMA OwnScope ==
  ASSUME Calls!TypeOK, stack # <<>>
  PROVE  {Calls!Scope, None} \subseteq Calls!ScopesTo(Len(stack))
<1>1. Len(stack) \in 1..Len(stack) /\ Calls!Top = stack[Len(stack)]
  BY RunningFrame
<1>2. Calls!Scope = stack[Len(stack)].scope
  BY <1>1 DEF Calls!Scope
<1>3. QED
  BY <1>1, <1>2 DEF Calls!ScopesTo

\* A change of the program counter of the running frame, and of at most one context
\* that it uses.
LEMMA PcChange ==
  ASSUME Calls!TypeOK, Calls!ScopeInv, stack # <<>>,
         NEW to \in {"body", "throwing", "import"}, Calls!Goes(to),
         ctx' \in CtxType,
         \A c \in Contexts : \/ ctx'[c] = ctx[c]
                             \/ /\ c \in Calls!Top.fresh
                                /\ ctx'[c].callable \in {ctx[c].callable, Calls!Scope}
                                /\ ctx'[c].this \in {ctx[c].this, Calls!Scope}
  PROVE  RunningStep
<1>1. /\ Len(stack) \in Nat \ {0} /\ Calls!Top = stack[Len(stack)]
      /\ Calls!Top \in Calls!Frames
  BY RunningFrame
<1> DEFINE top == [stack[Len(stack)] EXCEPT !.pc = to]
<1>2. top \in Calls!Frames
  BY <1>1 DEF Calls!Frames
<1>3. stack' = [stack EXCEPT ![Len(stack)] = top]
  BY DEF Calls!Goes
<1>4. /\ top.scope = stack[Len(stack)].scope /\ top.fresh = stack[Len(stack)].fresh
  BY <1>1 DEF Calls!Frames
<1> HIDE DEF top
<1>5. /\ stack' \in Seq(Calls!Frames) /\ Len(stack') = Len(stack) /\ stack' # <<>>
      /\ stack'[Len(stack)] = top
      /\ \A i \in 1..Len(stack) - 1 : stack'[i] = stack[i]
  BY <1>2, <1>3, TopFacts
<1>6. \A c \in Calls!Top.fresh :
        /\ c \in Contexts /\ Calls!Unshared(c)
        /\ ctx[c].callable \in Calls!ScopesTo(Len(stack))
        /\ ctx[c].this \in Calls!ScopesTo(Len(stack))
  BY FreshUnshared
<1>7. Calls!Scope \in Calls!ScopesTo(Len(stack))
  BY OwnScope
<1>8. \A c \in Calls!Top.fresh :
        /\ ctx'[c].callable \in Calls!ScopesTo(Len(stack))
        /\ ctx'[c].this \in Calls!ScopesTo(Len(stack))
  BY <1>6, <1>7
<1>9. QED
  BY <1>1, <1>4, <1>5, <1>6, <1>8 DEF RunningStep

\* The running frame takes a context, with handles of its own scope or those it had.
LEMMA TakesContext ==
  ASSUME Calls!TypeOK, Calls!ScopeInv, stack # <<>>,
         NEW c \in Contexts, c \in Calls!Top.fresh \/ Calls!Unshared(c),
         NEW top \in Calls!Frames,
         top.scope = stack[Len(stack)].scope,
         top.fresh = stack[Len(stack)].fresh \cup {c},
         stack' = [stack EXCEPT ![Len(stack)] = top],
         NEW value, ctx' = [ctx EXCEPT ![c] = value], ctx' \in CtxType,
         value.callable \in Calls!ScopesTo(Len(stack)),
         value.this \in Calls!ScopesTo(Len(stack))
  PROVE  RunningStep
<1>1. /\ Len(stack) \in Nat \ {0} /\ Calls!Top = stack[Len(stack)]
  BY RunningFrame
<1>2. /\ stack' \in Seq(Calls!Frames) /\ Len(stack') = Len(stack) /\ stack' # <<>>
      /\ stack'[Len(stack)] = top
      /\ \A i \in 1..Len(stack) - 1 : stack'[i] = stack[i]
  BY TopFacts
<1>3. \A d \in Calls!Top.fresh :
        /\ d \in Contexts /\ Calls!Unshared(d)
        /\ ctx[d].callable \in Calls!ScopesTo(Len(stack))
        /\ ctx[d].this \in Calls!ScopesTo(Len(stack))
  BY FreshUnshared
<1>4. ctx'[c] = value /\ \A d \in Contexts : d # c => ctx'[d] = ctx[d]
  BY DEF Calls!TypeOK
<1>5. Calls!Unshared(c)
  BY <1>3
<1>6. \A d \in Contexts : ctx'[d] = ctx[d] \/ Calls!Unshared(d)
  BY <1>4, <1>5
<1>7. \A d \in stack'[Len(stack)].fresh :
        /\ d \in stack[Len(stack)].fresh \/ Calls!Unshared(d)
        /\ ctx'[d].callable \in Calls!ScopesTo(Len(stack))
        /\ ctx'[d].this \in Calls!ScopesTo(Len(stack))
  <2> SUFFICES ASSUME NEW d \in stack[Len(stack)].fresh \cup {c}
               PROVE  /\ d \in stack[Len(stack)].fresh \/ Calls!Unshared(d)
                      /\ ctx'[d].callable \in Calls!ScopesTo(Len(stack))
                      /\ ctx'[d].this \in Calls!ScopesTo(Len(stack))
    BY <1>2
  <2>1. CASE d = c
    BY <1>4, <1>5, <2>1
  <2>2. CASE d # c
    BY <1>1, <1>3, <1>4, <2>2
  <2>3. QED
    BY <2>1, <2>2
<1>8. QED
  BY <1>2, <1>6, <1>7 DEF RunningStep

\* Filling empty caches adds no handle but one of the running scope.
LEMMA CachedFacts ==
  ASSUME Calls!TypeOK, stack # <<>>, NEW c \in Contexts,
         ctx' = [ctx EXCEPT ![c] = Calls!Cached(@)]
  PROVE  /\ ctx' \in CtxType
         /\ \A d \in Contexts : d # c => ctx'[d] = ctx[d]
         /\ ctx'[c].callable \in {ctx[c].callable, Calls!Scope}
         /\ ctx'[c].this \in {ctx[c].this, Calls!Scope}
<1>1. Calls!Scope \in Nat
  BY RunningFrame
<1>2. ctx \in CtxType
  BY DEF Calls!TypeOK, CtxType
<1>3. /\ Calls!Cached(ctx[c]) \in [ref : BOOLEAN, callable : Nat \cup {None}, this : Nat \cup {None}]
      /\ Calls!Cached(ctx[c]).callable \in {ctx[c].callable, Calls!Scope}
      /\ Calls!Cached(ctx[c]).this \in {ctx[c].this, Calls!Scope}
  BY <1>1, <1>2 DEF Calls!Cached, CtxType
<1>4. QED
  BY <1>2, <1>3 DEF CtxType

\* Every other step than entering and leaving C++ is one of the running frame.
LEMMA BodyRuns ==
  ASSUME Calls!TypeOK, Calls!ScopeInv,
         Calls!BodyThrows \/ Calls!BodyHandles \/ Calls!JsReturns
  PROVE  RunningStep /\ ctx' \in CtxType
<1>1. ctx' \in CtxType /\ ctx' = ctx /\ stack # <<>>
  BY DEF Calls!BodyThrows, Calls!BodyHandles, Calls!JsReturns, Calls!In, Calls!TypeOK, CtxType
<1>2. \E to \in {"body", "throwing", "import"} : Calls!Goes(to)
  BY DEF Calls!BodyThrows, Calls!BodyHandles, Calls!JsReturns
<1>3. QED
  BY <1>1, <1>2, PcChange

\* JavaScript throws into the running frame.
LEMMA ThrowRuns ==
  ASSUME Calls!TypeOK, Calls!ScopeInv, NEW e \in Errors, Calls!JsThrows(e)
  PROVE  RunningStep /\ ctx' \in CtxType
<1>1. ctx' \in CtxType /\ ctx' = ctx /\ stack # <<>>
  BY DEF Calls!JsThrows, Calls!In, Calls!TypeOK, CtxType
<1>2. /\ Len(stack) \in Nat \ {0} /\ Calls!Top = stack[Len(stack)]
      /\ Calls!Top \in Calls!Frames
  BY <1>1, RunningFrame
<1> DEFINE top == [stack[Len(stack)] EXCEPT !.pc = "throwing", !.raised = e]
<1>3. top \in Calls!Frames
  BY <1>2 DEF Calls!Frames
<1>4. stack \in Seq(Calls!Frames) /\ Len(stack) \in DOMAIN stack
  BY <1>2, LenProperties DEF Calls!TypeOK
<1>5. stack' = [stack EXCEPT ![Len(stack)] = top]
  BY <1>2, <1>4 DEF Calls!JsThrows
<1>6. top.scope = stack[Len(stack)].scope /\ top.fresh = stack[Len(stack)].fresh
  BY <1>2 DEF Calls!Frames
<1> HIDE DEF top
<1>7. /\ stack' \in Seq(Calls!Frames) /\ Len(stack') = Len(stack) /\ stack' # <<>>
      /\ stack'[Len(stack)] = top
      /\ \A i \in 1..Len(stack) - 1 : stack'[i] = stack[i]
  BY <1>1, <1>3, <1>5, TopFacts
<1>8. \A c \in Calls!Top.fresh :
        /\ ctx[c].callable \in Calls!ScopesTo(Len(stack))
        /\ ctx[c].this \in Calls!ScopesTo(Len(stack))
  BY <1>1, FreshUnshared
<1>9. QED
  BY <1>1, <1>2, <1>6, <1>7, <1>8 DEF RunningStep

\* A call, or one that fails, fills the caches of a context in use.
LEMMA CallRuns ==
  ASSUME Calls!TypeOK, Calls!ScopeInv, NEW c \in Contexts,
         Calls!SetCallableFails(c) \/ Calls!CallFails(c) \/ Calls!Call(c)
  PROVE  RunningStep /\ ctx' \in CtxType
<1>1. stack # <<>> /\ c \in Calls!Top.fresh
  BY DEF Calls!SetCallableFails, Calls!CallFails, Calls!Call, Calls!MayTouch, Calls!In
<1>2. \E to \in {"body", "throwing", "import"} : Calls!Goes(to)
  BY DEF Calls!SetCallableFails, Calls!CallFails, Calls!Call
<1>3. /\ ctx' \in CtxType
      /\ \A d \in Contexts : d # c => ctx'[d] = ctx[d]
      /\ ctx'[c].callable \in {ctx[c].callable, Calls!Scope}
      /\ ctx'[c].this \in {ctx[c].this, Calls!Scope}
  <2>1. CASE Calls!SetCallableFails(c)
    BY <2>1 DEF Calls!SetCallableFails, Calls!TypeOK, CtxType
  <2>2. CASE Calls!CallFails(c) \/ Calls!Call(c)
    BY <1>1, <2>2, CachedFacts DEF Calls!CallFails, Calls!Call
  <2>3. QED
    BY <2>1, <2>2
<1>4. QED
  BY <1>1, <1>2, <1>3, PcChange

\* A frame state with one more context in use.
LEMMA TakenFrame ==
  ASSUME Calls!TypeOK, stack # <<>>, NEW c \in Contexts,
         NEW value, Calls!Takes(c, value)
  PROVE  \E top \in Calls!Frames :
           /\ top.scope = stack[Len(stack)].scope
           /\ top.fresh = stack[Len(stack)].fresh \cup {c}
           /\ stack' = [stack EXCEPT ![Len(stack)] = top]
<1>1. /\ Len(stack) \in Nat \ {0} /\ stack[Len(stack)] \in Calls!Frames
  BY RunningFrame
<1>2. stack \in Seq(Calls!Frames) /\ Len(stack) \in DOMAIN stack
  BY <1>1, LenProperties DEF Calls!TypeOK
<1> DEFINE top == [stack[Len(stack)] EXCEPT !.fresh = @ \cup {c}]
<1>3. top \in Calls!Frames
  BY <1>1 DEF Calls!Frames
<1>4. stack' = [stack EXCEPT ![Len(stack)] = top]
  BY <1>1, <1>2 DEF Calls!Takes
<1>5. /\ top.scope = stack[Len(stack)].scope
      /\ top.fresh = stack[Len(stack)].fresh \cup {c}
  BY <1>1 DEF Calls!Frames
<1> HIDE DEF top
<1>6. QED
  BY <1>3, <1>4, <1>5

\* A frame creates, refreshes or rebinds a context that no other uses.
LEMMA TakeRuns ==
  ASSUME ~Nested, Calls!TypeOK, Calls!ScopeInv, NEW c \in Contexts,
         Calls!Create(c) \/ Calls!Refresh(c) \/ Calls!SetCallable(c)
  PROVE  RunningStep /\ ctx' \in CtxType
<1>1. stack # <<>> /\ Calls!Unshared(c)
  BY DEF Calls!Create, Calls!Refresh, Calls!SetCallable, Calls!MayTouch, Calls!In
<1>2. Calls!Scope \in Nat /\ {Calls!Scope, None} \subseteq Calls!ScopesTo(Len(stack))
  BY <1>1, RunningFrame, OwnScope
<1>3. ctx[c] \in [ref : BOOLEAN, callable : Nat \cup {None}, this : Nat \cup {None}]
      /\ ctx \in CtxType
  BY DEF Calls!TypeOK, CtxType
<1>4. c \in Calls!Top.fresh =>
        /\ ctx[c].callable \in Calls!ScopesTo(Len(stack))
        /\ ctx[c].this \in Calls!ScopesTo(Len(stack))
  BY <1>1, FreshUnshared
<1>5. \E value \in [ref : BOOLEAN, callable : Nat \cup {None}, this : Nat \cup {None}] :
        /\ Calls!Takes(c, value)
        /\ value.callable \in Calls!ScopesTo(Len(stack))
        /\ value.this \in Calls!ScopesTo(Len(stack))
  <2>1. CASE Calls!Create(c)
    <3>1. /\ Calls!Owning(Calls!Scope).callable = Calls!Scope
          /\ Calls!Owning(Calls!Scope).this = Calls!Scope
          /\ Calls!Owning(Calls!Scope) \in
               [ref : BOOLEAN, callable : Nat \cup {None}, this : Nat \cup {None}]
      BY <1>2 DEF Calls!Owning
    <3>2. QED
      BY <1>2, <2>1, <3>1 DEF Calls!Create
  <2>2. CASE Calls!Refresh(c)
    <3>1. /\ Calls!Refreshed(ctx[c]).callable \in {Calls!Scope, None}
          /\ Calls!Refreshed(ctx[c]).this = Calls!Scope
          /\ Calls!Refreshed(ctx[c]) \in
               [ref : BOOLEAN, callable : Nat \cup {None}, this : Nat \cup {None}]
      BY <1>2, <1>3 DEF Calls!Refreshed, Calls!RefreshThisArg, Calls!RefreshCallable
    <3>2. QED
      BY <1>2, <2>2, <3>1 DEF Calls!Refresh
  <2>3. CASE Calls!SetCallable(c)
    <3>1. /\ [ctx[c] EXCEPT !.ref = TRUE, !.callable = Calls!Scope].callable = Calls!Scope
          /\ [ctx[c] EXCEPT !.ref = TRUE, !.callable = Calls!Scope].this = ctx[c].this
          /\ [ctx[c] EXCEPT !.ref = TRUE, !.callable = Calls!Scope] \in
               [ref : BOOLEAN, callable : Nat \cup {None}, this : Nat \cup {None}]
      BY <1>2, <1>3
    <3>2. QED
      BY <1>2, <1>4, <2>3, <3>1 DEF Calls!SetCallable
  <2>4. QED
    BY <2>1, <2>2, <2>3
<1>6. PICK value \in [ref : BOOLEAN, callable : Nat \cup {None}, this : Nat \cup {None}] :
        /\ Calls!Takes(c, value)
        /\ value.callable \in Calls!ScopesTo(Len(stack))
        /\ value.this \in Calls!ScopesTo(Len(stack))
  BY <1>5
<1>7. ctx' = [ctx EXCEPT ![c] = value] /\ ctx' \in CtxType
  BY <1>3, <1>6 DEF Calls!Takes, CtxType
<1>8. PICK top \in Calls!Frames :
        /\ top.scope = stack[Len(stack)].scope
        /\ top.fresh = stack[Len(stack)].fresh \cup {c}
        /\ stack' = [stack EXCEPT ![Len(stack)] = top]
  BY <1>1, <1>6, TakenFrame
<1>9. QED
  BY <1>1, <1>6, <1>7, <1>8, TakesContext

\* A frame borrows a context for an argument.
LEMMA BorrowRuns ==
  ASSUME Calls!TypeOK, Calls!ScopeInv, NEW c \in Contexts, Calls!Borrow(c)
  PROVE  RunningStep /\ ctx' \in CtxType
<1>1. stack # <<>> /\ Calls!Unshared(c)
  BY DEF Calls!Borrow, Calls!MayTouch, Calls!In
<1>2. Calls!Scope \in Nat /\ Calls!Scope \in Calls!ScopesTo(Len(stack))
  BY <1>1, RunningFrame, OwnScope
<1>3. /\ ctx' = [ctx EXCEPT ![c] = Calls!Borrowing(Calls!Scope)] /\ ctx' \in CtxType
      /\ Calls!Borrowing(Calls!Scope).callable = Calls!Scope
      /\ Calls!Borrowing(Calls!Scope).this = Calls!Scope
  BY <1>2 DEF Calls!Borrow, Calls!TypeOK, CtxType, Calls!Borrowing
<1>4. /\ Len(stack) \in Nat \ {0} /\ stack[Len(stack)] \in Calls!Frames
  BY <1>1, RunningFrame
<1>5. stack \in Seq(Calls!Frames) /\ Len(stack) \in DOMAIN stack
  BY <1>4, LenProperties DEF Calls!TypeOK
<1> DEFINE top == [stack[Len(stack)] EXCEPT !.fresh = @ \cup {c}, !.borrowed = @ \cup {c}]
<1>6. top \in Calls!Frames
  BY <1>4 DEF Calls!Frames
<1>7. stack' = [stack EXCEPT ![Len(stack)] = top]
  BY <1>4, <1>5 DEF Calls!Borrow
<1>8. /\ top.scope = stack[Len(stack)].scope
      /\ top.fresh = stack[Len(stack)].fresh \cup {c}
  BY <1>4 DEF Calls!Frames
<1> HIDE DEF top
<1>9. QED
  BY <1>1, <1>2, <1>3, <1>6, <1>7, <1>8, TakesContext

\* A context is moved onto another, with its handles.
LEMMA MoveRuns ==
  ASSUME Calls!TypeOK, Calls!ScopeInv, NEW c \in Contexts, NEW d \in Contexts, Calls!Move(c, d)
  PROVE  RunningStep /\ ctx' \in CtxType
<1>1. stack # <<>> /\ Calls!Unshared(c) /\ Calls!Unshared(d) /\ c # d
  BY DEF Calls!Move, Calls!MayTouch, Calls!In
<1>2. /\ Len(stack) \in Nat \ {0} /\ stack[Len(stack)] \in Calls!Frames
      /\ Calls!Top = stack[Len(stack)]
  BY <1>1, RunningFrame
<1>3. stack \in Seq(Calls!Frames) /\ Len(stack) \in DOMAIN stack
  BY <1>2, LenProperties DEF Calls!TypeOK
<1> DEFINE old == stack[Len(stack)].fresh
           new == (old \ {c, d}) \cup (IF c \in old THEN {d} ELSE {})
           top == [stack[Len(stack)] EXCEPT !.fresh = new]
<1>4. top \in Calls!Frames
  BY <1>2 DEF Calls!Frames
<1>5. stack' = [stack EXCEPT ![Len(stack)] = top]
  BY <1>2, <1>3 DEF Calls!Move
<1>6. top.scope = stack[Len(stack)].scope /\ top.fresh = new
  BY <1>2 DEF Calls!Frames
<1>7. /\ ctx' \in CtxType /\ ctx'[d] = ctx[c]
      /\ \A x \in Contexts \ {c, d} : ctx'[x] = ctx[x]
  BY <1>1 DEF Calls!Move, Calls!TypeOK, CtxType, Calls!Empty
<1> HIDE DEF top
<1>8. /\ stack' \in Seq(Calls!Frames) /\ Len(stack') = Len(stack) /\ stack' # <<>>
      /\ stack'[Len(stack)] = top
      /\ \A i \in 1..Len(stack) - 1 : stack'[i] = stack[i]
  BY <1>1, <1>4, <1>5, TopFacts
<1>9. \A x \in old :
        /\ x \in Contexts
        /\ ctx[x].callable \in Calls!ScopesTo(Len(stack))
        /\ ctx[x].this \in Calls!ScopesTo(Len(stack))
  BY <1>1, <1>2, FreshUnshared
<1>10. \A x \in new :
         /\ x \in old \/ Calls!Unshared(x)
         /\ ctx'[x].callable \in Calls!ScopesTo(Len(stack))
         /\ ctx'[x].this \in Calls!ScopesTo(Len(stack))
  BY <1>1, <1>7, <1>9
<1>11. QED
  BY <1>1, <1>6, <1>7, <1>8, <1>10 DEF RunningStep

\* A frame further out keeps its contexts while another runs; the scopes stay.
LEMMA RunningScopes ==
  ASSUME Calls!TypeOK, Calls!ScopeInv, RunningStep, ctx' \in CtxType
  PROVE  Calls!ScopeInv'
<1>1. /\ Len(stack) \in Nat \ {0} /\ stack \in Seq(Calls!Frames)
      /\ stack # <<>> /\ Calls!Top = stack[Len(stack)]
  BY RunningFrame DEF RunningStep, Calls!TypeOK
<1>2. \A i \in 1..Len(stack) : i \in 1..Len(stack) - 1 \/ i = Len(stack)
  BY <1>1
<1>3. \A i \in 1..Len(stack) : stack'[i].scope = stack[i].scope
  BY <1>2 DEF RunningStep
<1>4. Len(stack') = Len(stack)
  BY DEF RunningStep
<1>5. \A i \in 1..Len(stack) : Calls!ScopesTo(i)' = Calls!ScopesTo(i)
  <2> SUFFICES ASSUME NEW i \in 1..Len(stack) PROVE Calls!ScopesTo(i)' = Calls!ScopesTo(i)
    OBVIOUS
  <2>1. \A k \in 1..i : stack'[k].scope = stack[k].scope
    BY <1>1, <1>3
  <2>2. QED
    BY <2>1 DEF Calls!ScopesTo
<1>6. \A i \in 1..Len(stack) - 1 : \A c \in stack[i].fresh : c \in Contexts /\ ~Calls!Unshared(c)
  <2> SUFFICES ASSUME NEW i \in 1..Len(stack) - 1, NEW c \in stack[i].fresh
               PROVE  c \in Contexts /\ ~Calls!Unshared(c)
    OBVIOUS
  <2>1. stack[i] \in Calls!Frames
    BY <1>1, ElementOfSeq
  <2>2. QED
    BY <2>1 DEF Calls!Frames, Calls!Unshared
<1>7. \A i \in 1..Len(stack) - 1 : stack'[i] = stack[i] /\ \A c \in stack[i].fresh : ctx'[c] = ctx[c]
  BY <1>6 DEF RunningStep
<1>8. \A c \in stack'[Len(stack)].fresh :
        \A i \in 1..Len(stack) - 1 : c \notin stack[i].fresh
  <2> SUFFICES ASSUME NEW c \in stack'[Len(stack)].fresh, NEW i \in 1..Len(stack) - 1
               PROVE  c \notin stack[i].fresh
    OBVIOUS
  <2>1. c \in stack[Len(stack)].fresh \/ Calls!Unshared(c)
    BY DEF RunningStep
  <2>2. c \in Calls!Top.fresh => Calls!Unshared(c)
    BY <1>1, FreshUnshared
  <2>3. QED
    BY <1>1, <2>1, <2>2 DEF Calls!Unshared
<1>9. \A i, j \in 1..Len(stack) : i # j => stack'[i].fresh \cap stack'[j].fresh = {}
  <2> SUFFICES ASSUME NEW i \in 1..Len(stack), NEW j \in 1..Len(stack), i # j
               PROVE  stack'[i].fresh \cap stack'[j].fresh = {}
    OBVIOUS
  <2>1. CASE i \in 1..Len(stack) - 1 /\ j \in 1..Len(stack) - 1
    BY <1>1, <1>7, <2>1 DEF Calls!ScopeInv
  <2>2. CASE i = Len(stack) \/ j = Len(stack)
    BY <1>2, <1>7, <1>8, <2>2
  <2>3. QED
    BY <1>2, <2>1, <2>2
<1>10. \A i \in 1..Len(stack) : \A c \in stack'[i].fresh :
         ctx'[c].callable \in Calls!ScopesTo(i) /\ ctx'[c].this \in Calls!ScopesTo(i)
  <2>1. \A i \in 1..Len(stack) - 1 : i \in 1..Len(stack)
    BY <1>1
  <2>2. ASSUME NEW i \in 1..Len(stack) - 1 PROVE \A c \in stack'[i].fresh :
         ctx'[c].callable \in Calls!ScopesTo(i) /\ ctx'[c].this \in Calls!ScopesTo(i)
    BY <1>7, <2>1 DEF Calls!ScopeInv
  <2>3. QED
    BY <1>2, <2>2 DEF RunningStep
<1>11. QED
  BY <1>4, <1>5, <1>9, <1>10 DEF Calls!ScopeInv

\* A new frame is a frame.
LEMMA EnterTyped == Calls!TypeOK /\ Calls!Enter => Calls!TypeOK'
<1> SUFFICES ASSUME Calls!TypeOK, Calls!Enter PROVE Calls!TypeOK'
  OBVIOUS
<1> DEFINE top == [scope |-> calls + 1, pc |-> "body", fresh |-> {},
                     borrowed |-> {}, raised |-> None]
<1>1. top \in Calls!Frames /\ stack' = Append(stack, top)
  BY DEF Calls!Enter, Calls!TypeOK, Calls!Frames
<1> HIDE DEF top
<1>2. stack' \in Seq(Calls!Frames)
  BY <1>1, AppendProperties DEF Calls!TypeOK
<1>3. QED
  BY <1>2 DEF Calls!Enter, Calls!TypeOK

\* The frames below one that returns stay as they are.
LEMMA LeaveTyped ==
  ASSUME Calls!TypeOK, stack # <<>>, NEW exception, Calls!Leave(exception)
  PROVE  Calls!TypeOK'
<1>1. stack' \in Seq(Calls!Frames)
  BY FrontFacts DEF Calls!Leave, Calls!Front, Calls!TypeOK
<1>2. QED
  BY <1>1 DEF Calls!Leave, Calls!TypeOK, Calls!Empty

\* A new frame uses nothing yet; its scope is the innermost.
LEMMA EnterScopes ==
  ASSUME Calls!TypeOK, Calls!ScopeInv, Calls!Enter
  PROVE  Calls!TypeOK' /\ Calls!ScopeInv'
<1> DEFINE top == [scope |-> calls + 1, pc |-> "body", fresh |-> {},
                     borrowed |-> {}, raised |-> None]
<1>1. top \in Calls!Frames /\ top.fresh = {} /\ stack' = Append(stack, top)
  BY DEF Calls!Enter, Calls!TypeOK, Calls!Frames
<1> HIDE DEF top
<1>2. /\ stack' \in Seq(Calls!Frames) /\ Len(stack) \in Nat /\ Len(stack') = Len(stack) + 1
      /\ \A i \in 1..Len(stack) : stack'[i] = stack[i]
      /\ stack'[Len(stack) + 1] = top
  BY <1>1, AppendProperties, LenProperties DEF Calls!TypeOK
<1>3. Calls!TypeOK' /\ ctx' = ctx
  BY EnterTyped DEF Calls!Enter
<1>4. \A i \in 1..Len(stack') : i \in 1..Len(stack) \/ i = Len(stack) + 1
  BY <1>2
<1>5. \A i \in 1..Len(stack) : Calls!ScopesTo(i)' = Calls!ScopesTo(i)
  <2> SUFFICES ASSUME NEW i \in 1..Len(stack) PROVE Calls!ScopesTo(i)' = Calls!ScopesTo(i)
    OBVIOUS
  <2>1. \A k \in 1..i : stack'[k].scope = stack[k].scope
    BY <1>2
  <2>2. QED
    BY <2>1 DEF Calls!ScopesTo
<1>6. QED
  BY <1>1, <1>2, <1>3, <1>4, <1>5 DEF Calls!ScopeInv

\* The innermost frame goes, and the contexts that it borrowed; those of the frames
\* further out never had handles of its scope.
LEMMA LeaveScopes ==
  ASSUME Calls!TypeOK, Calls!ScopeInv, stack # <<>>, NEW exception, Calls!Leave(exception)
  PROVE  Calls!TypeOK' /\ Calls!ScopeInv'
<1>1. Len(stack) \in Nat \ {0} /\ stack \in Seq(Calls!Frames)
  BY RunningFrame DEF Calls!TypeOK
<1>2. \A i \in 1..Len(stack) - 1 : i \in 1..Len(stack) /\ stack[i] \in Calls!Frames
  BY <1>1, LenProperties
<1>3. stack' = SubSeq(stack, 1, Len(stack) - 1)
  BY DEF Calls!Leave, Calls!Front
<1>4. /\ stack' \in Seq(Calls!Frames) /\ Len(stack') = Len(stack) - 1
      /\ \A i \in 1..Len(stack) - 1 : stack'[i] = stack[i]
  BY <1>1, <1>3, FrontFacts
<1>5. /\ ctx' \in CtxType
      /\ \A c \in Contexts : ctx'[c] = ctx[c] \/ (ctx'[c].callable = None /\ ctx'[c].this = None)
  BY DEF Calls!Leave, Calls!TypeOK, CtxType, Calls!Empty
<1>6. Calls!TypeOK'
  BY LeaveTyped
<1>7. \A i \in 1..Len(stack) - 1 : Calls!ScopesTo(i)' = Calls!ScopesTo(i)
  <2> SUFFICES ASSUME NEW i \in 1..Len(stack) - 1 PROVE Calls!ScopesTo(i)' = Calls!ScopesTo(i)
    OBVIOUS
  <2>1. \A k \in 1..i : stack'[k].scope = stack[k].scope
    BY <1>1, <1>4
  <2>2. QED
    BY <2>1 DEF Calls!ScopesTo
<1>8. \A i \in 1..Len(stack) - 1 : \A c \in stack'[i].fresh :
         ctx'[c].callable \in Calls!ScopesTo(i) /\ ctx'[c].this \in Calls!ScopesTo(i)
  <2> SUFFICES ASSUME NEW i \in 1..Len(stack) - 1, NEW c \in stack'[i].fresh
               PROVE  ctx'[c].callable \in Calls!ScopesTo(i) /\ ctx'[c].this \in Calls!ScopesTo(i)
    OBVIOUS
  <2>1. i \in 1..Len(stack) /\ c \in stack[i].fresh /\ c \in Contexts
    BY <1>2, <1>4 DEF Calls!Frames
  <2>2. /\ ctx[c].callable \in Calls!ScopesTo(i) /\ ctx[c].this \in Calls!ScopesTo(i)
        /\ None \in Calls!ScopesTo(i)
    BY <2>1 DEF Calls!ScopeInv, Calls!ScopesTo
  <2>3. QED
    BY <1>5, <2>1, <2>2
<1>9. \A i, j \in 1..Len(stack) - 1 : i # j => stack'[i].fresh \cap stack'[j].fresh = {}
  BY <1>2, <1>4 DEF Calls!ScopeInv
<1>10. QED
  BY <1>4, <1>6, <1>7, <1>8, <1>9 DEF Calls!ScopeInv

\* Every step keeps the scopes of handles.
LEMMA ScopeStep ==
  ~Nested /\ Calls!TypeOK /\ Calls!ScopeInv /\ [Calls!Next]_(Calls!vars)
    => Calls!TypeOK' /\ Calls!ScopeInv'
<1> SUFFICES ASSUME ~Nested, Calls!TypeOK, Calls!ScopeInv, [Calls!Next]_(Calls!vars)
             PROVE  Calls!TypeOK' /\ Calls!ScopeInv'
  OBVIOUS
<1>1. ASSUME RunningStep, ctx' \in CtxType, calls' = calls
      PROVE  Calls!TypeOK' /\ Calls!ScopeInv'
  BY <1>1, RunningScopes DEF RunningStep, CtxType, Calls!TypeOK
<1>2. CASE Calls!Enter
  BY <1>2, EnterScopes
<1>3. CASE Calls!Return \/ Calls!Boundary
  BY <1>3, LeaveScopes DEF Calls!Return, Calls!Boundary, Calls!In
<1>4. CASE Calls!BodyThrows \/ Calls!BodyHandles \/ Calls!JsReturns
  <2>1. calls' = calls
    BY <1>4 DEF Calls!BodyThrows, Calls!BodyHandles, Calls!JsReturns
  <2>2. QED
    BY <1>1, <1>4, <2>1, BodyRuns
<1>5. ASSUME NEW c \in Contexts, Calls!Create(c) \/ Calls!Refresh(c) \/ Calls!SetCallable(c)
      PROVE  Calls!TypeOK' /\ Calls!ScopeInv'
  <2>1. calls' = calls
    BY <1>5 DEF Calls!Create, Calls!Refresh, Calls!SetCallable, Calls!Takes
  <2>2. QED
    BY <1>1, <1>5, <2>1, TakeRuns
<1>6. ASSUME NEW c \in Contexts, Calls!Borrow(c) PROVE Calls!TypeOK' /\ Calls!ScopeInv'
  <2>1. calls' = calls
    BY <1>6 DEF Calls!Borrow
  <2>2. QED
    BY <1>1, <1>6, <2>1, BorrowRuns
<1>7. ASSUME NEW c \in Contexts, Calls!SetCallableFails(c) \/ Calls!CallFails(c) \/ Calls!Call(c)
      PROVE  Calls!TypeOK' /\ Calls!ScopeInv'
  <2>1. calls' = calls
    BY <1>7 DEF Calls!SetCallableFails, Calls!CallFails, Calls!Call
  <2>2. QED
    BY <1>1, <1>7, <2>1, CallRuns
<1>8. ASSUME NEW c \in Contexts, NEW d \in Contexts, Calls!Move(c, d)
      PROVE  Calls!TypeOK' /\ Calls!ScopeInv'
  <2>1. calls' = calls
    BY <1>8 DEF Calls!Move
  <2>2. QED
    BY <1>1, <1>8, <2>1, MoveRuns
<1>9. ASSUME NEW e \in Errors, Calls!JsThrows(e) PROVE Calls!TypeOK' /\ Calls!ScopeInv'
  <2>1. calls' = calls
    BY <1>9 DEF Calls!JsThrows
  <2>2. QED
    BY <1>1, <1>9, <2>1, ThrowRuns
<1>10. ASSUME UNCHANGED <<stack, ctx, calls>> PROVE Calls!TypeOK' /\ Calls!ScopeInv'
  BY <1>10 DEF Calls!TypeOK, Calls!ScopeInv, Calls!ScopesTo
<1>11. CASE Calls!Refuse \/ Calls!Finished \/ UNCHANGED Calls!vars
  BY <1>10, <1>11 DEF Calls!Refuse, Calls!Finished, Calls!vars
<1>12. QED
  BY <1>2, <1>3, <1>4, <1>5, <1>6, <1>7, <1>8, <1>9, <1>11 DEF Calls!Next

\* In every reachable state the handles that the running frame may call through are of
\* scopes still open, whatever callbacks ran and returned in between (context_t, refresh,
\* invoke_impl).
THEOREM HandlesStayInScope == ASSUME ~Nested PROVE Calls!Spec => []HandlesInScope
<1>1. Calls!Init => Calls!TypeOK /\ Calls!ScopeInv
  <2> SUFFICES ASSUME Calls!Init PROVE Calls!TypeOK /\ Calls!ScopeInv
    OBVIOUS
  <2>1. Len(stack) = 0 /\ stack \in Seq(Calls!Frames)
    BY EmptySeq DEF Calls!Init
  <2>2. QED
    BY <2>1 DEF Calls!Init, Calls!TypeOK, Calls!ScopeInv, Calls!Empty
<1>2. Calls!TypeOK /\ Calls!ScopeInv => HandlesInScope
  <2> SUFFICES ASSUME Calls!TypeOK, Calls!ScopeInv, stack # <<>>, NEW c \in Calls!Top.fresh
               PROVE  {ctx[c].callable, ctx[c].this} \subseteq Calls!Open \cup {None}
    BY DEF HandlesInScope, Calls!HandlesInScope
  <2>1. DOMAIN stack = 1..Len(stack)
    BY LenProperties DEF Calls!TypeOK
  <2>2. Calls!ScopesTo(Len(stack)) = Calls!Open \cup {None}
    BY <2>1 DEF Calls!ScopesTo, Calls!Open
  <2>3. QED
    BY <2>2, FreshUnshared
<1>3. QED
  BY <1>1, <1>2, ScopeStep, PTL DEF Calls!Spec

\* The running frame changes: the frames below it stay inside their calls.
LEMMA PendingRuns ==
  ASSUME Calls!TypeOK, Calls!PendingInv, stack # <<>>, NEW top \in Calls!Frames,
         stack' = [stack EXCEPT ![Len(stack)] = top],
         top.pc = "import" => top.raised = None,
         pending' = top.raised
  PROVE  Calls!PendingInv' /\ stack' \in Seq(Calls!Frames) /\ Len(stack') = Len(stack)
<1>1. /\ Len(stack') = Len(stack) /\ Len(stack) \in Nat \ {0} /\ stack' # <<>>
      /\ stack' \in Seq(Calls!Frames)
      /\ stack'[Len(stack)] = top
      /\ \A i \in 1..Len(stack) - 1 : stack'[i] = stack[i]
  BY TopFacts
<1>2. Len(stack) \in Nat
  BY <1>1
<1>3. \A i \in 1..Len(stack) : i \in 1..Len(stack) - 1 \/ i = Len(stack)
  BY ONLY <1>2
<1>4. \A i \in 1..Len(stack) - 1 : i \in 1..Len(stack)
  BY ONLY <1>2
<1>5. \A i \in 1..Len(stack) - 1 : stack'[i].pc = "import" /\ stack'[i].raised = None
  BY <1>1, <1>4 DEF Calls!PendingInv
<1>6. Calls!Top' = top
  BY <1>1 DEF Calls!Top, Calls!Last
<1>7. QED
  BY <1>1, <1>3, <1>5, <1>6 DEF Calls!PendingInv

\* A frame that goes on without a call has what it raised still pending.
LEMMA PendingGoes ==
  ASSUME Calls!TypeOK, Calls!PendingInv, stack # <<>>,
         NEW to \in {"body", "throwing", "import"}, Calls!Goes(to),
         to = "import" => pending = None, pending' = pending
  PROVE  Calls!PendingInv' /\ stack' \in Seq(Calls!Frames) /\ Len(stack') = Len(stack)
<1>1. /\ Len(stack) \in Nat \ {0} /\ stack[Len(stack)] \in Calls!Frames
      /\ Calls!Top = stack[Len(stack)]
  BY RunningFrame
<1>2. pending = stack[Len(stack)].raised
  BY <1>1 DEF Calls!PendingInv
<1> DEFINE top == [stack[Len(stack)] EXCEPT !.pc = to]
<1>3. /\ top \in Calls!Frames /\ top.pc = to /\ top.raised = stack[Len(stack)].raised
  BY <1>1 DEF Calls!Frames
<1>4. stack' = [stack EXCEPT ![Len(stack)] = top]
  BY DEF Calls!Goes
<1> HIDE DEF top
<1>5. QED
  BY <1>2, <1>3, <1>4, PendingRuns

\* A new frame starts with nothing pending: the one below is inside a call.
LEMMA PendingEnter ==
  ASSUME Calls!TypeOK, Calls!PendingInv, Calls!Enter
  PROVE  Calls!PendingInv'
<1> DEFINE top == [scope |-> calls + 1, pc |-> "body", fresh |-> {},
                     borrowed |-> {}, raised |-> None]
<1>1. /\ top \in Calls!Frames /\ top.raised = None /\ top.pc = "body"
      /\ stack' = Append(stack, top)
  BY DEF Calls!Enter, Calls!TypeOK, Calls!Frames
<1> HIDE DEF top
<1>2. /\ stack' \in Seq(Calls!Frames) /\ Len(stack) \in Nat /\ Len(stack') = Len(stack) + 1
      /\ \A i \in 1..Len(stack) : stack'[i] = stack[i]
      /\ stack'[Len(stack) + 1] = top /\ stack' # <<>>
  BY <1>1, AppendProperties, LenProperties DEF Calls!TypeOK
<1>3. \A i \in 1..Len(stack) : i \in 1..Len(stack) - 1 \/ i = Len(stack)
  BY <1>2
<1>4. \A i \in 1..Len(stack') : i \in 1..Len(stack) \/ i = Len(stack) + 1
  BY <1>2
<1>5. stack # <<>> => Len(stack) \in 1..Len(stack) /\ stack[Len(stack)].pc = "import"
  BY RunningFrame DEF Calls!Enter, Calls!In
<1>6. \A i \in 1..Len(stack) : stack # <<>>
  BY <1>2, EmptySeq
<1>7. \A i \in 1..Len(stack) : stack[i].pc = "import" /\ stack[i].raised = None
  BY <1>3, <1>5, <1>6 DEF Calls!PendingInv
<1>8. pending = None
  BY <1>5, <1>7 DEF Calls!PendingInv, Calls!Top, Calls!Last
<1>9. Calls!Top' = top /\ Len(stack') - 1 = Len(stack)
  BY <1>2 DEF Calls!Top, Calls!Last
<1>10. pending' = None
  BY <1>8 DEF Calls!Enter
<1>11. QED
  BY <1>1, <1>2, <1>4, <1>7, <1>9, <1>10 DEF Calls!PendingInv

\* The frame below the one that returns is inside a call.
LEMMA PendingLeave ==
  ASSUME Calls!TypeOK, Calls!PendingInv, stack # <<>>, NEW exception, Calls!Leave(exception)
  PROVE  Calls!PendingInv'
<1>1. Len(stack) \in Nat \ {0} /\ stack \in Seq(Calls!Frames)
  BY RunningFrame DEF Calls!TypeOK
<1>2. stack' = SubSeq(stack, 1, Len(stack) - 1)
  BY DEF Calls!Leave, Calls!Front
<1>3. /\ stack' \in Seq(Calls!Frames) /\ Len(stack') = Len(stack) - 1
      /\ \A i \in 1..Len(stack) - 1 : stack'[i] = stack[i]
  BY <1>1, <1>2, FrontFacts
<1>4. \A i \in 1..Len(stack) - 1 : i \in 1..Len(stack)
  BY <1>1
<1>5. \A i \in 1..Len(stack) - 1 : stack'[i].pc = "import" /\ stack'[i].raised = None
  BY <1>3, <1>4 DEF Calls!PendingInv
<1>6. stack' # <<>> => Len(stack') \in 1..Len(stack) - 1
  <2>1. stack' # <<>> => Len(stack') \in Nat \ {0}
    BY <1>3, EmptySeq
  <2>2. QED
    BY <1>1, <1>3, <2>1
<1>7. stack' # <<>> => Calls!Top'.raised = None
  BY <1>3, <1>5, <1>6 DEF Calls!Top, Calls!Last
<1>8. pending' = None
  BY DEF Calls!Leave
<1>9. \A i \in 1..Len(stack') - 1 : i \in 1..Len(stack) - 1
  BY <1>1, <1>3
<1>10. QED
  BY <1>3, <1>5, <1>7, <1>8, <1>9 DEF Calls!PendingInv

\* Every context stays well typed, whatever an action puts into one.
LEMMA TakesTyped ==
  ASSUME Calls!TypeOK, Calls!PendingInv, NEW c \in Contexts,
         Calls!Create(c) \/ Calls!Refresh(c) \/ Calls!SetCallable(c)
  PROVE  /\ ctx' \in CtxType /\ stack' \in Seq(Calls!Frames) /\ Calls!PendingInv'
         /\ calls' = calls /\ Len(stack') = Len(stack)
<1>1. stack # <<>> /\ Calls!In("body")
  BY DEF Calls!Create, Calls!Refresh, Calls!SetCallable, Calls!MayTouch, Calls!In
<1>2. Calls!Scope \in Nat /\ ctx \in CtxType
  BY <1>1, RunningFrame DEF Calls!TypeOK, CtxType
<1>3. \E value \in [ref : BOOLEAN, callable : Nat \cup {None}, this : Nat \cup {None}] :
        Calls!Takes(c, value)
  <2>1. CASE Calls!Create(c)
    <3>1. Calls!Owning(Calls!Scope) \in
            [ref : BOOLEAN, callable : Nat \cup {None}, this : Nat \cup {None}]
      BY <1>2 DEF Calls!Owning
    <3>2. QED
      BY <2>1, <3>1 DEF Calls!Create
  <2>2. CASE Calls!Refresh(c)
    <3>1. Calls!Refreshed(ctx[c]) \in
            [ref : BOOLEAN, callable : Nat \cup {None}, this : Nat \cup {None}]
      BY <1>2 DEF Calls!Refreshed, Calls!RefreshThisArg, Calls!RefreshCallable, CtxType
    <3>2. QED
      BY <2>2, <3>1 DEF Calls!Refresh
  <2>3. CASE Calls!SetCallable(c)
    <3>1. [ctx[c] EXCEPT !.ref = TRUE, !.callable = Calls!Scope] \in
            [ref : BOOLEAN, callable : Nat \cup {None}, this : Nat \cup {None}]
      BY <1>2 DEF CtxType
    <3>2. QED
      BY <2>3, <3>1 DEF Calls!SetCallable
  <2>4. QED
    BY <2>1, <2>2, <2>3
<1>4. PICK value \in [ref : BOOLEAN, callable : Nat \cup {None}, this : Nat \cup {None}] :
        Calls!Takes(c, value)
  BY <1>3
<1>5. ctx' \in CtxType /\ pending' = pending /\ calls' = calls
  BY <1>2, <1>4 DEF Calls!Takes, CtxType
<1>6. /\ Len(stack) \in Nat \ {0} /\ stack[Len(stack)] \in Calls!Frames
      /\ stack \in Seq(Calls!Frames)
  BY <1>1, RunningFrame DEF Calls!TypeOK
<1>7. Len(stack) \in DOMAIN stack
  BY <1>6, LenProperties
<1> DEFINE top == [stack[Len(stack)] EXCEPT !.fresh = @ \cup {c}]
<1>8. /\ top \in Calls!Frames /\ top.pc = stack[Len(stack)].pc
      /\ top.raised = stack[Len(stack)].raised
  BY <1>6 DEF Calls!Frames
<1>9. stack' = [stack EXCEPT ![Len(stack)] = top]
  BY <1>4, <1>6, <1>7 DEF Calls!Takes
<1> HIDE DEF top
<1>10. stack[Len(stack)].pc = "body" /\ pending = stack[Len(stack)].raised
  BY <1>1 DEF Calls!In, Calls!PendingInv, Calls!Top, Calls!Last
<1>11. QED
  BY <1>1, <1>5, <1>8, <1>9, <1>10, PendingRuns

\* So it is for a context that is borrowed,
LEMMA BorrowTyped ==
  ASSUME Calls!TypeOK, Calls!PendingInv, NEW c \in Contexts, Calls!Borrow(c)
  PROVE  /\ ctx' \in CtxType /\ stack' \in Seq(Calls!Frames) /\ Calls!PendingInv'
         /\ calls' = calls /\ Len(stack') = Len(stack)
<1>1. stack # <<>> /\ Calls!In("body")
  BY DEF Calls!Borrow, Calls!MayTouch, Calls!In
<1>2. Calls!Scope \in Nat
  BY <1>1, RunningFrame
<1>3. ctx' \in CtxType /\ pending' = pending /\ calls' = calls
  BY <1>2 DEF Calls!Borrow, Calls!TypeOK, CtxType, Calls!Borrowing
<1>4. /\ Len(stack) \in Nat \ {0} /\ stack[Len(stack)] \in Calls!Frames
      /\ stack \in Seq(Calls!Frames)
  BY <1>1, RunningFrame DEF Calls!TypeOK
<1>5. Len(stack) \in DOMAIN stack
  BY <1>4, LenProperties
<1> DEFINE top == [stack[Len(stack)] EXCEPT !.fresh = @ \cup {c}, !.borrowed = @ \cup {c}]
<1>6. /\ top \in Calls!Frames /\ top.pc = stack[Len(stack)].pc
      /\ top.raised = stack[Len(stack)].raised
  BY <1>4 DEF Calls!Frames
<1>7. stack' = [stack EXCEPT ![Len(stack)] = top]
  BY <1>4, <1>5 DEF Calls!Borrow
<1> HIDE DEF top
<1>8. stack[Len(stack)].pc = "body" /\ pending = stack[Len(stack)].raised
  BY <1>1 DEF Calls!In, Calls!PendingInv, Calls!Top, Calls!Last
<1>9. QED
  BY <1>1, <1>3, <1>6, <1>7, <1>8, PendingRuns

\* or moved,
LEMMA MoveTyped ==
  ASSUME Calls!TypeOK, Calls!PendingInv, NEW c \in Contexts, NEW d \in Contexts, Calls!Move(c, d)
  PROVE  /\ ctx' \in CtxType /\ stack' \in Seq(Calls!Frames) /\ Calls!PendingInv'
         /\ calls' = calls /\ Len(stack') = Len(stack)
<1>1. stack # <<>> /\ Calls!In("body")
  BY DEF Calls!Move, Calls!MayTouch, Calls!In
<1>2. ctx' \in CtxType /\ pending' = pending /\ calls' = calls
  BY DEF Calls!Move, Calls!TypeOK, CtxType, Calls!Empty
<1>3. /\ Len(stack) \in Nat \ {0} /\ stack[Len(stack)] \in Calls!Frames
      /\ stack \in Seq(Calls!Frames)
  BY <1>1, RunningFrame DEF Calls!TypeOK
<1>4. Len(stack) \in DOMAIN stack
  BY <1>3, LenProperties
<1> DEFINE top == [stack[Len(stack)] EXCEPT
                       !.fresh = (@ \ {c, d}) \cup (IF c \in @ THEN {d} ELSE {})]
<1>5. /\ top \in Calls!Frames /\ top.pc = stack[Len(stack)].pc
      /\ top.raised = stack[Len(stack)].raised
  BY <1>3 DEF Calls!Frames
<1>6. stack' = [stack EXCEPT ![Len(stack)] = top]
  BY <1>3, <1>4 DEF Calls!Move
<1> HIDE DEF top
<1>7. stack[Len(stack)].pc = "body" /\ pending = stack[Len(stack)].raised
  BY <1>1 DEF Calls!In, Calls!PendingInv, Calls!Top, Calls!Last
<1>8. QED
  BY <1>1, <1>2, <1>5, <1>6, <1>7, PendingRuns

\* for an exception, which the running frame has raised,
LEMMA ThrowTyped ==
  ASSUME Calls!TypeOK, Calls!PendingInv, NEW e \in Errors, Calls!JsThrows(e)
  PROVE  /\ ctx' \in CtxType /\ stack' \in Seq(Calls!Frames) /\ Calls!PendingInv'
         /\ calls' = calls /\ Len(stack') = Len(stack)
<1>1. ctx' \in CtxType /\ pending' = e /\ calls' = calls /\ stack # <<>>
  BY DEF Calls!JsThrows, Calls!In, Calls!TypeOK, CtxType
<1>2. /\ Len(stack) \in Nat \ {0} /\ stack[Len(stack)] \in Calls!Frames
      /\ stack \in Seq(Calls!Frames)
  BY <1>1, RunningFrame DEF Calls!TypeOK
<1>3. Len(stack) \in DOMAIN stack
  BY <1>2, LenProperties
<1> DEFINE top == [stack[Len(stack)] EXCEPT !.pc = "throwing", !.raised = e]
<1>4. top \in Calls!Frames /\ top.pc = "throwing" /\ top.raised = e
  BY <1>2 DEF Calls!Frames
<1>5. stack' = [stack EXCEPT ![Len(stack)] = top]
  BY <1>2, <1>3 DEF Calls!JsThrows
<1> HIDE DEF top
<1>6. QED
  BY <1>1, <1>4, <1>5, PendingRuns

\* and for a call, which is made with nothing pending.
LEMMA CallTyped ==
  ASSUME Calls!TypeOK, Calls!PendingInv, NEW c \in Contexts,
         Calls!SetCallableFails(c) \/ Calls!CallFails(c) \/ Calls!Call(c)
  PROVE  /\ ctx' \in CtxType /\ stack' \in Seq(Calls!Frames) /\ Calls!PendingInv'
         /\ calls' = calls /\ Len(stack') = Len(stack)
<1>1. stack # <<>> /\ pending' = pending /\ calls' = calls
  BY DEF Calls!SetCallableFails, Calls!CallFails, Calls!Call, Calls!MayTouch, Calls!In
<1>2. \E to \in {"body", "throwing", "import"} :
        Calls!Goes(to) /\ (to = "import" => pending = None)
  BY DEF Calls!SetCallableFails, Calls!CallFails, Calls!Call
<1>3. ctx' \in CtxType
  <2>1. CASE Calls!SetCallableFails(c)
    BY <2>1 DEF Calls!SetCallableFails, Calls!TypeOK, CtxType
  <2>2. CASE Calls!CallFails(c) \/ Calls!Call(c)
    BY <1>1, <2>2, CachedFacts DEF Calls!CallFails, Calls!Call
  <2>3. QED
    BY <2>1, <2>2
<1>4. QED
  BY <1>1, <1>2, <1>3, PendingGoes

\* Whatever the contexts are, an exception is pending exactly for the running frame.
LEMMA PendingStep ==
  Calls!TypeOK /\ Calls!PendingInv /\ [Calls!Next]_(Calls!vars)
    => /\ Calls!TypeOK' /\ Calls!PendingInv'
       /\ Calls!Return \/ Calls!Boundary \/ ~(Len(stack') < Len(stack))
<1> SUFFICES ASSUME Calls!TypeOK, Calls!PendingInv, [Calls!Next]_(Calls!vars)
             PROVE  /\ Calls!TypeOK' /\ Calls!PendingInv'
                    /\ Calls!Return \/ Calls!Boundary \/ ~(Len(stack') < Len(stack))
  OBVIOUS
<1> DEFINE Kept == Calls!TypeOK' /\ Calls!PendingInv' /\ ~(Len(stack') < Len(stack))
<1>1. Len(stack) \in Nat
  BY LenProperties DEF Calls!TypeOK
<1>2. ASSUME ctx' \in CtxType, stack' \in Seq(Calls!Frames), calls' = calls,
             Calls!PendingInv', Len(stack') = Len(stack)
      PROVE  Kept
  BY <1>1, <1>2 DEF CtxType, Calls!TypeOK
<1>3. ASSUME Calls!Enter PROVE Kept
  <2>1. Len(stack') = Len(stack) + 1
    BY <1>3 DEF Calls!Enter, Calls!TypeOK
  <2>2. QED
    BY <1>1, <1>3, <2>1, PendingEnter, EnterTyped
<1>4. CASE Calls!Return \/ Calls!Boundary
  BY <1>4, PendingLeave, LeaveTyped DEF Calls!Return, Calls!Boundary, Calls!In
<1>5. ASSUME Calls!BodyThrows \/ Calls!BodyHandles \/ Calls!JsReturns PROVE Kept
  <2>1. ctx' \in CtxType /\ pending' = pending /\ calls' = calls /\ stack # <<>>
    BY <1>5 DEF Calls!BodyThrows, Calls!BodyHandles, Calls!JsReturns, Calls!In,
                Calls!TypeOK, CtxType
  <2>2. \E to \in {"body", "throwing", "import"} :
          Calls!Goes(to) /\ (to = "import" => pending = None)
    BY <1>5 DEF Calls!BodyThrows, Calls!BodyHandles, Calls!JsReturns
  <2>3. QED
    BY <1>2, <2>1, <2>2, PendingGoes
<1>6. ASSUME NEW c \in Contexts, Calls!Create(c) \/ Calls!Refresh(c) \/ Calls!SetCallable(c)
      PROVE  Kept
  BY <1>2, <1>6, TakesTyped
<1>7. ASSUME NEW c \in Contexts, Calls!Borrow(c) PROVE Kept
  BY <1>2, <1>7, BorrowTyped
<1>8. ASSUME NEW c \in Contexts, Calls!SetCallableFails(c) \/ Calls!CallFails(c) \/ Calls!Call(c)
      PROVE  Kept
  BY <1>2, <1>8, CallTyped
<1>9. ASSUME NEW c \in Contexts, NEW d \in Contexts, Calls!Move(c, d)
      PROVE  Kept
  BY <1>2, <1>9, MoveTyped
<1>10. ASSUME NEW e \in Errors, Calls!JsThrows(e) PROVE Kept
  BY <1>2, <1>10, ThrowTyped
<1>11. ASSUME UNCHANGED <<stack, ctx, pending, calls>> PROVE Kept
  BY <1>1, <1>11 DEF Calls!TypeOK, Calls!PendingInv, Calls!Top, Calls!Last
<1>12. ASSUME Calls!Refuse \/ Calls!Finished \/ UNCHANGED Calls!vars PROVE Kept
  BY <1>11, <1>12 DEF Calls!Refuse, Calls!Finished, Calls!vars
<1>13. QED
  BY <1>3, <1>4, <1>5, <1>6, <1>7, <1>8, <1>9, <1>10, <1>12 DEF Calls!Next

\* When a frame returns, its JavaScript caller gets the exception that an imported
\* callable threw there, else an Error if C++ failed, else the value (the catch clauses
\* of callback_dispatch, and napi_throw_error, which keeps a pending exception).
THEOREM JsErrorsReachCaller == Calls!Spec => JsErrorReachesCaller
<1> DEFINE Answer == Len(stack') < Len(stack) =>
             seen' = IF Calls!Top.raised # None THEN Calls!Top.raised
                     ELSE IF Calls!Top.pc = "throwing" THEN Native ELSE Value
<1>1. Calls!Init => Calls!TypeOK /\ Calls!PendingInv
  <2> SUFFICES ASSUME Calls!Init PROVE Calls!TypeOK /\ Calls!PendingInv
    OBVIOUS
  <2>1. Len(stack) = 0 /\ stack \in Seq(Calls!Frames)
    BY EmptySeq DEF Calls!Init
  <2>2. QED
    BY <2>1 DEF Calls!Init, Calls!TypeOK, Calls!PendingInv, Calls!Empty
<1>2. ASSUME Calls!TypeOK, Calls!PendingInv, Calls!Return \/ Calls!Boundary PROVE Answer
  <2>1. stack # <<>> /\ pending = Calls!Top.raised
    BY <1>2 DEF Calls!PendingInv, Calls!Return, Calls!Boundary, Calls!In
  <2>2. CASE Calls!Return
    BY <2>1, <2>2 DEF Calls!Return, Calls!Leave, Calls!In
  <2>3. CASE Calls!Boundary
    BY <2>1, <2>3, CallsAssumption
    DEF CallsAssumption, Calls!Boundary, Calls!Leave, Calls!In, Calls!ThrowError
  <2>4. QED
    BY <1>2, <2>2, <2>3
<1>3. Calls!TypeOK /\ Calls!PendingInv /\ [Calls!Next]_(Calls!vars) => [Answer]_(Calls!vars)
  BY <1>2, PendingStep
<1>4. QED
  BY <1>1, <1>3, PendingStep, PTL DEF Calls!Spec, JsErrorReachesCaller, Calls!JsErrorReachesCaller
=============================================================================
