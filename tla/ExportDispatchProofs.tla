------------------------ MODULE ExportDispatchProofs ------------------------
(***************************************************************************)
(* For any overload list, any number of arguments and any foreign code, the  *)
(* safety properties of ExportDispatch.                                      *)
(***************************************************************************)
EXTENDS ExportDispatch, TLAPS

\* TypeOK in two halves: the Boolean variables, and the rest.
FlagTypes ==
  /\ probing \in BOOLEAN /\ aliased \in BOOLEAN /\ rejected \in BOOLEAN
  /\ mutated \in BOOLEAN /\ contradicted \in BOOLEAN

ShapeTypes ==
  /\ entry \in {"optional", "required", "member"}
  /\ overloads \in Seq(Seq(Params \cup {Sentinel}))
  /\ argc \in Nat
  /\ args \in [Args -> Values \cup {Moved}] /\ initial \in [Args -> Values]
  /\ k \in 1..Len(overloads) + 1
  /\ phase \in {"receiver", "select", "prepare", "probe", "convert", "call", "done"}
  /\ pos \in 1..argc + 1
  /\ prepared \subseteq Args /\ converted \subseteq Args
  /\ outcome \in {"none", "value", "empty", "raised"}
  /\ called \in 0..Len(overloads)
  /\ froms \in [Args -> Nat]

\* A call that has looked at nothing satisfies the invariant.
LEMMA InitIInv == Init => IInv
<1> SUFFICES ASSUME Init PROVE IInv
  OBVIOUS
<1> USE DispatchAssumption DEF Init, Args
<1>1. TypeOK
  <2>1. FlagTypes
    BY Zenon DEF FlagTypes
  <2>2. ShapeTypes
    BY DEF ShapeTypes
  <2>3. QED
    BY ONLY <2>1, <2>2 DEF TypeOK, FlagTypes, ShapeTypes
<1>2. IntactInv
  BY DEF IntactInv
<1>3. PlanInv
  BY DEF PlanInv, Trying
<1>4. FitInv
  BY DEF FitInv, Trying
<1>5. SelectionInv
  BY DEF SelectionInv, FirstViableWins
<1>6. QED
  BY <1>1, <1>2, <1>3, <1>4, <1>5 DEF IInv

\* Every step keeps the flags Boolean.
LEMMA FlagTypesStep == IInv /\ [Next]_vars => FlagTypes'
<1> SUFFICES ASSUME IInv, [Next]_vars PROVE FlagTypes'
  OBVIOUS
<1> FlagTypes
  BY DEF IInv, TypeOK, FlagTypes
<1> USE DEF FlagTypes, Raise, Mismatch, ClosePlan, Rejected, ConvertScalar,
           ConvertDescriptor, ForeignCode, call, plan, history
<1>1. CASE BindReceiver
  BY <1>1, Zenon DEF BindReceiver
<1>2. CASE SkipCandidate
  BY <1>2, Zenon DEF SkipCandidate
<1>3. CASE NoCandidate
  BY <1>3, Zenon DEF NoCandidate
<1>4. CASE OpenCandidate
  BY <1>4, Zenon DEF OpenCandidate
<1>5. CASE PrepareScalar
  BY <1>5, Zenon DEF PrepareScalar
<1>6. CASE PrepareDescriptor
  BY <1>6, Zenon DEF PrepareDescriptor
<1>7. CASE PrepareThrows
  BY <1>7, Zenon DEF PrepareThrows
<1>8. CASE Prepared
  BY <1>8, Zenon DEF Prepared
<1>9. CASE ProbeAccepts
  BY <1>9, Zenon DEF ProbeAccepts
<1>10. CASE ProbeRejects
  BY <1>10, Zenon DEF ProbeRejects
<1>11. CASE ProbeThrows
  BY <1>11, Zenon DEF ProbeThrows
<1>12. CASE Commit
  BY <1>12, Zenon DEF Commit
<1>13. ASSUME NEW i \in Args, Convert(i) PROVE FlagTypes'
  BY <1>13, Zenon DEF Convert
<1>14. ASSUME NEW i \in Args, ConvertThrows(i) PROVE FlagTypes'
  BY <1>14, Zenon DEF ConvertThrows
<1>15. CASE RejectArguments
  BY <1>15, Zenon DEF RejectArguments
<1>16. CASE AcceptArguments
  BY <1>16, Zenon DEF AcceptArguments
<1>17. CASE Call
  BY <1>17, Zenon DEF Call
<1>18. CASE Done
  BY <1>18, Zenon DEF Done, vars
<1>19. CASE UNCHANGED vars
  BY <1>19, Zenon DEF vars
<1>20. QED
  BY <1>1, <1>2, <1>3, <1>4, <1>5, <1>6, <1>7, <1>8, <1>9, <1>10, <1>11,
     <1>12, <1>13, <1>14, <1>15, <1>16, <1>17, <1>18, <1>19
  DEF Next, Step

\* Every step keeps positions, candidates and arguments in range.
LEMMA ShapeTypesStep == IInv /\ [Next]_vars => ShapeTypes'
<1> SUFFICES ASSUME IInv, [Next]_vars PROVE ShapeTypes'
  OBVIOUS
<1> ShapeTypes
  BY DEF IInv, TypeOK, ShapeTypes
<1> PlanInv
  BY DEF IInv
<1> USE DispatchAssumption DEF ShapeTypes, Raise, Mismatch, ClosePlan, NextCandidate, Rejected,
           ConvertScalar, Consumes, ConvertDescriptor, ForeignCode, FirstPhase, call, plan, history, Args,
           PlanInv, Trying
<1>1. CASE BindReceiver
  BY <1>1 DEF BindReceiver
<1>2. CASE SkipCandidate
  BY <1>2 DEF SkipCandidate
<1>3. CASE NoCandidate
  BY <1>3 DEF NoCandidate
<1>4. CASE OpenCandidate
  BY <1>4 DEF OpenCandidate
<1>5. CASE PrepareScalar
  <2>1. pos \in Args /\ pos' = pos + 1 /\ prepared' = prepared \cup {pos}
    BY <1>5 DEF PrepareScalar
  <2>2. UNCHANGED <<call, args, k, phase, converted, outcome, called, froms>>
    BY <1>5 DEF PrepareScalar
  <2>3. QED
    BY <2>1, <2>2
<1>6. CASE PrepareDescriptor
  BY <1>6 DEF PrepareDescriptor
<1>7. CASE PrepareThrows
  BY <1>7 DEF PrepareThrows
<1>8. CASE Prepared
  BY <1>8 DEF Prepared
<1>9. CASE ProbeAccepts
  BY <1>9 DEF ProbeAccepts
<1>10. CASE ProbeRejects
  BY <1>10 DEF ProbeRejects
<1>11. CASE ProbeThrows
  BY <1>11 DEF ProbeThrows
<1>12. CASE Commit
  BY <1>12 DEF Commit
<1>13. ASSUME NEW i \in Args, Convert(i) PROVE ShapeTypes'
  <2>1. /\ converted' \subseteq Args
        /\ UNCHANGED <<call, k, phase, pos, prepared, outcome>>
    BY <1>13 DEF Convert
  <2>2. CASE ConvertScalar(i)
    BY <2>1, <2>2
  <2>3. CASE ConvertDescriptor(i)
    BY <2>1, <2>3
  <2>4. QED
    BY <1>13, <2>2, <2>3 DEF Convert
<1>14. ASSUME NEW i \in Args, ConvertThrows(i) PROVE ShapeTypes'
  BY <1>14 DEF ConvertThrows
<1>15. CASE RejectArguments
  BY <1>15 DEF RejectArguments
<1>16. CASE AcceptArguments
  BY <1>16 DEF AcceptArguments
<1>17. CASE Call
  BY <1>17 DEF Call
<1>18. CASE Done
  BY <1>18 DEF Done, vars
<1>19. CASE UNCHANGED vars
  BY <1>19 DEF vars
<1>20. QED
  BY <1>1, <1>2, <1>3, <1>4, <1>5, <1>6, <1>7, <1>8, <1>9, <1>10, <1>11,
     <1>12, <1>13, <1>14, <1>15, <1>16, <1>17, <1>18, <1>19
  DEF Next, Step

\* Every step of the dispatch keeps the types.
LEMMA TypeStep == IInv /\ [Next]_vars => TypeOK'
<1>1. FlagTypes' /\ ShapeTypes' => TypeOK'
  BY DEF TypeOK, FlagTypes, ShapeTypes
<1>2. QED
  BY <1>1, FlagTypesStep, ShapeTypesStep

\* Only a committed candidate touches the arguments.
LEMMA IntactStep == IInv /\ [Next]_vars => IntactInv'
<1> SUFFICES ASSUME IInv, [Next]_vars PROVE IntactInv'
  OBVIOUS
<1> USE DispatchAssumption DEF IInv, Raise, Mismatch, ClosePlan, NextCandidate, Rejected,
           ConvertScalar, Consumes, ConvertDescriptor, ForeignCode, FirstPhase, call, plan, history, Args, TypeOK, IntactInv, PlanInv,
           Trying, ArityMatches
<1>1. CASE BindReceiver
  BY <1>1 DEF BindReceiver
<1>2. CASE SkipCandidate
  BY <1>2 DEF SkipCandidate
<1>3. CASE NoCandidate
  BY <1>3 DEF NoCandidate
<1>4. CASE OpenCandidate
  BY <1>4 DEF OpenCandidate
<1>5. CASE PrepareScalar
  BY <1>5 DEF PrepareScalar
<1>6. CASE PrepareDescriptor
  BY <1>6 DEF PrepareDescriptor
<1>7. CASE PrepareThrows
  BY <1>7 DEF PrepareThrows
<1>8. CASE Prepared
  BY <1>8 DEF Prepared
<1>9. CASE ProbeAccepts
  BY <1>9 DEF ProbeAccepts
<1>10. CASE ProbeRejects
  BY <1>10 DEF ProbeRejects
<1>11. CASE ProbeThrows
  BY <1>11 DEF ProbeThrows
<1>12. CASE Commit
  BY <1>12 DEF Commit
<1>13. ASSUME NEW i \in Args, Convert(i) PROVE IntactInv'
  <2>1. /\ phase = "convert" /\ i \in Args \ converted
        /\ converted' = converted \cup {i}
        /\ UNCHANGED <<call, k, phase, pos, prepared, outcome>>
    BY <1>13 DEF Convert
  <2>2. CASE ConvertScalar(i)
    <3>1. \A j \in Args : /\ args'[j] \in {args[j], Moved}
                          /\ ~probing => args'[j] = args[j]
                          /\ j # i /\ ~aliased => args'[j] = args[j]
      BY <2>2
    <3>2. /\ \A j \in Args : j # i => froms'[j] = froms[j]
          /\ probing => froms'[i] = 1
      BY <2>1, <2>2
    <3>3. mutated' = mutated
      BY <2>2
    <3>4. ASSUME NEW j \in Args \ converted'
          PROVE  (~aliased => args'[j] # Moved) /\ (probing => froms'[j] = 0)
      <4>1. j \in Args \ converted /\ j # i
        BY <2>1
      <4>2. (~aliased => args[j] # Moved) /\ (probing => froms[j] = 0)
        BY <2>1, <4>1
      <4>3. QED
        BY <3>1, <3>2, <4>1, <4>2
    <3>5. ASSUME probing, NEW j \in Args PROVE froms'[j] <= 1
      <4>1. CASE j = i
        BY <3>2, <3>5, <4>1
      <4>2. CASE j # i
        BY <3>2, <3>5, <4>2
      <4>3. QED
        BY <4>1, <4>2
    <3>6. ~probing => \A j \in Args : args'[j] # Moved
      BY <3>1
    <3>7. ~mutated' => \A j \in Args : args'[j] \in {initial[j], Moved}
      BY <3>1, <3>3
    <3>8. QED
      BY <2>1, <3>4, <3>5, <3>6, <3>7
  <2>3. CASE ConvertDescriptor(i)
    BY <2>1, <2>3
  <2>4. QED
    BY <1>13, <2>2, <2>3 DEF Convert
<1>14. ASSUME NEW i \in Args, ConvertThrows(i) PROVE IntactInv'
  BY <1>14 DEF ConvertThrows
<1>15. CASE RejectArguments
  BY <1>15 DEF RejectArguments
<1>16. CASE AcceptArguments
  BY <1>16 DEF AcceptArguments
<1>17. CASE Call
  BY <1>17 DEF Call
<1>18. CASE Done
  BY <1>18 DEF Done, vars
<1>19. CASE UNCHANGED vars
  BY <1>19 DEF vars
<1>20. QED
  BY <1>1, <1>2, <1>3, <1>4, <1>5, <1>6, <1>7, <1>8, <1>9, <1>10, <1>11,
     <1>12, <1>13, <1>14, <1>15, <1>16, <1>17, <1>18, <1>19
  DEF Next, Step

\* The plan's findings stay true until its candidate is left.
LEMMA PlanStep == IInv /\ [Next]_vars => PlanInv'
<1> SUFFICES ASSUME IInv, [Next]_vars PROVE PlanInv'
  OBVIOUS
<1> USE DispatchAssumption DEF IInv, Raise, Mismatch, ClosePlan, NextCandidate, Rejected,
           ConvertScalar, Consumes, ConvertDescriptor, ForeignCode, FirstPhase, call, plan, history, Args, TypeOK, IntactInv, PlanInv,
           Trying, ArityMatches, Signature, Takes, IsDescriptor, Probes, Converts
<1>1. CASE BindReceiver
  <2>1. CASE phase' = "select" /\ UNCHANGED <<call, k, plan, outcome>>
    BY <1>1, <2>1 DEF BindReceiver
  <2>2. CASE Raise
    BY <1>1, <2>2 DEF BindReceiver
  <2>3. QED
    BY <1>1, <2>1, <2>2 DEF BindReceiver
<1>2. CASE SkipCandidate
  BY <1>2 DEF SkipCandidate
<1>3. CASE NoCandidate
  BY <1>3 DEF NoCandidate
<1>4. CASE OpenCandidate
  BY <1>4 DEF OpenCandidate
<1>5. CASE PrepareScalar
  BY <1>5 DEF PrepareScalar
<1>6. CASE PrepareDescriptor
  BY <1>6 DEF PrepareDescriptor
<1>7. CASE PrepareThrows
  BY <1>7 DEF PrepareThrows
<1>8. CASE Prepared
  BY <1>8 DEF Prepared
<1>9. CASE ProbeAccepts
  <2>1. \A j \in Args : Probes(j)' <=> Probes(j)
    BY <1>9 DEF ProbeAccepts
  <2>2. Probes(pos) /\ pos' = pos + 1 /\ phase = "probe" /\ pos <= argc
    BY <1>9 DEF ProbeAccepts
  <2>3. ASSUME NEW j \in 1..pos' - 1 PROVE Probes(j)'
    <3>1. j \in Args /\ (j = pos \/ j \in 1..pos - 1)
      BY <2>2
    <3>2. Probes(j)
      BY <2>2, <3>1
    <3>3. QED
      BY <2>1, <3>1, <3>2
  <2>4. QED
    BY <1>9, <2>3 DEF ProbeAccepts
<1>10. CASE ProbeRejects
  BY <1>10 DEF ProbeRejects
<1>11. CASE ProbeThrows
  BY <1>11 DEF ProbeThrows
<1>12. CASE Commit
  BY <1>12 DEF Commit
<1>13. ASSUME NEW i \in Args, Convert(i) PROVE PlanInv'
  <2>1. /\ phase = "convert" /\ i \in Args \ converted
        /\ converted' = converted \cup {i}
        /\ UNCHANGED <<call, k, phase, pos, prepared, outcome>>
    BY <1>13 DEF Convert
  <2>2. called' = called
    BY <1>13 DEF Convert
  <2>3. ~aliased => ~contradicted'
    <3>1. CASE ConvertScalar(i)
      <4>1. probing /\ ~aliased => Takes(i)
        BY <2>1, <3>1
      <4>2. QED
        BY <3>1, <4>1
    <3>2. CASE ConvertDescriptor(i)
      BY <3>2
    <3>3. QED
      BY <1>13, <3>1, <3>2 DEF Convert
  <2>4. probing /\ ~aliased => \A j \in Args \ converted' : Probes(j)'
    <3>1. probing /\ ~aliased => \A j \in Args : j # i => args'[j] = args[j]
      <4>1. CASE ConvertScalar(i)
        BY <4>1
      <4>2. CASE ConvertDescriptor(i)
        BY <4>2
      <4>3. QED
        BY <1>13, <4>1, <4>2 DEF Convert
    <3>2. QED
      BY <2>1, <3>1
  <2>5. QED
    BY <2>1, <2>2, <2>3, <2>4
<1>14. ASSUME NEW i \in Args, ConvertThrows(i) PROVE PlanInv'
  BY <1>14 DEF ConvertThrows
<1>15. CASE RejectArguments
  BY <1>15 DEF RejectArguments
<1>16. CASE AcceptArguments
  BY <1>16 DEF AcceptArguments
<1>17. CASE Call
  BY <1>17 DEF Call
<1>18. CASE Done
  BY <1>18 DEF Done, vars
<1>19. CASE UNCHANGED vars
  BY <1>19 DEF vars
<1>20. QED
  BY <1>1, <1>2, <1>3, <1>4, <1>5, <1>6, <1>7, <1>8, <1>9, <1>10, <1>11,
     <1>12, <1>13, <1>14, <1>15, <1>16, <1>17, <1>18, <1>19
  DEF Next, Step

\* Undisturbed, the plan's findings are about the original arguments.
LEMMA FitStep == IInv /\ [Next]_vars => FitInv'
<1> SUFFICES ASSUME IInv, [Next]_vars PROVE FitInv'
  OBVIOUS
<1> USE DispatchAssumption DEF IInv, Raise, Mismatch, ClosePlan, NextCandidate, Rejected,
           ConvertScalar, Consumes, ConvertDescriptor, ForeignCode, FirstPhase, call, plan, history, Args, TypeOK, IntactInv, PlanInv,
           FitInv, Fits, Suits, Trying, ArityMatches, Signature, Takes, IsDescriptor, Probes, Converts
<1>1. CASE BindReceiver
  BY <1>1 DEF BindReceiver
<1>2. CASE SkipCandidate
  BY <1>2 DEF SkipCandidate
<1>3. CASE NoCandidate
  BY <1>3 DEF NoCandidate
<1>4. CASE OpenCandidate
  <2>1. /\ converted = {} /\ prepared = {} /\ ~rejected /\ pos = 1
        /\ UNCHANGED <<call, args, k, plan, mutated>> /\ phase' = FirstPhase
    BY <1>4 DEF OpenCandidate
  <2>2. CASE ~probing
    BY <2>1, <2>2
  <2>3. CASE probing /\ \E i \in Args : IsDescriptor(i)
    BY <2>1, <2>3
  <2>4. CASE probing /\ ~\E i \in Args : IsDescriptor(i)
    BY <2>1, <2>4
  <2>5. QED
    BY <2>2, <2>3, <2>4
<1>5. CASE PrepareScalar
  <2>1. /\ phase = "prepare" /\ phase' = phase /\ ~IsDescriptor(pos)
        /\ prepared' = prepared \cup {pos} /\ pos' = pos + 1
        /\ UNCHANGED <<call, k, mutated>>
    BY ONLY <1>5 DEF PrepareScalar, history
  <2>2. \A i \in 1..pos' - 1 : i = pos \/ i \in 1..pos - 1
    BY <2>1
  <2>3. QED
    BY <2>1, <2>2
<1>6. CASE PrepareDescriptor
  <2> SUFFICES ASSUME ~mutated' PROVE FitInv'
    BY DEF FitInv
  <2>1. ~mutated /\ args' = args
    BY <1>6 DEF PrepareDescriptor
  <2>2. Takes(pos) <=> Fits(pos)
    <3>1. pos \in Args /\ phase = "prepare"
      BY <1>6 DEF PrepareDescriptor
    <3>2. args[pos] = initial[pos]
      BY <2>1, <3>1
    <3>3. QED
      BY ONLY <3>2 DEF Takes, Fits
  <2>3. /\ phase = "prepare" /\ phase' = "prepare" /\ IsDescriptor(pos)
        /\ prepared' = IF Takes(pos) THEN prepared \cup {pos} ELSE prepared
        /\ pos' = pos + 1 /\ UNCHANGED <<call, k, converted, rejected>>
    BY <1>6 DEF PrepareDescriptor
  <2>4. \A j \in prepared' : IsDescriptor(j) => Fits(j)
    BY <2>1, <2>2, <2>3
  <2>5. \A j \in 1..pos' - 1 : IsDescriptor(j) /\ Fits(j) => j \in prepared'
    <3>1. \A j \in 1..pos' - 1 : j = pos \/ j \in 1..pos - 1
      BY <2>3
    <3>2. QED
      BY <2>1, <2>2, <2>3, <3>1
  <2>6. QED
    BY <2>3, <2>4, <2>5
<1>7. CASE PrepareThrows
  BY <1>7 DEF PrepareThrows
<1>8. CASE Prepared
  BY <1>8 DEF Prepared
<1>9. CASE ProbeAccepts
  BY <1>9 DEF ProbeAccepts
<1>10. CASE ProbeRejects
  BY <1>10 DEF ProbeRejects
<1>11. CASE ProbeThrows
  BY <1>11 DEF ProbeThrows
<1>12. CASE Commit
  <2> SUFFICES ASSUME ~mutated PROVE FitInv'
    BY <1>12 DEF Commit
  <2>1. /\ phase = "probe" /\ phase' = "convert" /\ probing /\ pos > argc
        /\ converted = {} /\ ~rejected
        /\ UNCHANGED <<call, args, k, plan, mutated>>
    BY <1>12 DEF Commit
  <2>2. \A j \in Args : Probes(j)
    BY <2>1
  <2>3. \A j \in Args : args[j] = initial[j]
    BY <2>1
  <2>4. \A j \in Args : Fits(j)
    BY <2>1, <2>2, <2>3
  <2>5. QED
    BY <2>1, <2>4
<1>13. ASSUME NEW i \in Args, Convert(i) PROVE FitInv'
  <2> SUFFICES ASSUME ~mutated' PROVE FitInv'
    BY DEF FitInv
  <2>1. /\ phase = "convert" /\ i \in Args \ converted /\ converted' = converted \cup {i}
        /\ rejected' = (rejected \/ ~Converts(i))
        /\ UNCHANGED <<call, k, phase, pos, prepared, outcome>>
    BY <1>13 DEF Convert
  <2>2. ~mutated
    <3>1. CASE ConvertScalar(i)
      BY <3>1
    <3>2. CASE ConvertDescriptor(i)
      BY <3>2
    <3>3. QED
      BY <1>13, <3>1, <3>2 DEF Convert
  <2>3. Converts(i) => Suits(i)
    <3>1. CASE probing /\ IsDescriptor(i)
      <4>1. i \in prepared => Fits(i)
        BY <2>1, <2>2, <3>1
      <4>2. <<Signature[i], initial[i]>> \notin Refuses
        BY <3>1
      <4>3. QED
        BY <3>1, <4>1, <4>2
    <3>2. CASE ~(probing /\ IsDescriptor(i))
      <4>1. args[i] \in {initial[i], Moved}
        BY <2>2
      <4>2. Takes(i) => args[i] # Moved
        BY ONLY DispatchAssumption DEF DispatchAssumption, Takes
      <4>3. QED
        BY <3>2, <4>1, <4>2
    <3>3. QED
      BY <3>1, <3>2
  <2>4. ~probing /\ ~Converts(i) => ~Suits(i)
    <3>1. ~probing => args[i] = initial[i]
      BY <2>2
    <3>2. QED
      BY <3>1
  <2>5. \A j \in Args : Fits(j)' = Fits(j) /\ Suits(j)' = Suits(j) /\ IsDescriptor(j)' = IsDescriptor(j)
    BY <2>1
  <2>6. IF rejected' THEN ~probing => \E j \in Args : ~Suits(j)
        ELSE \A j \in converted' : Suits(j)
    <3> HIDE DEF Suits, Converts
    <3>1. IF rejected THEN ~probing => \E j \in Args : ~Suits(j)
          ELSE \A j \in converted : Suits(j)
      BY <2>1, <2>2
    <3>2. QED
      BY <2>1, <2>3, <2>4, <3>1
  <2>7. QED
    <3> HIDE DEF Suits, Fits, IsDescriptor, Converts
    <3>1. QED
      BY <2>1, <2>2, <2>5, <2>6
<1>14. ASSUME NEW i \in Args, ConvertThrows(i) PROVE FitInv'
  BY <1>14 DEF ConvertThrows
<1>15. CASE RejectArguments
  BY <1>15 DEF RejectArguments
<1>16. CASE AcceptArguments
  BY <1>16 DEF AcceptArguments
<1>17. CASE Call
  BY <1>17 DEF Call
<1>18. CASE Done
  BY <1>18 DEF Done, vars
<1>19. CASE UNCHANGED vars
  BY <1>19 DEF vars
<1>20. QED
  BY <1>1, <1>2, <1>3, <1>4, <1>5, <1>6, <1>7, <1>8, <1>9, <1>10, <1>11,
     <1>12, <1>13, <1>14, <1>15, <1>16, <1>17, <1>18, <1>19
  DEF Next, Step

\* A candidate is left behind only if it is not viable.
LEMMA SelectionStep == IInv /\ [Next]_vars => SelectionInv'
<1> SUFFICES ASSUME IInv, [Next]_vars PROVE SelectionInv'
  OBVIOUS
<1> USE DispatchAssumption DEF IInv, Raise, Mismatch, ClosePlan, NextCandidate, Rejected,
           ConvertScalar, Consumes, ConvertDescriptor, ForeignCode, FirstPhase, call, plan, history, Args, TypeOK, IntactInv, PlanInv,
           FitInv, SelectionInv, FirstViableWins, Viable, Fits, Suits, Trying, ArityMatches, Signature,
           Takes, IsDescriptor, Probes, Converts
<1>1. CASE BindReceiver
  BY <1>1 DEF BindReceiver
<1>2. CASE SkipCandidate
  <2>1. k' = k + 1 /\ ~Viable(k)
    <3>1. CASE Signature = <<Sentinel>>
      <4>1. Len(overloads[k]) = 1 /\ overloads[k][1] = Sentinel
        BY <3>1
      <4>2. <<Sentinel, initial[1]>> \notin Accepts
        BY ONLY DispatchAssumption DEF DispatchAssumption
      <4>3. QED
        BY <1>2, <4>1, <4>2 DEF SkipCandidate
    <3>2. CASE Len(Signature) # argc
      BY <1>2, <3>2 DEF SkipCandidate
    <3>3. QED
      BY <1>2, <3>1, <3>2 DEF SkipCandidate
  <2>2. UNCHANGED <<call, args, phase, outcome, called, mutated>>
    BY <1>2 DEF SkipCandidate
  <2>3. \A j \in 1..k' - 1 : j = k \/ j \in 1..k - 1
    BY <2>1
  <2>4. QED
    BY <2>1, <2>2, <2>3
<1>3. CASE NoCandidate
  <2>1. /\ phase = "select" /\ k > Len(overloads) /\ phase' = "done"
        /\ UNCHANGED <<call, mutated, called>>
    BY ONLY <1>3 DEF NoCandidate, history
  <2>2. \A j \in DOMAIN overloads : j \in 1..k - 1
    BY <2>1
  <2>3. ~mutated => \A j \in DOMAIN overloads : ~Viable(j)
    BY <2>1, <2>2
  <2>4. called = 0
    BY <2>1
  <2>5. QED
    BY <2>1, <2>3, <2>4
<1>4. CASE OpenCandidate
  BY <1>4 DEF OpenCandidate
<1>5. CASE PrepareScalar
  BY <1>5 DEF PrepareScalar
<1>6. CASE PrepareDescriptor
  BY <1>6 DEF PrepareDescriptor
<1>7. CASE PrepareThrows
  BY <1>7 DEF PrepareThrows
<1>8. CASE Prepared
  BY <1>8 DEF Prepared
<1>9. CASE ProbeAccepts
  BY <1>9 DEF ProbeAccepts
<1>10. CASE ProbeRejects
  BY <1>10 DEF ProbeRejects
<1>11. CASE ProbeThrows
  BY <1>11 DEF ProbeThrows
<1>12. CASE Commit
  BY <1>12 DEF Commit
<1>13. ASSUME NEW i \in Args, Convert(i) PROVE SelectionInv'
  BY <1>13 DEF Convert
<1>14. ASSUME NEW i \in Args, ConvertThrows(i) PROVE SelectionInv'
  BY <1>14 DEF ConvertThrows
<1>15. CASE RejectArguments
  <2>1. CASE probing
    BY <1>15, <2>1 DEF RejectArguments
  <2>2. CASE ~probing
    <3>1. k' = k + 1 /\ phase' = "select" /\ UNCHANGED <<call, outcome, called, mutated>>
      BY <1>15, <2>2 DEF RejectArguments
    <3>2. ~mutated => ~Viable(k)
      BY <1>15, <2>2 DEF RejectArguments
    <3>3. \A j \in 1..k' - 1 : j = k \/ j \in 1..k - 1
      BY <3>1
    <3>4. FirstViableWins'
      BY <3>1
    <3>5. phase # "done"
      BY <1>15 DEF RejectArguments
    <3>6. ~mutated => \A j \in 1..k' - 1 : ~Viable(j)
      BY <3>1, <3>2, <3>3, <3>5
    <3>7. QED
      BY <3>1, <3>4, <3>6
  <2>3. QED
    BY <2>1, <2>2
<1>16. CASE AcceptArguments
  BY <1>16 DEF AcceptArguments
<1>17. CASE Call
  BY <1>17 DEF Call
<1>18. CASE Done
  BY <1>18 DEF Done, vars
<1>19. CASE UNCHANGED vars
  BY <1>19 DEF vars
<1>20. QED
  BY <1>1, <1>2, <1>3, <1>4, <1>5, <1>6, <1>7, <1>8, <1>9, <1>10, <1>11,
     <1>12, <1>13, <1>14, <1>15, <1>16, <1>17, <1>18, <1>19
  DEF Next, Step

\* The inductive invariant holds in every reachable state.
THEOREM Invariance == Spec => []IInv
<1>1. IInv /\ [Next]_vars => IInv'
  BY TypeStep, IntactStep, PlanStep, FitStep, SelectionStep DEF IInv
<1>2. QED
  BY InitIInv, <1>1, PTL DEF Spec

\* Every variable keeps its type.
THEOREM TypeCorrect == Spec => []TypeOK
<1>1. IInv => TypeOK
  BY DEF IInv
<1>2. QED
  BY Invariance, <1>1, PTL

\* The overload that is called is the first viable one, and the empty result means
\* that there is none, unless foreign code changed the arguments.
THEOREM OrderedFirstViable == Spec => []FirstViableWins
<1>1. IInv => FirstViableWins
  BY DEF IInv, SelectionInv
<1>2. QED
  BY Invariance, <1>1, PTL

\* Selection is all-or-nothing: a candidate that failed has consumed nothing, and a
\* scalar is converted once at most.
THEOREM SelectionBeforeConsumption == Spec => []FailedCandidateConsumesNothing
<1>1. IInv => FailedCandidateConsumesNothing
  BY DEF IInv, IntactInv, FailedCandidateConsumesNothing
<1>2. QED
  BY Invariance, <1>1, PTL

\* Each conversion is given a value that the probe of the same argument accepts,
\* unless the caller aliased the arguments.
THEOREM ProbesBind == Spec => []ProbeIsBinding
<1>1. IInv => ProbeIsBinding
  BY DEF IInv, PlanInv, ProbeIsBinding
<1>2. QED
  BY Invariance, <1>1, PTL
=============================================================================
