---------------------------- MODULE MessageProofs ----------------------------
(***************************************************************************)
(* Proofs about what becomes of the messages of clients and servers:       *)
(* first about Gather, which takes commands with several keys apart, for   *)
(* any number of keys and of threads that interfere, with no assumption on *)
(* their schedule; then about ProtoStream, which finds the messages in a   *)
(* stream, for messages of any characters and lengths (IsMessage) that     *)
(* arrive in reads of any size, for any size of the buffer's chunks and    *)
(* any byte behind the text.  The two share no definition.                 *)
(***************************************************************************)
EXTENDS Gather, ProtoStream, DataLemmas

-----------------------------------------------------------------------------
(* Type correctness.                                                       *)

LEMMA StrideType == TypeOK => Stride \in {1, 2}
BY DEF Stride

\* The sub-request the loop makes is a number when there is room for it.
LEMMA PartType ==
    ASSUME TypeOK
    PROVE  Part \in Nat \ {0}
<1>1. CASE kind = "MSET"
  BY <1>1 DEF TypeOK, Part, Stride
<1>2. CASE kind # "MSET"
  BY <1>2 DEF TypeOK, Part, Stride
<1>3. QED  BY <1>1, <1>2

LEMMA ConstantTypes ==
    /\ Own \in Threads
    /\ MaxParts \in Nat \ {0}
    /\ MaxKeys \in Nat
BY MaxKeysAssumption, MaxTokensAssumption DEF Threads, MaxParts

LEMMA DispatcherType == command \in Commands => dispatcher \in Threads
BY DEF Commands, dispatcher

LEMMA KeyCountType ==
    command \in Commands => keyCount \in Nat /\ keyCount >= 2 /\ keyCount <= MaxParts
BY MaxKeysAssumption, MaxTokensAssumption DEF Commands, keyCount, MaxParts

LEMMA InitType == Init => TypeOK
<1> SUFFICES ASSUME Init PROVE TypeOK  OBVIOUS
<1>1. Tokens(command) \in Nat
  <2>1. command.keyCount \in Nat  BY KeyCountType DEF Init, keyCount
  <2>2. CASE command.kind = "MSET"  BY <2>1, <2>2 DEF Tokens
  <2>3. CASE command.kind # "MSET"  BY <2>1, <2>3 DEF Tokens
  <2> QED  BY <2>2, <2>3
<1>2. tokenCount \in Nat  BY <1>1 DEF Init
<1>3. /\ parts \in [1..MaxParts -> {"none", "sent", "finished", "deleted"}]
      /\ result \in [1..MaxParts -> {0, 1}]
  BY DEF Init
<1>4. /\ busy \in [Threads -> 0..MaxParts]
      /\ stage \in [Threads -> Stages]
      /\ reg \in [Threads -> Nat] /\ acc \in [Threads -> Nat]
      /\ \A t \in Threads : busy[t] = 0 <=> stage[t] = "idle"
  BY ConstantTypes DEF Init, Stages
<1>5. dispatching \in BOOLEAN /\ misused \in BOOLEAN  BY Zenon DEF Init
<1>6. /\ command \in Commands
      /\ context \in {"live", "deleted"}
      /\ returnCount \in Nat /\ integer \in Nat
      /\ i \in Nat \ {0}
      /\ session \in {"live", "deleted"}
      /\ answered \in Nat
  BY DEF Init
<1> QED  BY <1>2, <1>3, <1>4, <1>5, <1>6 DEF TypeOK

\* Calling finished_func keeps the types of what it sets.
LEMMA CallFinishedType ==
    ASSUME TypeOK, NEW t \in Threads, NEW n \in 1..MaxParts, CallFinished(t, n)
    PROVE  /\ parts' \in [1..MaxParts -> {"none", "sent", "finished", "deleted"}]
           /\ result' \in [1..MaxParts -> {0, 1}]
           /\ busy' \in [Threads -> 0..MaxParts]
           /\ stage' \in [Threads -> Stages]
           /\ reg' \in [Threads -> Nat] /\ acc' \in [Threads -> Nat]
           /\ \A u \in Threads : busy'[u] = 0 <=> stage'[u] = "idle"
<1>1. ResultsOn(t) \subseteq {0, 1}  BY DEF ResultsOn
<1>2. result' \in [1..MaxParts -> {0, 1}]  BY <1>1 DEF CallFinished, TypeOK
<1>3. parts' \in [1..MaxParts -> {"none", "sent", "finished", "deleted"}]
  BY DEF CallFinished, TypeOK
<1>4. /\ busy' \in [Threads -> 0..MaxParts]
      /\ stage' \in [Threads -> Stages]
      /\ reg' \in [Threads -> Nat] /\ acc' \in [Threads -> Nat]
  BY ConstantTypes DEF CallFinished, TypeOK, Stages
<1>5. \A u \in Threads : busy'[u] = 0 <=> stage'[u] = "idle"
  BY DEF CallFinished, TypeOK
<1> QED  BY <1>2, <1>3, <1>4, <1>5

LEMMA MakePartType ==
    ASSUME TypeOK, MakePart
    PROVE  Part \in 1..MaxParts /\ i' \in Nat \ {0} /\ misused' \in BOOLEAN
BY PartType, StrideType, ConstantTypes DEF MakePart, TypeOK

\* Returning from a callback that deleted its sub-request, or did not.
LEMMA ReturnType ==
    ASSUME TypeOK, NEW t \in Threads, busy[t] # 0, Return(t)
    PROVE  /\ busy' \in [Threads -> 0..MaxParts]
           /\ stage' \in [Threads -> Stages]
           /\ reg' = reg /\ acc' = acc
           /\ \A u \in Threads : busy'[u] = 0 <=> stage'[u] = "idle"
BY ConstantTypes DEF Return, TypeOK, Stages

LEMMA DeleteType ==
    ASSUME TypeOK, NEW t \in Threads, busy[t] # 0
    PROVE  /\ DeleteOwnPart(t) \in [1..MaxParts -> {"none", "sent", "finished", "deleted"}]
           /\ DeletedParts(t) \in [1..MaxParts -> {"none", "sent", "finished", "deleted"}]
<1>1. busy[t] \in 1..MaxParts  BY ConstantTypes DEF TypeOK
<1>2. DeleteOwnPart(t) \in [1..MaxParts -> {"none", "sent", "finished", "deleted"}]
  BY <1>1 DEF DeleteOwnPart, TypeOK
<1> QED  BY <1>2 DEF DeletedParts, TypeOK

LEMMA DispatchType == ASSUME TypeOK, Dispatch PROVE TypeOK'
<1>1. CASE DispatchSent
  BY <1>1, MakePartType DEF DispatchSent, TypeOK, contextVars, threadVars, answerVars
<1>2. CASE DispatchFinished
  <2>1. dispatcher \in Threads  BY DispatcherType DEF TypeOK
  <2>2. MakePart /\ CallFinished(dispatcher, Part)  BY <1>2 DEF DispatchFinished
  <2> QED
    BY <1>2, <2>1, <2>2, MakePartType, CallFinishedType
       DEF DispatchFinished, TypeOK, contextVars, answerVars
<1>3. CASE DispatchEnd
  BY <1>3 DEF DispatchEnd, TypeOK, contextVars, threadVars, answerVars
<1> QED  BY <1>1, <1>2, <1>3 DEF Dispatch

LEMMA CallbackType ==
    ASSUME TypeOK, NEW t \in Threads, Callback(t) PROVE TypeOK'
<1> USE DEF contextVars, loopVars, answerVars
<1>1. CASE LoadCount(t)
  BY <1>1 DEF LoadCount, UseContext, TypeOK, Stages
<1>2. CASE StoreCount(t)
  BY <1>2 DEF StoreCount, UseContext, TypeOK, Stages
<1>3. CASE LoadInteger(t)
  BY <1>3 DEF LoadInteger, UseContext, TypeOK, Stages
<1>4. CASE StoreInteger(t)
  <2>1. busy[t] \in 1..MaxParts  BY <1>4, ConstantTypes DEF StoreInteger, TypeOK
  <2>2. result[busy[t]] \in Nat  BY <2>1 DEF TypeOK
  <2> QED  BY <1>4, <2>2 DEF StoreInteger, UseContext, TypeOK, Stages
<1>5. CASE NotLast(t)
  <2>1. busy[t] # 0 /\ Return(t)  BY <1>5 DEF NotLast, TypeOK
  <2> QED  BY <1>5, <2>1, ReturnType, DeleteType DEF NotLast, UseContext, TypeOK
<1>6. CASE Answer(t)
  <2>1. busy[t] # 0 /\ Return(t)  BY <1>6 DEF Answer, TypeOK
  <2>2. tokenCount' \in Nat /\ session' \in {"live", "deleted"} /\ answered' \in Nat
    BY <1>6, MaxTokensAssumption DEF Answer, AnswerClient, TypeOK
  <2> QED  BY <1>6, <2>1, <2>2, ReturnType, DeleteType DEF Answer, TypeOK
<1> QED  BY <1>1, <1>2, <1>3, <1>4, <1>5, <1>6 DEF Callback

LEMMA CompleteType ==
    ASSUME TypeOK, NEW t \in Threads, NEW n \in 1..MaxParts, Complete(t, n)
    PROVE  TypeOK'
BY CallFinishedType DEF Complete, TypeOK, contextVars, loopVars, answerVars

LEMMA NextType == ASSUME TypeOK, [Next]_vars PROVE TypeOK'
<1>1. CASE UNCHANGED vars
  BY <1>1 DEF vars, TypeOK, contextVars, loopVars, threadVars, answerVars
<1> QED  BY <1>1, DispatchType, CallbackType, CompleteType DEF Next

\* Every variable keeps its type: in particular a thread is in the middle of a
\* callback exactly when it has a sub-request to complete.
THEOREM GatherTypeCorrect == Spec => []TypeOK
BY InitType, NextType, PTL DEF Spec

-----------------------------------------------------------------------------
(* The count.  Counted are the completed sub-requests whose increment is    *)
(* over.  While the client is not answered, neither returnCount nor any     *)
(* value a thread has loaded from it exceeds their number: an increment     *)
(* that is lost makes the count too small, never too large.                 *)

Counted ==
    {n \in 1..MaxParts :
        /\ parts[n] \in {"finished", "deleted"}
        /\ \A t \in Threads : stage[t] \in {"load", "store"} => busy[t] # n}

\* The loop made the first m sub-requests, and no other exists.
Made(m) ==
    /\ i = 1 + Stride * m
    /\ \A n \in 1..MaxParts : n > m => parts[n] = "none"

LoopInv == tokenCount = 1 + Stride * keyCount /\ \E m \in 0..keyCount : Made(m)

BusyInv ==
    /\ \A t \in Threads : busy[t] # 0 => parts[busy[t]] = "finished"
    /\ \A t, u \in Threads : busy[t] # 0 /\ busy[t] = busy[u] => t = u

CountInv ==
    /\ returnCount <= Cardinality(Counted)
    /\ \A t \in Threads : stage[t] = "store" => reg[t] <= Cardinality(Counted)
    /\ \A t \in Threads :
         stage[t] \in {"loadInteger", "storeInteger", "test"}
            => reg[t] + 1 <= Cardinality(Counted)

Working == LoopInv /\ BusyInv /\ CountInv

AllComplete ==
    /\ i > Stride * keyCount
    /\ \A n \in 1..keyCount : parts[n] \in {"finished", "deleted"}

GatherInv ==
    ~command.odd => /\ answered = 0 => Working
                    /\ answered > 0 => AllComplete

LEMMA CountedType ==
    /\ Counted \subseteq 1..MaxParts
    /\ IsFiniteSet(Counted)
    /\ Cardinality(Counted) \in Nat
<1>1. Counted \subseteq 1..MaxParts  BY DEF Counted
<1>2. IsFiniteSet(1..MaxParts)  BY FS_Interval, ConstantTypes
<1>3. IsFiniteSet(Counted)  BY <1>1, <1>2, FS_Subset
<1> QED  BY <1>1, <1>3, FS_CardinalityType

\* CountInv as a relation between the state before a step that changes the
\* count and the counts of no thread, and the state after it.
LEMMA CountKept ==
    ASSUME TypeOK, CountInv, Counted' = Counted,
           returnCount' = returnCount,
           \A t \in Threads :
               /\ reg'[t] = reg[t]
               /\ \/ stage'[t] = stage[t]
                  \/ stage'[t] \in {"idle", "load"}
                  \/ /\ stage[t] \in {"loadInteger", "storeInteger"}
                     /\ stage'[t] \in {"loadInteger", "storeInteger", "test"}
    PROVE  CountInv'
<1>1. Cardinality(Counted)' = Cardinality(Counted)  OBVIOUS
<1>2. returnCount' <= Cardinality(Counted)'  BY <1>1 DEF CountInv
<1>3. ASSUME NEW t \in Threads, stage'[t] = "store"
      PROVE  reg'[t] <= Cardinality(Counted)'
  BY <1>1, <1>3 DEF CountInv
<1>4. ASSUME NEW t \in Threads, stage'[t] \in {"loadInteger", "storeInteger", "test"}
      PROVE  reg'[t] + 1 <= Cardinality(Counted)'
  BY <1>1, <1>4 DEF CountInv
<1> QED  BY <1>2, <1>3, <1>4 DEF CountInv

\* The number of the sub-request the loop makes.
LEMMA PartIsNext ==
    ASSUME TypeOK, NEW m \in Nat, i = 1 + Stride * m
    PROVE  Part = m + 1
<1>1. CASE Stride = 1  BY <1>1 DEF Part
<1>2. CASE Stride = 2  BY <1>2 DEF Part
<1> QED  BY <1>1, <1>2, StrideType

\* While the client is not answered the loop makes sub-request m + 1 only for a
\* key that is left.
LEMMA MakePartStep ==
    ASSUME TypeOK, LoopInv, MakePart, command' = command, tokenCount' = tokenCount,
           \A n \in 1..MaxParts : n # Part => parts'[n] = parts[n]
    PROVE  LoopInv' /\ parts[Part] = "none"
<1> DEFINE st == Stride
<1>0. /\ st \in {1, 2} /\ Stride' = st /\ keyCount' = keyCount
      /\ keyCount \in Nat /\ keyCount <= MaxParts
  BY StrideType, KeyCountType DEF Stride, kind, keyCount, TypeOK
<1>1. PICK m \in 0..keyCount : i = 1 + st * m /\ Made(m)  BY DEF LoopInv, Made
<1>2. tokenCount = 1 + st * keyCount  BY DEF LoopInv
<1>3. m \in Nat /\ Part = m + 1  BY <1>0, <1>1, PartIsNext
<1> HIDE DEF st
<1>4. st * m < st * keyCount  BY <1>0, <1>1, <1>2, <1>3 DEF MakePart
<1>5. m < keyCount
  <2>1. CASE st = 1  BY <2>1, <1>0, <1>3, <1>4
  <2>2. CASE st = 2  BY <2>2, <1>0, <1>3, <1>4
  <2> QED  BY <2>1, <2>2, <1>0
<1>6. i' = 1 + st * (m + 1)
  <2>1. i' = i + st  BY DEF MakePart, st
  <2>2. CASE st = 1  BY <2>1, <2>2, <1>1, <1>3
  <2>3. CASE st = 2  BY <2>1, <2>3, <1>1, <1>3
  <2> QED  BY <2>2, <2>3, <1>0
<1>7. \A n \in 1..MaxParts : n > m + 1 => parts'[n] = "none"
  BY <1>1, <1>3 DEF Made
<1>8. parts[Part] = "none"
  <2>1. m + 1 \in 1..MaxParts /\ m + 1 > m  BY <1>0, <1>3, <1>5, ConstantTypes
  <2> QED  BY <1>1, <1>3, <2>1 DEF Made
<1>9. Made(m + 1)'  BY <1>0, <1>6, <1>7 DEF Made
<1>10. m + 1 \in 0..keyCount'  BY <1>0, <1>3, <1>5
<1>11. \E k \in 0..keyCount' : Made(k)'  BY <1>9, <1>10
<1> QED  BY <1>0, <1>2, <1>8, <1>11 DEF LoopInv

\* A step that makes no sub-request and takes none back keeps the loop.
LEMMA LoopKept ==
    ASSUME TypeOK, LoopInv, command' = command, tokenCount' = tokenCount, i' = i,
           \A n \in 1..MaxParts : parts[n] = "none" => parts'[n] = "none"
    PROVE  LoopInv'
<1>1. Stride' = Stride /\ keyCount' = keyCount  BY DEF Stride, kind, keyCount
<1>2. PICK m \in 0..keyCount : Made(m)  BY DEF LoopInv
<1>3. Made(m)'  BY <1>1, <1>2 DEF Made
<1> QED  BY <1>1, <1>3 DEF LoopInv

\* A thread starts the callback of a sub-request nobody is busy with.
LEMMA CallFinishedStep ==
    ASSUME TypeOK, BusyInv, CountInv, NEW t \in Threads, NEW n \in 1..MaxParts,
           parts[n] \in {"none", "sent"}, busy[t] = 0, CallFinished(t, n),
           returnCount' = returnCount
    PROVE  BusyInv' /\ CountInv'
<1>1. \A u \in Threads : busy'[u] = (IF u = t THEN n ELSE busy[u])
  BY DEF CallFinished, TypeOK
<1>2. \A u \in Threads : stage'[u] = (IF u = t THEN "load" ELSE stage[u])
  BY DEF CallFinished, TypeOK
<1>3. \A k \in 1..MaxParts : parts'[k] = (IF k = n THEN "finished" ELSE parts[k])
  BY DEF CallFinished, TypeOK
<1>4. \A u \in Threads : busy[u] # n /\ (busy[u] # 0 => busy[u] \in 1..MaxParts)
  BY ConstantTypes DEF BusyInv, TypeOK
<1>5. n # 0  BY ConstantTypes
<1>6. BusyInv'
  <2>1. ASSUME NEW u \in Threads, busy'[u] # 0 PROVE parts'[busy'[u]] = "finished"
    BY <1>1, <1>3, <1>4, <2>1 DEF BusyInv
  <2>2. ASSUME NEW u \in Threads, NEW v \in Threads, busy'[u] # 0, busy'[u] = busy'[v]
        PROVE  u = v
    BY <1>1, <1>4, <2>2 DEF BusyInv
  <2> QED  BY <2>1, <2>2 DEF BusyInv
<1>7. Counted' = Counted
  <2>1. n \notin Counted  BY DEF Counted
  <2>2. n \notin Counted'  BY <1>1, <1>2 DEF Counted
  <2>3. ASSUME NEW k \in 1..MaxParts, k # n PROVE k \in Counted' <=> k \in Counted
    <3>1. parts'[k] = parts[k]  BY <1>3, <2>3
    <3>2. (\E u \in Threads : stage'[u] \in {"load", "store"} /\ busy'[u] = k)
            <=> (\E u \in Threads : stage[u] \in {"load", "store"} /\ busy[u] = k)
      <4>1. stage[t] = "idle"  BY DEF TypeOK
      <4> QED  BY <1>1, <1>2, <2>3, <4>1
    <3> QED  BY <3>1, <3>2 DEF Counted
  <2> QED  BY <2>1, <2>2, <2>3, CountedType DEF Counted
<1>8. \A u \in Threads : reg'[u] = reg[u]  BY DEF CallFinished
<1>9. CountInv'
  BY <1>2, <1>7, <1>8, CountKept
<1> QED  BY <1>6, <1>9

LEMMA DispatchWorking ==
    ASSUME TypeOK, Working, Dispatch PROVE Working'
<1> USE DEF Working
<1>1. CASE DispatchSent
  <2>1. /\ MakePart /\ command' = command /\ tokenCount' = tokenCount
        /\ UNCHANGED <<busy, stage, reg, returnCount>>
        /\ parts' = [parts EXCEPT ![Part] = "sent"]
    BY <1>1 DEF DispatchSent, contextVars, threadVars
  <2>2. Part \in 1..MaxParts  BY <2>1, MakePartType
  <2>3. \A n \in 1..MaxParts : parts'[n] = (IF n = Part THEN "sent" ELSE parts[n])
    BY <2>1, <2>2 DEF TypeOK
  <2>4. LoopInv' /\ parts[Part] = "none"  BY <2>1, <2>3, MakePartStep
  <2>5. BusyInv'
    <3>1. \A u \in Threads : busy[u] # 0 => busy[u] \in 1..MaxParts
      BY ConstantTypes DEF TypeOK
    <3> QED  BY <2>1, <2>3, <2>4, <3>1 DEF BusyInv
  <2>6. Counted' = Counted  BY <2>1, <2>3, <2>4 DEF Counted
  <2>7. CountInv'  BY <2>1, <2>6, CountKept
  <2> QED  BY <2>4, <2>5, <2>7
<1>2. CASE DispatchFinished
  <2>1. /\ MakePart /\ CallFinished(dispatcher, Part)
        /\ command' = command /\ tokenCount' = tokenCount
        /\ returnCount' = returnCount
    BY <1>2 DEF DispatchFinished, contextVars
  <2>2. Part \in 1..MaxParts  BY <2>1, MakePartType
  <2>3. \A n \in 1..MaxParts : n # Part => parts'[n] = parts[n]
    BY <2>1, <2>2 DEF CallFinished, TypeOK
  <2>4. LoopInv' /\ parts[Part] = "none"  BY <2>1, <2>3, MakePartStep
  <2>5. dispatcher \in Threads /\ busy[dispatcher] = 0
    BY <2>1, DispatcherType DEF MakePart, TypeOK
  <2>6. BusyInv' /\ CountInv'  BY <2>1, <2>2, <2>4, <2>5, CallFinishedStep
  <2> QED  BY <2>4, <2>6
<1>3. CASE DispatchEnd
  <2>1. UNCHANGED <<command, parts, i, tokenCount, busy, stage, reg, returnCount>>
    BY <1>3 DEF DispatchEnd, contextVars, threadVars
  <2>2. LoopInv'  BY <2>1, LoopKept
  <2>3. BusyInv'  BY <2>1 DEF BusyInv
  <2>4. Counted' = Counted  BY <2>1 DEF Counted
  <2>5. CountInv'  BY <2>1, <2>4, CountKept
  <2> QED  BY <2>2, <2>3, <2>5
<1> QED  BY <1>1, <1>2, <1>3 DEF Dispatch

LEMMA CompleteWorking ==
    ASSUME TypeOK, Working, NEW t \in Threads, NEW n \in 1..MaxParts, Complete(t, n)
    PROVE  Working'
<1>1. /\ CallFinished(t, n) /\ parts[n] = "sent" /\ busy[t] = 0
      /\ UNCHANGED <<command, i, tokenCount, returnCount>>
  BY DEF Complete, contextVars, loopVars
<1>2. \A k \in 1..MaxParts : parts[k] = "none" => parts'[k] = "none"
  BY <1>1 DEF CallFinished, TypeOK
<1>3. LoopInv'  BY <1>1, <1>2, LoopKept DEF Working
<1>4. BusyInv' /\ CountInv'  BY <1>1, CallFinishedStep DEF Working
<1> QED  BY <1>3, <1>4 DEF Working

\* The store of an increment counts one more sub-request, and stores no more
\* than their number.
LEMMA StoreCountStep ==
    ASSUME TypeOK, Working, NEW t \in Threads, StoreCount(t)
    PROVE  Working'
<1>1. /\ stage[t] = "store"
      /\ returnCount' = reg[t] + 1
      /\ UNCHANGED <<command, parts, busy, reg, i, tokenCount>>
      /\ \A u \in Threads : u # t => stage'[u] = stage[u]
      /\ stage'[t] \in {"loadInteger", "test"}
  BY DEF StoreCount, loopVars, TypeOK
<1> DEFINE b == busy[t]
<1>2. b \in 1..MaxParts  BY <1>1, ConstantTypes DEF TypeOK
<1>3. parts[b] = "finished" /\ \A u \in Threads : u # t => busy[u] # b
  BY <1>2, ConstantTypes DEF Working, BusyInv
<1>4. b \notin Counted  BY <1>1 DEF Counted
<1>5. Counted' = Counted \union {b}
  <2>1. b \in Counted'  BY <1>1, <1>2, <1>3 DEF Counted
  <2>2. ASSUME NEW k \in 1..MaxParts, k # b PROVE k \in Counted' <=> k \in Counted
    <3>1. (\E u \in Threads : stage'[u] \in {"load", "store"} /\ busy'[u] = k)
            <=> (\E u \in Threads : stage[u] \in {"load", "store"} /\ busy[u] = k)
      BY <1>1, <2>2
    <3> QED  BY <1>1, <3>1 DEF Counted
  <2> QED  BY <1>2, <2>1, <2>2, CountedType DEF Counted
<1>6. Cardinality(Counted)' = Cardinality(Counted) + 1
  <2>1. Cardinality(Counted \union {b}) = Cardinality(Counted) + 1
    BY <1>4, CountedType, FS_AddElement
  <2> QED  BY <1>5, <2>1
<1> HIDE DEF b
<1>7. Cardinality(Counted) \in Nat  BY CountedType
<1>8. \A u \in Threads : reg[u] \in Nat  BY DEF TypeOK
<1>9. CountInv'
  <2>1. returnCount' <= Cardinality(Counted)'
    BY <1>1, <1>6, <1>7, <1>8 DEF Working, CountInv
  <2>2. ASSUME NEW u \in Threads, stage'[u] = "store"
        PROVE  reg'[u] <= Cardinality(Counted)'
    BY <1>1, <1>6, <1>7, <1>8, <2>2 DEF Working, CountInv
  <2>3. ASSUME NEW u \in Threads, stage'[u] \in {"loadInteger", "storeInteger", "test"}
        PROVE  reg'[u] + 1 <= Cardinality(Counted)'
    BY <1>1, <1>6, <1>7, <1>8, <2>3 DEF Working, CountInv
  <2> QED  BY <2>1, <2>2, <2>3 DEF CountInv
<1>10. LoopInv'  BY <1>1, LoopKept DEF Working
<1>11. BusyInv'  BY <1>1 DEF Working, BusyInv
<1> QED  BY <1>9, <1>10, <1>11 DEF Working

\* A thread that returns has been counted, whether its sub-request is deleted
\* or not.
LEMMA NotLastStep ==
    ASSUME TypeOK, Working, NEW t \in Threads, NotLast(t)
    PROVE  Working'
<1>1. /\ stage[t] = "test" /\ Return(t) /\ parts' = DeleteOwnPart(t)
      /\ UNCHANGED <<command, reg, i, tokenCount, returnCount>>
  BY DEF NotLast, Return, contextVars, loopVars
<1>2. busy[t] \in 1..MaxParts  BY <1>1, ConstantTypes DEF TypeOK
<1>3. /\ \A u \in Threads : u # t => busy'[u] = busy[u] /\ stage'[u] = stage[u]
      /\ busy'[t] = 0 /\ stage'[t] = "idle"
  BY <1>1 DEF Return, TypeOK
<1>4. /\ parts[busy[t]] = "finished"
      /\ \A u \in Threads : u # t => busy[u] # busy[t]
  BY <1>2, ConstantTypes DEF Working, BusyInv
<1>5. /\ \A k \in 1..MaxParts : k # busy[t] => parts'[k] = parts[k]
      /\ parts'[busy[t]] \in {"finished", "deleted"}
  BY <1>1, <1>2, <1>4 DEF DeleteOwnPart, TypeOK
<1>6. LoopInv'  BY <1>1, <1>4, <1>5, LoopKept DEF Working
<1>7. BusyInv'
  <2>1. \A u \in Threads : busy[u] # 0 => busy[u] \in 1..MaxParts
    BY ConstantTypes DEF TypeOK
  <2> QED  BY <1>3, <1>4, <1>5, <2>1 DEF Working, BusyInv
<1>8. Counted' = Counted
  <2>1. ASSUME NEW k \in 1..MaxParts
        PROVE  (\E u \in Threads : stage'[u] \in {"load", "store"} /\ busy'[u] = k)
                 <=> (\E u \in Threads : stage[u] \in {"load", "store"} /\ busy[u] = k)
    BY <1>1, <1>3
  <2>2. ASSUME NEW k \in 1..MaxParts
        PROVE  parts'[k] \in {"finished", "deleted"} <=> parts[k] \in {"finished", "deleted"}
    BY <1>4, <1>5
  <2>3. ASSUME NEW k \in 1..MaxParts PROVE k \in Counted' <=> k \in Counted
    BY <2>1, <2>2 DEF Counted
  <2> QED  BY <2>3, CountedType DEF Counted
<1>9. \A u \in Threads : reg'[u] = reg[u] /\ (stage'[u] = stage[u] \/ stage'[u] = "idle")
  BY <1>1, <1>3
<1>10. CountInv'  BY <1>1, <1>8, <1>9, CountKept DEF Working
<1> QED  BY <1>6, <1>7, <1>10 DEF Working

\* The steps in the middle of a callback that do not touch the count.
LEMMA MiddleStep ==
    ASSUME TypeOK, Working, NEW t \in Threads,
           LoadCount(t) \/ LoadInteger(t) \/ StoreInteger(t)
    PROVE  Working'
<1>1. /\ UNCHANGED <<command, parts, busy, i, tokenCount, returnCount>>
      /\ \A u \in Threads : u # t => stage'[u] = stage[u] /\ reg'[u] = reg[u]
  BY DEF LoadCount, LoadInteger, StoreInteger, contextVars, loopVars, TypeOK
<1>2. LoopInv'  BY <1>1, LoopKept DEF Working
<1>3. BusyInv'  BY <1>1 DEF Working, BusyInv
<1>4. \/ stage[t] = "load" /\ stage'[t] = "store" /\ reg'[t] = returnCount
      \/ /\ stage[t] \in {"loadInteger", "storeInteger"}
         /\ stage'[t] \in {"storeInteger", "test"}
         /\ reg'[t] = reg[t]
  BY DEF LoadCount, LoadInteger, StoreInteger, TypeOK
<1>5. Counted' = Counted
  <2>1. ASSUME NEW k \in 1..MaxParts
        PROVE  (\E u \in Threads : stage'[u] \in {"load", "store"} /\ busy'[u] = k)
                 <=> (\E u \in Threads : stage[u] \in {"load", "store"} /\ busy[u] = k)
    BY <1>1, <1>4
  <2> QED  BY <1>1, <2>1 DEF Counted
<1>6. CountInv'
  <2>1. CASE stage'[t] = "store" /\ reg'[t] = returnCount /\ stage[t] = "load"
    <3>1. Cardinality(Counted)' = Cardinality(Counted)  BY <1>5
    <3> QED  BY <1>1, <2>1, <3>1 DEF Working, CountInv
  <2>2. CASE /\ stage[t] \in {"loadInteger", "storeInteger"}
             /\ stage'[t] \in {"storeInteger", "test"}
             /\ reg'[t] = reg[t]
    BY <1>1, <1>5, <2>2, CountKept DEF Working
  <2> QED  BY <1>4, <2>1, <2>2
<1> QED  BY <1>2, <1>3, <1>6 DEF Working

\* The completion that answers the client found keyCount increments, hence
\* keyCount different sub-requests that are complete: all of them.
LEMMA AnswerCounted ==
    ASSUME TypeOK, Working, NEW t \in Threads, Answer(t)
    PROVE  Counted = 1..keyCount /\ Made(keyCount)
<1>1. keyCount \in Seen(t) /\ stage[t] = "test"  BY DEF Answer
<1>2. keyCount \in Nat /\ keyCount >= 2 /\ keyCount <= MaxParts
  BY KeyCountType DEF TypeOK
<1>3. PICK m \in 0..keyCount : Made(m)  BY DEF Working, LoopInv
<1>4. Counted \subseteq 1..m
  BY <1>2, <1>3, CountedType, ConstantTypes DEF Made, Counted
<1>5. keyCount <= Cardinality(Counted)
  BY <1>1 DEF Seen, Working, CountInv
<1>6. m \in Nat /\ IsFiniteSet(1..m) /\ Cardinality(1..m) = m
  <2>1. m \in Nat  BY <1>2
  <2> QED  BY <2>1, FS_Interval
<1>7. Cardinality(Counted) <= m  BY <1>4, <1>6, FS_Subset
<1>8. m = keyCount  BY <1>2, <1>5, <1>7, CountedType
<1>9. Cardinality(Counted) = Cardinality(1..m)
  BY <1>5, <1>6, <1>7, <1>8, CountedType
<1>10. Counted = 1..m  BY <1>4, <1>6, <1>9, FS_Subset
<1> QED  BY <1>3, <1>8, <1>10

LEMMA AnswerStep ==
    ASSUME TypeOK, Working, NEW t \in Threads, Answer(t)
    PROVE  AllComplete'
<1>1. /\ stage[t] = "test"
      /\ parts' = DeletedParts(t) /\ i' = i /\ command' = command
  BY DEF Answer
<1>2. keyCount' = keyCount /\ Stride' = Stride  BY <1>1 DEF keyCount, Stride, kind
<1>3. keyCount \in Nat /\ keyCount >= 2 /\ keyCount <= MaxParts
  BY KeyCountType DEF TypeOK
<1>4. Counted = 1..keyCount /\ Made(keyCount)  BY AnswerCounted
<1>5. \A n \in 1..keyCount : parts[n] \in {"finished", "deleted"}
  BY <1>4 DEF Counted
<1>6. \A n \in 1..keyCount : parts'[n] \in {"finished", "deleted"}
  <2>1. busy[t] \in 1..MaxParts  BY <1>1, ConstantTypes DEF TypeOK
  <2>2. \A n \in 1..keyCount : n \in 1..MaxParts  BY <1>3, ConstantTypes
  <2> QED  BY <1>1, <1>5, <2>1, <2>2 DEF DeletedParts, DeleteOwnPart, TypeOK
<1>7. i > Stride * keyCount
  <2>1. i = 1 + Stride * keyCount  BY <1>4 DEF Made
  <2>2. CASE Stride = 1  BY <1>3, <2>1, <2>2
  <2>3. CASE Stride = 2  BY <1>3, <2>1, <2>3
  <2> QED  BY <2>2, <2>3, StrideType
<1> QED  BY <1>1, <1>2, <1>6, <1>7 DEF AllComplete

\* Nothing that happens after the answer makes a sub-request of the command
\* incomplete: the loop may go on, but with other sub-requests.
LEMMA AllCompleteKept ==
    ASSUME TypeOK, AllComplete, Next
    PROVE  AllComplete'
<1>0. /\ keyCount \in Nat /\ keyCount <= MaxParts
      /\ \A n \in 1..keyCount : n \in 1..MaxParts
  BY KeyCountType, ConstantTypes DEF TypeOK
<1>1. command' = command
  BY DEF Next, Dispatch, Callback, DispatchSent, DispatchFinished, DispatchEnd, Complete,
         LoadCount, StoreCount, LoadInteger, StoreInteger, NotLast, Answer
<1>2. keyCount' = keyCount /\ Stride' = Stride  BY <1>1 DEF keyCount, Stride, kind
<1>3. SUFFICES /\ i' >= i
               /\ \A n \in 1..keyCount : parts'[n] \in {"finished", "deleted"}
  BY <1>0, <1>2, StrideType, NextType DEF AllComplete, TypeOK
<1>4. CASE Dispatch
  <2>1. CASE MakePart
    <3>1. Part \in 1..MaxParts /\ i' >= i
      BY <2>1, MakePartType, StrideType DEF MakePart, TypeOK
    <3>2. Part > keyCount
      <4>1. CASE Stride = 1  BY <1>0, <4>1 DEF Part, AllComplete, TypeOK
      <4>2. CASE Stride = 2  BY <1>0, <4>2 DEF Part, AllComplete, TypeOK
      <4> QED  BY <4>1, <4>2, StrideType
    <3>3. \A n \in 1..MaxParts : n # Part => parts'[n] = parts[n]
      <4>1. CASE DispatchSent  BY <4>1 DEF DispatchSent, TypeOK
      <4>2. CASE DispatchFinished  BY <4>2 DEF DispatchFinished, CallFinished, TypeOK
      <4>3. CASE DispatchEnd  BY <4>3 DEF DispatchEnd
      <4> QED  BY <1>4, <4>1, <4>2, <4>3 DEF Dispatch
    <3> QED  BY <1>0, <3>1, <3>2, <3>3 DEF AllComplete
  <2>2. CASE DispatchEnd  BY <2>2 DEF DispatchEnd, AllComplete, TypeOK
  <2> QED  BY <1>4, <2>1, <2>2 DEF Dispatch, DispatchSent, DispatchFinished
<1>5. ASSUME NEW t \in Threads, Callback(t)
      PROVE  /\ i' >= i
             /\ \A n \in 1..keyCount : parts'[n] \in {"finished", "deleted"}
  <2>1. i' = i /\ parts' \in {parts, DeleteOwnPart(t), DeletedParts(t)}
    BY <1>5 DEF Callback, LoadCount, StoreCount, LoadInteger, StoreInteger, NotLast,
                Answer, loopVars
  <2>2. \A n \in 1..keyCount : parts'[n] \in {"finished", "deleted"}
    BY <1>0, <2>1 DEF DeletedParts, DeleteOwnPart, AllComplete, TypeOK
  <2> QED  BY <2>1, <2>2 DEF TypeOK
<1>6. ASSUME NEW t \in Threads, NEW n \in 1..MaxParts, Complete(t, n)
      PROVE  /\ i' >= i
             /\ \A k \in 1..keyCount : parts'[k] \in {"finished", "deleted"}
  <2>1. i' = i /\ parts' = [parts EXCEPT ![n] = "finished"]
    BY <1>6 DEF Complete, CallFinished, loopVars
  <2>2. \A k \in 1..keyCount : parts'[k] \in {"finished", "deleted"}
    BY <1>0, <2>1 DEF AllComplete, TypeOK
  <2> QED  BY <2>1, <2>2 DEF TypeOK
<1> QED  BY <1>2, <1>3, <1>4, <1>5, <1>6 DEF Next

LEMMA InitGather == Init => GatherInv
<1> SUFFICES ASSUME Init, ~command.odd PROVE Working
  <2>1. Init => answered = 0  BY DEF Init
  <2> QED  BY <2>1 DEF GatherInv
<1>0. keyCount \in Nat /\ keyCount >= 2  BY KeyCountType DEF Init
<1>1. LoopInv
  <2>1. tokenCount = 1 + Stride * keyCount
    <3>1. CASE kind = "MSET"
      BY <1>0, <3>1 DEF Init, Tokens, Stride, kind, keyCount
    <3>2. CASE kind # "MSET"
      BY <1>0, <3>2 DEF Init, Tokens, Stride, kind, keyCount
    <3> QED  BY <3>1, <3>2
  <2>2. Made(0)
    <3>1. Stride * 0 = 0  BY DEF Stride
    <3> QED  BY <3>1 DEF Init, Made
  <2>3. 0 \in 0..keyCount  BY <1>0
  <2> QED  BY <2>1, <2>2, <2>3 DEF LoopInv
<1>2. BusyInv  BY DEF Init, BusyInv
<1>3. CountInv
  <2>1. Counted = {}  BY DEF Counted, Init
  <2>2. Cardinality(Counted) = 0  BY <2>1, FS_EmptySet
  <2> QED  BY <2>2 DEF Init, CountInv
<1> QED  BY <1>1, <1>2, <1>3 DEF Working

LEMMA NextGather == ASSUME TypeOK, GatherInv, [Next]_vars PROVE GatherInv'
<1>1. CASE UNCHANGED vars
  BY <1>1 DEF vars, contextVars, loopVars, threadVars, answerVars, GatherInv, Working,
              LoopInv, BusyInv, CountInv, Counted, AllComplete, Made, Stride, kind, keyCount
<1>2. CASE Next
  <2>1. command' = command
    BY <1>2 DEF Next, Dispatch, Callback, DispatchSent, DispatchFinished, DispatchEnd,
         Complete, LoadCount, StoreCount, LoadInteger, StoreInteger, NotLast, Answer
  <2> SUFFICES ASSUME ~command.odd
               PROVE  (answered' = 0 => Working') /\ (answered' > 0 => AllComplete')
    BY <2>1 DEF GatherInv
  <2>2. answered \in Nat /\ answered' \in Nat  BY <1>2, NextType DEF TypeOK
  <2>3. CASE answered > 0
    <3>1. AllComplete'  BY <1>2, <2>3, AllCompleteKept DEF GatherInv
    <3>2. answered' > 0
      <4>1. answered' = answered \/ answered' = answered + 1
        BY <1>2 DEF Next, Dispatch, Callback, DispatchSent, DispatchFinished, DispatchEnd,
                    Complete, LoadCount, StoreCount, LoadInteger, StoreInteger, NotLast,
                    Answer, AnswerClient, answerVars
      <4> QED  BY <2>2, <2>3, <4>1
    <3> QED  BY <2>2, <3>1, <3>2
  <2>4. CASE answered = 0
    <3>0. Working  BY <2>4 DEF GatherInv
    <3>1. CASE Dispatch
      <4>1. answered' = 0
        BY <2>4, <3>1 DEF Dispatch, DispatchSent, DispatchFinished, DispatchEnd, answerVars
      <4> QED  BY <3>0, <3>1, <4>1, DispatchWorking
    <3>2. ASSUME NEW t \in Threads, NEW n \in 1..MaxParts, Complete(t, n)
          PROVE  answered' = 0 /\ Working'
      BY <2>4, <3>0, <3>2, CompleteWorking DEF Complete, answerVars
    <3>3. ASSUME NEW t \in Threads, StoreCount(t) PROVE answered' = 0 /\ Working'
      BY <2>4, <3>0, <3>3, StoreCountStep DEF StoreCount, answerVars
    <3>4. ASSUME NEW t \in Threads, NotLast(t) PROVE answered' = 0 /\ Working'
      BY <2>4, <3>0, <3>4, NotLastStep DEF NotLast, answerVars
    <3>5. ASSUME NEW t \in Threads, LoadCount(t) \/ LoadInteger(t) \/ StoreInteger(t)
          PROVE  answered' = 0 /\ Working'
      BY <2>4, <3>0, <3>5, MiddleStep DEF LoadCount, LoadInteger, StoreInteger, answerVars
    <3>6. ASSUME NEW t \in Threads, Answer(t) PROVE answered' = 1 /\ AllComplete'
      BY <2>4, <3>0, <3>6, AnswerStep DEF Answer, AnswerClient
    <3> QED  BY <1>2, <3>1, <3>2, <3>3, <3>4, <3>5, <3>6 DEF Next, Callback
  <2> QED  BY <2>2, <2>3, <2>4
<1> QED  BY <1>1, <1>2

\* Whatever threads interfere, a command whose keys have their values is never
\* answered before each of its sub-requests has completed.
THEOREM AnsweredAfterAllParts == Spec => []AnswerAfterAllParts
<1>1. Init => TypeOK /\ GatherInv  BY InitType, InitGather
<1>2. TypeOK /\ GatherInv /\ [Next]_vars => (TypeOK /\ GatherInv)'
  BY NextType, NextGather
<1>3. TypeOK /\ GatherInv => AnswerAfterAllParts
  BY DEF GatherInv, AllComplete, AnswerAfterAllParts
<1> QED  BY <1>1, <1>2, <1>3, PTL DEF Spec

-----------------------------------------------------------------------------
(* Orderly runs.  One thread runs every completion, so that only it can be  *)
(* busy; the context is live until it answers, and when it answers every    *)
(* sub-request has been counted: nobody comes back to the context.          *)

\* Only the thread of the session's event loop works, and nothing was misused.
Sole ==
    /\ ~misused
    /\ session = "live"
    /\ \A t \in Threads : t # Own => busy[t] = 0

\* The deleted keys DelCommandContext::integer has counted.
Summed ==
    {n \in 1..MaxParts :
        /\ parts[n] \in {"finished", "deleted"}
        /\ result[n] = 1
        /\ ~ (busy[Own] = n /\ stage[Own] \in {"load", "store", "loadInteger", "storeInteger"})}

SumInv ==
    kind = "DEL" => /\ integer = Cardinality(Summed)
                    /\ stage[Own] = "storeInteger" => acc[Own] = integer

\* Before the answer.  A sub-request of an MGET is kept until then, one of an
\* MSET or a DEL is deleted by its own completion.
Gathering ==
    /\ context = "live"
    /\ \A n \in 1..MaxParts : parts[n] = "deleted" => kind # "MGET"
    /\ \A n \in 1..MaxParts : parts[n] = "finished" /\ kind # "MGET" => busy[Own] = n
    /\ SumInv

RightReply ==
    reply = CASE kind = "MGET" -> [n \in 1..keyCount |-> result[n]]
              [] kind = "MSET" -> <<"OK">>
              [] kind = "DEL" -> <<Cardinality({n \in 1..keyCount : result[n] = 1})>>

\* After it.  The loop has no token left, whatever the packet it reads became.
Over ==
    /\ context = "deleted"
    /\ \A n \in 1..MaxParts : parts[n] \in {"none", "deleted"}
    /\ busy[Own] = 0
    /\ i >= tokenCount
    /\ RightReply

OrderlyInv ==
    Orderly => /\ Sole
               /\ answered = 0 => Gathering
               /\ answered > 0 => Over

\* In an orderly run the loop and the completions run on the same thread.
LEMMA OrderlyThread ==
    ASSUME TypeOK, Orderly
    PROVE  dispatcher = Own /\ command.foreign = {} /\ ~command.odd
BY DEF Orderly, TypeOK, Commands, dispatcher

LEMMA SummedType ==
    /\ IsFiniteSet(Summed) /\ Cardinality(Summed) \in Nat
    /\ Summed \subseteq 1..MaxParts
<1>1. Summed \subseteq 1..MaxParts  BY DEF Summed
<1>2. IsFiniteSet(1..MaxParts)  BY FS_Interval, ConstantTypes
<1>3. IsFiniteSet(Summed)  BY <1>1, <1>2, FS_Subset
<1> QED  BY <1>1, <1>3, FS_CardinalityType

\* A step that starts or continues a callback but adds nothing to the integer.
LEMMA SumKept ==
    ASSUME SumInv, kind' = kind, integer' = integer, acc' = acc,
           Summed' = Summed, stage'[Own] # "storeInteger"
    PROVE  SumInv'
<1>1. Cardinality(Summed)' = Cardinality(Summed)  OBVIOUS
<1> QED  BY <1>1 DEF SumInv

\* A sub-request whose callback starts is not summed yet.
LEMMA CallFinishedSum ==
    ASSUME TypeOK, SumInv, NEW n \in 1..MaxParts, parts[n] \in {"none", "sent"},
           busy[Own] = 0, CallFinished(Own, n), command' = command, integer' = integer
    PROVE  /\ SumInv'
           /\ \A k \in 1..MaxParts : parts'[k] = (IF k = n THEN "finished" ELSE parts[k])
           /\ busy'[Own] = n
           /\ \A t \in Threads : t # Own => busy'[t] = busy[t]
<1>1. /\ \A k \in 1..MaxParts : parts'[k] = (IF k = n THEN "finished" ELSE parts[k])
      /\ \A k \in 1..MaxParts : k # n => result'[k] = result[k]
      /\ busy'[Own] = n /\ stage'[Own] = "load" /\ acc' = acc
      /\ \A t \in Threads : t # Own => busy'[t] = busy[t]
  BY ConstantTypes DEF CallFinished, TypeOK
<1>2. Summed' = Summed
  <2>1. n \notin Summed /\ n \notin Summed'  BY <1>1 DEF Summed
  <2>2. ASSUME NEW k \in 1..MaxParts, k # n PROVE k \in Summed' <=> k \in Summed
    <3>1. busy[Own] # k /\ busy'[Own] # k  BY <1>1, <2>2, ConstantTypes
    <3> QED  BY <1>1, <2>2, <3>1 DEF Summed
  <2> QED  BY <2>1, <2>2 DEF Summed
<1>3. kind' = kind  BY DEF kind
<1>4. SumInv'  BY <1>1, <1>2, <1>3, SumKept
<1> QED  BY <1>1, <1>4

LEMMA DispatchOrderly ==
    ASSUME TypeOK, Orderly, Working, Sole, Gathering, Dispatch
    PROVE  Sole' /\ Gathering'
<1>0. dispatcher = Own /\ Own \in Threads  BY OrderlyThread, ConstantTypes
<1>1. CASE DispatchSent
  <2>1. /\ MakePart /\ command' = command /\ tokenCount' = tokenCount
        /\ UNCHANGED <<busy, stage, acc, context, integer, result, session>>
        /\ parts' = [parts EXCEPT ![Part] = "sent"]
    BY <1>1 DEF DispatchSent, contextVars, threadVars, answerVars
  <2>2. Part \in 1..MaxParts  BY <2>1, MakePartType
  <2>3. \A n \in 1..MaxParts : parts'[n] = (IF n = Part THEN "sent" ELSE parts[n])
    BY <2>1, <2>2 DEF TypeOK
  <2>4. parts[Part] = "none"  BY <2>1, <2>3, MakePartStep DEF Working
  <2>5. kind' = kind  BY <2>1 DEF kind
  <2>6. Summed' = Summed  BY <2>1, <2>3, <2>4 DEF Summed
  <2>7. SumInv'
    <3>1. Cardinality(Summed)' = Cardinality(Summed)  BY <2>6
    <3> QED  BY <2>1, <2>5, <3>1 DEF Gathering, SumInv
  <2>8. misused' = FALSE  BY <2>1 DEF MakePart, Sole, Gathering
  <2> QED  BY <2>1, <2>3, <2>5, <2>7, <2>8 DEF Sole, Gathering
<1>2. CASE DispatchFinished
  <2>1. /\ MakePart /\ CallFinished(Own, Part)
        /\ UNCHANGED <<command, context, integer, tokenCount, session>>
    BY <1>0, <1>2 DEF DispatchFinished, contextVars, answerVars
  <2>2. Part \in 1..MaxParts /\ busy[Own] = 0  BY <1>0, <2>1, MakePartType DEF MakePart
  <2>3. \A n \in 1..MaxParts : n # Part => parts'[n] = parts[n]
    BY <2>1, <2>2 DEF CallFinished, TypeOK
  <2>4. parts[Part] = "none"  BY <2>1, <2>3, MakePartStep DEF Working
  <2>5. /\ SumInv'
        /\ \A k \in 1..MaxParts : parts'[k] = (IF k = Part THEN "finished" ELSE parts[k])
        /\ busy'[Own] = Part
        /\ \A t \in Threads : t # Own => busy'[t] = busy[t]
    BY <2>1, <2>2, <2>4, CallFinishedSum DEF Gathering
  <2>6. kind' = kind  BY <2>1 DEF kind
  <2>7. misused' = FALSE  BY <2>1 DEF MakePart, Sole, Gathering
  <2>8. \A k \in 1..MaxParts : k # busy[Own]  BY <2>2, ConstantTypes
  <2> QED  BY <2>1, <2>5, <2>6, <2>7, <2>8 DEF Sole, Gathering
<1>3. CASE DispatchEnd
  <2>1. /\ UNCHANGED <<command, parts, busy, stage, acc, context, integer, result, session>>
        /\ misused' = (misused \/ session = "deleted")
    BY <1>3 DEF DispatchEnd, contextVars, threadVars, answerVars
  <2>2. Summed' = Summed /\ kind' = kind  BY <2>1 DEF Summed, kind
  <2>3. Cardinality(Summed)' = Cardinality(Summed)  BY <2>2
  <2> QED  BY <2>1, <2>2, <2>3 DEF Sole, Gathering, SumInv
<1> QED  BY <1>1, <1>2, <1>3 DEF Dispatch

LEMMA CompleteOrderly ==
    ASSUME TypeOK, Orderly, Sole, Gathering,
           NEW t \in Threads, NEW n \in 1..MaxParts, Complete(t, n)
    PROVE  Sole' /\ Gathering'
<1>1. t = Own  BY OrderlyThread DEF Complete
<1>2. /\ CallFinished(Own, n) /\ parts[n] = "sent" /\ busy[Own] = 0
      /\ UNCHANGED <<command, context, integer, session, misused>>
  BY <1>1 DEF Complete, contextVars, answerVars
<1>3. /\ SumInv'
      /\ \A k \in 1..MaxParts : parts'[k] = (IF k = n THEN "finished" ELSE parts[k])
      /\ busy'[Own] = n
      /\ \A u \in Threads : u # Own => busy'[u] = busy[u]
  BY <1>2, CallFinishedSum DEF Gathering
<1>4. kind' = kind /\ \A k \in 1..MaxParts : k # busy[Own]
  BY <1>2, ConstantTypes DEF kind
<1> QED  BY <1>2, <1>3, <1>4 DEF Sole, Gathering

\* In an orderly run only the session's own thread is in a callback.
LEMMA OwnCallback ==
    ASSUME TypeOK, Sole, NEW t \in Threads, stage[t] # "idle"
    PROVE  t = Own /\ busy[Own] \in 1..MaxParts
BY ConstantTypes DEF TypeOK, Sole

\* The steps of a callback that leave the sub-requests alone.
LEMMA MiddleOrderly ==
    ASSUME TypeOK, Orderly, Working, Sole, Gathering, NEW t \in Threads,
           LoadCount(t) \/ StoreCount(t) \/ LoadInteger(t) \/ StoreInteger(t)
    PROVE  Sole' /\ Gathering'
<1>1. stage[t] # "idle"  BY DEF LoadCount, StoreCount, LoadInteger, StoreInteger
<1>2. t = Own /\ busy[Own] \in 1..MaxParts  BY <1>1, OwnCallback
<1>3. /\ UNCHANGED <<command, parts, result, busy, context, session>>
      /\ misused' = (misused \/ context = "deleted")
  BY DEF LoadCount, StoreCount, LoadInteger, StoreInteger, UseContext, loopVars,
         answerVars, contextVars
<1>4. kind' = kind  BY <1>3 DEF kind
<1>5. SumInv'
  <2>1. CASE LoadCount(Own)
    <3>1. /\ stage[Own] = "load" /\ stage'[Own] = "store"
          /\ UNCHANGED <<integer, acc>>
      BY <2>1, ConstantTypes DEF LoadCount, contextVars, TypeOK
    <3>2. Summed' = Summed  BY <1>3, <3>1 DEF Summed
    <3> QED  BY <1>4, <3>1, <3>2, SumKept DEF Gathering
  <2>2. CASE StoreCount(Own)
    <3>1. /\ stage[Own] = "store"
          /\ stage'[Own] = (IF kind = "DEL" THEN "loadInteger" ELSE "test")
          /\ UNCHANGED <<integer, acc>>
      BY <2>2, ConstantTypes DEF StoreCount, TypeOK
    <3>2. CASE kind = "DEL"
      <4>1. Summed' = Summed  BY <1>3, <3>1, <3>2 DEF Summed
      <4> QED  BY <1>4, <3>1, <3>2, <4>1, SumKept DEF Gathering
    <3>3. CASE kind # "DEL"  BY <1>4, <3>3 DEF SumInv
    <3> QED  BY <3>2, <3>3
  <2>3. CASE LoadInteger(Own)
    <3>1. /\ stage[Own] = "loadInteger" /\ stage'[Own] = "storeInteger"
          /\ integer' = integer /\ acc'[Own] = integer
      BY <2>3, ConstantTypes DEF LoadInteger, contextVars, TypeOK
    <3>2. Summed' = Summed  BY <1>3, <3>1 DEF Summed
    <3>3. Cardinality(Summed)' = Cardinality(Summed)  BY <3>2
    <3> QED  BY <1>4, <3>1, <3>3 DEF Gathering, SumInv
  <2>4. CASE StoreInteger(Own)
    <3>1. /\ stage[Own] = "storeInteger" /\ stage'[Own] = "test"
          /\ integer' = acc[Own] + result[busy[Own]]
      BY <2>4, ConstantTypes DEF StoreInteger, TypeOK
    <3> DEFINE b == busy[Own]
    <3>2. b \notin Summed  BY <3>1 DEF Summed
    <3>3. parts[b] = "finished" /\ result[b] \in {0, 1}
      BY <1>2, ConstantTypes DEF TypeOK, Working, BusyInv
    <3>4. \A k \in 1..MaxParts : k # b => (k \in Summed' <=> k \in Summed)
      BY <1>3 DEF Summed
    <3>5. b \in Summed' <=> result[b] = 1
      BY <1>2, <1>3, <3>1, <3>3 DEF Summed
    <3>6. Summed' \subseteq 1..MaxParts  BY DEF Summed
    <3>7. Cardinality(Summed)' = Cardinality(Summed) + result[b]
      <4>1. CASE result[b] = 1
        <5>1. Summed' = Summed \union {b}
          BY <1>2, <3>4, <3>5, <3>6, <4>1, SummedType
        <5>2. Cardinality(Summed \union {b}) = Cardinality(Summed) + 1
          BY <3>2, SummedType, FS_AddElement
        <5> QED  BY <4>1, <5>1, <5>2
      <4>2. CASE result[b] = 0
        <5>1. b \notin Summed /\ b \notin Summed'  BY <3>2, <3>5, <4>2
        <5>2. \A k : k \in Summed' <=> k \in Summed
          BY <3>4, <3>6, <5>1, SummedType
        <5>3. Summed' = Summed  BY <5>2
        <5>4. Cardinality(Summed)' = Cardinality(Summed)  BY <5>3
        <5> QED  BY <4>2, <5>4, SummedType
      <4> QED  BY <3>3, <4>1, <4>2
    <3> QED  BY <1>4, <3>1, <3>7 DEF Gathering, SumInv
  <2> QED  BY <1>2, <2>1, <2>2, <2>3, <2>4
<1> QED  BY <1>3, <1>4, <1>5 DEF Sole, Gathering

LEMMA NotLastOrderly ==
    ASSUME TypeOK, Orderly, Working, Sole, Gathering, NEW t \in Threads, NotLast(t)
    PROVE  Sole' /\ Gathering'
<1>1. t = Own /\ busy[Own] \in 1..MaxParts  BY OwnCallback DEF NotLast
<1>2. /\ stage[Own] = "test" /\ stage'[Own] = "idle" /\ busy'[Own] = 0
      /\ \A u \in Threads : u # Own => busy'[u] = busy[u]
      /\ parts' = DeleteOwnPart(Own)
      /\ UNCHANGED <<command, result, acc, integer, context, session>>
      /\ misused' = (misused \/ context = "deleted")
  BY <1>1, ConstantTypes DEF NotLast, Return, UseContext, contextVars, answerVars, TypeOK
<1>3. kind' = kind  BY <1>2 DEF kind
<1>4. \A k \in 1..MaxParts :
         parts'[k] = (IF kind # "MGET" /\ k = busy[Own] THEN "deleted" ELSE parts[k])
  BY <1>1, <1>2 DEF DeleteOwnPart, TypeOK
<1>5. ASSUME kind # "MGET" PROVE Summed' = Summed
  <2>1. parts[busy[Own]] = "finished"
    BY <1>1, ConstantTypes DEF Working, BusyInv
  <2> QED  BY <1>2, <1>4, <2>1 DEF Summed
<1>6. SumInv'
  <2>1. CASE kind = "DEL"
    BY <1>2, <1>3, <1>5, <2>1, SumKept DEF Gathering
  <2> QED  BY <1>3, <2>1 DEF SumInv
<1> QED  BY <1>2, <1>3, <1>4, <1>6 DEF Sole, Gathering

\* The answer: the thread that gives it found every sub-request counted, so the
\* integer has summed all of them, none of an MGET has been deleted, and no
\* thread is left in a callback.
LEMMA AnswerOrderly ==
    ASSUME TypeOK, Orderly, Working, Sole, Gathering, answered = 0,
           NEW t \in Threads, Answer(t)
    PROVE  Sole' /\ Over' /\ answered' = 1
<1>1. t = Own /\ busy[Own] \in 1..MaxParts /\ stage[Own] = "test"
  BY OwnCallback DEF Answer
<1>2. /\ busy'[Own] = 0
      /\ \A u \in Threads : u # Own => busy'[u] = busy[u]
      /\ parts' = DeletedParts(Own)
      /\ reply' = Gathered
      /\ UNCHANGED <<command, result, i, session>>
      /\ context' = "deleted" /\ answered' = 1
      /\ tokenCount' \in {0, tokenCount}
  BY <1>1, ConstantTypes DEF Answer, AnswerClient, Return, Orderly, TypeOK
<1>3. kind' = kind /\ keyCount' = keyCount  BY <1>2 DEF kind, keyCount
<1>4. keyCount \in Nat /\ keyCount >= 2 /\ keyCount <= MaxParts /\ 1..keyCount \subseteq 1..MaxParts
  BY KeyCountType, ConstantTypes DEF TypeOK
<1>5. Counted = 1..keyCount /\ Made(keyCount)  BY <1>1, AnswerCounted
<1>6. \A n \in 1..MaxParts :
         IF n \in 1..keyCount THEN parts[n] \in {"finished", "deleted"} ELSE parts[n] = "none"
  BY <1>4, <1>5 DEF Counted, Made
<1>7. \A n \in 1..MaxParts : parts'[n] \in {"none", "deleted"}
  <2>1. CASE kind = "MGET"
    BY <1>2, <1>4, <1>6, <2>1 DEF DeletedParts
  <2>2. CASE kind # "MGET"
    BY <1>1, <1>2, <1>6, <2>2 DEF DeletedParts, DeleteOwnPart, Gathering, TypeOK
  <2> QED  BY <2>1, <2>2
<1>8. i' >= tokenCount'
  <2>1. i = tokenCount  BY <1>5 DEF Made, Working, LoopInv
  <2> QED  BY <1>2, <2>1 DEF TypeOK
<1>9. misused' = FALSE
  <2>1. kind = "MGET" => \A n \in 1..keyCount : parts[n] = "finished"
    BY <1>4, <1>6 DEF Gathering
  <2> QED  BY <2>1 DEF Answer, Sole, Gathering
<1>10. RightReply'
  <2>1. ASSUME kind = "DEL"
        PROVE  integer = Cardinality({n \in 1..keyCount : result[n] = 1})
    <3>1. Summed = {n \in 1..keyCount : result[n] = 1}
      BY <1>1, <1>4, <1>6 DEF Summed
    <3> QED  BY <2>1, <3>1 DEF Gathering, SumInv
  <2>2. kind \in Kinds  BY DEF TypeOK, Commands, kind
  <2>3. CASE kind = "MGET"  BY <1>2, <1>3, <2>3 DEF RightReply, Gathered
  <2>4. CASE kind = "MSET"  BY <1>2, <1>3, <2>4 DEF RightReply, Gathered
  <2>5. CASE kind = "DEL"  BY <1>2, <1>3, <2>1, <2>5 DEF RightReply, Gathered
  <2> QED  BY <2>2, <2>3, <2>4, <2>5 DEF Kinds
<1> QED  BY <1>2, <1>7, <1>8, <1>9, <1>10 DEF Sole, Over

\* After the answer all that is left is the end of the loop.
LEMMA OverKept ==
    ASSUME TypeOK, Orderly, Sole, Over, Next
    PROVE  Sole' /\ Over' /\ answered' = answered
<1>1. \A t \in Threads : busy[t] = 0 /\ stage[t] = "idle"
  BY ConstantTypes DEF Sole, Over, TypeOK
<1>2. \A t \in Threads : ~Callback(t)
  BY <1>1 DEF Callback, LoadCount, StoreCount, LoadInteger, StoreInteger, NotLast, Answer
<1>3. \A t \in Threads, n \in 1..MaxParts : ~Complete(t, n)
  BY DEF Complete, Over
<1>4. ~MakePart
  <2>1. i >= tokenCount /\ i \in Nat /\ tokenCount \in Nat  BY DEF Over, TypeOK
  <2>2. MakePart => i < tokenCount  BY DEF MakePart
  <2> QED  BY <2>1, <2>2
<1>5. DispatchEnd
  BY <1>2, <1>3, <1>4 DEF Next, Dispatch, DispatchSent, DispatchFinished
<1>6. UNCHANGED <<command, context, parts, result, i, tokenCount, busy, session,
                  answered, reply>>
  BY <1>5 DEF DispatchEnd, contextVars, threadVars, answerVars
<1>7. misused' = (misused \/ session = "deleted")  BY <1>5 DEF DispatchEnd
<1>8. RightReply'  BY <1>6 DEF Over, RightReply, kind, keyCount
<1> QED  BY <1>6, <1>7, <1>8 DEF Sole, Over

LEMMA InitOrderly == Init => OrderlyInv
<1> SUFFICES ASSUME Init PROVE Sole /\ Gathering /\ answered = 0
  BY DEF OrderlyInv
<1>1. Summed = {}  BY DEF Init, Summed
<1>2. Cardinality(Summed) = 0  BY <1>1, FS_EmptySet
<1>3. SumInv  BY <1>2, ConstantTypes DEF Init, SumInv
<1> QED  BY <1>3 DEF Init, Sole, Gathering

LEMMA NextOrderly ==
    ASSUME TypeOK, GatherInv, OrderlyInv, [Next]_vars PROVE OrderlyInv'
<1>1. CASE UNCHANGED vars
  BY <1>1 DEF vars, contextVars, loopVars, threadVars, answerVars, OrderlyInv, Orderly,
              Sole, Gathering, SumInv, Summed, Over, RightReply, kind, keyCount
<1>2. CASE Next
  <2>1. Orderly' => Orderly
    BY <1>2 DEF Orderly, Next, Dispatch, Callback, DispatchSent, DispatchFinished,
         DispatchEnd, Complete, LoadCount, StoreCount, LoadInteger, StoreInteger, NotLast,
         Answer
  <2> SUFFICES ASSUME Orderly
               PROVE  Sole' /\ (answered' = 0 => Gathering') /\ (answered' > 0 => Over')
    BY <2>1 DEF OrderlyInv
  <2>2. Sole /\ answered \in Nat  BY DEF OrderlyInv, TypeOK
  <2>3. CASE answered > 0
    BY <1>2, <2>2, <2>3, OverKept DEF OrderlyInv
  <2>4. CASE answered = 0
    <3>0. Working /\ Gathering  BY <2>4, OrderlyThread DEF GatherInv, OrderlyInv
    <3>1. CASE Dispatch
      <4>1. answered' = 0
        BY <2>4, <3>1 DEF Dispatch, DispatchSent, DispatchFinished, DispatchEnd, answerVars
      <4> QED  BY <2>2, <3>0, <3>1, <4>1, DispatchOrderly
    <3>2. ASSUME NEW t \in Threads, NEW n \in 1..MaxParts, Complete(t, n)
          PROVE  answered' = 0 /\ Sole' /\ Gathering'
      BY <2>2, <2>4, <3>0, <3>2, CompleteOrderly DEF Complete, answerVars
    <3>3. ASSUME NEW t \in Threads,
                 LoadCount(t) \/ StoreCount(t) \/ LoadInteger(t) \/ StoreInteger(t)
          PROVE  answered' = 0 /\ Sole' /\ Gathering'
      BY <2>2, <2>4, <3>0, <3>3, MiddleOrderly
         DEF LoadCount, StoreCount, LoadInteger, StoreInteger, answerVars
    <3>4. ASSUME NEW t \in Threads, NotLast(t) PROVE answered' = 0 /\ Sole' /\ Gathering'
      BY <2>2, <2>4, <3>0, <3>4, NotLastOrderly DEF NotLast, answerVars
    <3>5. ASSUME NEW t \in Threads, Answer(t) PROVE answered' = 1 /\ Sole' /\ Over'
      BY <2>2, <2>4, <3>0, <3>5, AnswerOrderly
    <3> QED  BY <1>2, <3>1, <3>2, <3>3, <3>4, <3>5 DEF Next, Callback
  <2> QED  BY <2>2, <2>3, <2>4
<1> QED  BY <1>1, <1>2

\* The inductive invariant of the orderly runs.
LEMMA OrderlyInvariant == Spec => [](TypeOK /\ OrderlyInv)
<1>1. Init => TypeOK /\ GatherInv /\ OrderlyInv  BY InitType, InitGather, InitOrderly
<1>2. TypeOK /\ GatherInv /\ OrderlyInv /\ [Next]_vars => (TypeOK /\ GatherInv /\ OrderlyInv)'
  BY NextType, NextGather, NextOrderly
<1> QED  BY <1>1, <1>2, PTL DEF Spec

\* One thread, a client that waits and a value for every key: neither the loop
\* nor a late completion touches the context after its deletion, and the answer
\* to an MGET finds every sub-request it reads still there.
THEOREM ContextOutlivesItsUse == Spec => []ContextAlive
<1>1. OrderlyInv => ContextAlive  BY DEF OrderlyInv, Sole, ContextAlive
<1> QED  BY <1>1, OrderlyInvariant, PTL

\* Whatever the order of the completions, the values of an MGET are in the order
\* of its keys and a DEL counts exactly the keys that were deleted.
THEOREM RepliesGathered == Spec => []ReplyGathers
<1>1. TypeOK /\ OrderlyInv => ReplyGathers
  BY DEF OrderlyInv, Over, RightReply, ReplyGathers, TypeOK
<1> QED  BY <1>1, OrderlyInvariant, PTL

\* The context and every sub-request are deleted once the command is over.
THEOREM NothingIsLeft == Spec => []NothingLeft
<1>1. TypeOK /\ OrderlyInv => NothingLeft
  BY DEF OrderlyInv, Over, NothingLeft, TypeOK
<1> QED  BY <1>1, OrderlyInvariant, PTL

-----------------------------------------------------------------------------
(* Numbers.                                                                *)

\* What a number is written with, and what its reader knows of it so far.
NumberCharacters == DOMAIN Digits \union {"-", "+"}
Readings == [sign : {-1, 1}, num : Nat]

\* The digits, and what each is worth, for the reader and for the encoder.
LEMMA DigitsAre ==
    /\ \A c \in DOMAIN Digits : Digits[c] \in 0..9 /\ c \notin {"-", "+", CR, LF}
    /\ \A d \in 0..9 : Numerals[1 + d] \in DOMAIN Digits /\ Digits[Numerals[1 + d]] = d
    /\ NumberCharacters \subseteq Characters /\ CR \notin NumberCharacters
<1>1. \A c \in DOMAIN Digits : Digits[c] \in 0..9 /\ c \notin {"-", "+", CR, LF}
  BY DEF Digits, CR, LF
<1>2. ASSUME NEW d \in 0..9
      PROVE  Numerals[1 + d] \in DOMAIN Digits /\ Digits[Numerals[1 + d]] = d
  <2>1. d = 0 \/ d = 1 \/ d = 2 \/ d = 3 \/ d = 4 \/ d = 5 \/ d = 6 \/ d = 7 \/ d = 8 \/ d = 9
    OBVIOUS
  <2> QED BY <2>1 DEF Numerals, Digits
<1> QED BY <1>1, <1>2, CharactersAssumption DEF NumberCharacters, CR

\* One character of a number is read.
LEMMA NumberStepType ==
    ASSUME NEW r \in Readings, NEW c \in NumberCharacters
    PROVE  NumberStep(r, c) \in Readings
<1>1. r.sign \in {-1, 1} /\ r.num \in Nat /\ r = [sign |-> r.sign, num |-> r.num]
  BY DEF Readings
<1>2. CASE c \in {"-", "+"}
  BY <1>1, <1>2 DEF NumberStep, Readings
<1>3. CASE c \notin {"-", "+"}
  <2>1. Digits[c] \in 0..9
    BY <1>3, DigitsAre DEF NumberCharacters
  <2>2. 10 * r.num + Digits[c] \in Nat
    BY <1>1, <2>1
  <2>3. NumberStep(r, c) = [r EXCEPT !.num = 10 * r.num + Digits[c]]
    BY <1>3 DEF NumberStep
  <2> QED BY <1>1, <2>2, <2>3 DEF Readings
<1> QED BY <1>2, <1>3

\* One character after the other is added to the number.
LEMMA NumberSteps ==
    ASSUME NEW s \in Seq(NumberCharacters)
    PROVE  \E t : /\ t[0] = [sign |-> 1, num |-> 0]
                  /\ \A k \in 0..(Len(s) - 1) : t[k + 1] = NumberStep(t[k], s[k + 1])
                  /\ Number(s) = Signed(t[Len(s)]) /\ Number(s) \in Int
<1> DEFINE n == Len(s)
           A == Readings
           base == [sign |-> 1, num |-> 0]
           op(a, k) == NumberStep(a, s[k])
           step == [p \in A \X (1..n) |-> op(p[1], p[2])]
           F == CHOOSE f : f = [T \in SUBSET (1..n) |->
                                  IF T = {} THEN base ELSE op(f[T \ {Max(T)}], Max(T))]
<1>1. n \in Nat /\ DOMAIN s = 1..n /\ \A k \in 1..n : s[k] \in NumberCharacters
  OBVIOUS
<1>2. base \in A
  BY DEF Readings
<1>3. ASSUME NEW a \in A, NEW k \in 1..n PROVE op(a, k) \in A
  <2>1. s[k] \in NumberCharacters
    BY <1>1
  <2> QED BY <2>1, NumberStepType
<1>4. Number(s) = Signed(F[1..n])
  <2>1. DOMAIN s = 1..n
    BY <1>1
  <2> QED BY <2>1 DEF Number, FoldLeft, MapThenFoldSet
<1>5. step \in [A \X (1..n) -> A]
  <2> HIDE DEF A, op
  <2>1. \A p \in A \X (1..n) : op(p[1], p[2]) \in A
    BY <1>3
  <2> QED BY <2>1
<1>6. \A a \in A, k \in 1..n : step[<<a, k>>] = op(a, k)
  <2> HIDE DEF A, op
  <2> QED OBVIOUS
<1> HIDE DEF A, base, op, step, n
<1>7. PICK h : IsFold(h, n, A, base, step)
  BY <1>1, <1>2, <1>5, FoldExists
<1>8. h = [T \in SUBSET (1..n) |-> IF T = {} THEN base ELSE op(h[T \ {Max(T)}], Max(T))]
  <2>1. ASSUME NEW T \in SUBSET (1..n), T # {}
        PROVE  step[<<h[T \ {Max(T)}], Max(T)>>] = op(h[T \ {Max(T)}], Max(T))
    <3>1. Max(T) \in T
      <4>1. T \in SUBSET (0..n)
        OBVIOUS
      <4> QED BY <1>1, <2>1, <4>1, Greatest
    <3>2. h[T \ {Max(T)}] \in A
      BY <1>7 DEF IsFold
    <3> QED BY <1>6, <3>1, <3>2
  <2>2. h = [T \in SUBSET (1..n) |-> h[T]]
    BY <1>7 DEF IsFold
  <2> QED BY <1>7, <2>1, <2>2 DEF IsFold
<1>9. \A T \in SUBSET (1..n) : F[T] = IF T = {} THEN base ELSE op(F[T \ {Max(T)}], Max(T))
  <2>1. F = [T \in SUBSET (1..n) |-> IF T = {} THEN base ELSE op(F[T \ {Max(T)}], Max(T))]
    BY <1>8
  <2> HIDE DEF F
  <2> QED BY <2>1
<1> HIDE DEF F
<1> DEFINE t == [k \in 0..n |-> F[1..k]]
<1>10. t[0] = base
  <2>1. 1..0 = {} /\ {} \in SUBSET (1..n) /\ 0 \in 0..n
    BY <1>1
  <2>2. F[{}] = base
    BY <1>9, <2>1
  <2>3. t[0] = F[1..0]
    BY <2>1
  <2> QED BY <2>1, <2>2, <2>3
<1>11. ASSUME NEW k \in 0..(n - 1) PROVE t[k + 1] = op(t[k], k + 1)
  <2>1. t[k + 1] = F[1..(k + 1)] /\ t[k] = F[1..k]
    BY <1>1
  <2>2. F[1..(k + 1)] = op(F[1..k], k + 1)
    <3> DEFINE T == 1..(k + 1)
    <3>1. T \in SUBSET (1..n) /\ T # {} /\ Max(T) = k + 1 /\ T \ {k + 1} = 1..k
      BY <1>1, PrefixMax
    <3> HIDE DEF T
    <3>2. F[T] = op(F[T \ {Max(T)}], Max(T))
      BY <1>9, <3>1
    <3> QED BY <3>1, <3>2 DEF T
  <2> QED BY <2>1, <2>2
<1>12. Number(s) = Signed(t[n])
  BY <1>1, <1>4
<1>13. \A k \in 0..n : t[k] \in A
  <2> DEFINE K == {k \in 0..n : t[k] \in A}
  <2> HIDE DEF t
  <2>1. 0 \in K
    BY <1>1, <1>2, <1>10
  <2>2. ASSUME NEW k \in 0..(n - 1), k \in K PROVE k + 1 \in K
    <3>1. k + 1 \in 1..n /\ k + 1 \in 0..n
      BY <1>1
    <3> QED BY <1>3, <1>11, <2>2, <3>1
  <2> HIDE DEF K
  <2>3. \A k \in 0..n : k \in K
    BY <1>1, <2>1, <2>2, InductTo
  <2> QED BY <2>3 DEF K
<1> HIDE DEF t
<1>14. Number(s) \in Int
  <2>1. t[n] \in Readings
    BY <1>1, <1>13 DEF A
  <2>2. t[n].sign \in {-1, 1} /\ t[n].num \in Nat
    BY <2>1 DEF Readings
  <2> QED BY <1>12, <2>2 DEF Signed
<1> QED BY <1>10, <1>11, <1>12, <1>14 DEF base, op, n

\* The largest int is a number.
LEMMA MaxIntIs == MaxInt \in Nat
BY SMT DEF MaxInt

\* The powers of ten that the encoder divides by; an int has no more digits.
LEMMA PowersAre ==
    /\ \A j \in 1..10 : Powers[j] \in Nat \ {0}
    /\ \A j \in 1..9 : Powers[j + 1] = 10 * Powers[j]
    /\ Powers[1] = 1 /\ MaxInt < 10 * Powers[10]
<1>1. ASSUME NEW j \in 1..10 PROVE Powers[j] \in Nat \ {0}
  <2>1. j = 1 \/ j = 2 \/ j = 3 \/ j = 4 \/ j = 5 \/ j = 6 \/ j = 7 \/ j = 8 \/ j = 9 \/ j = 10
    OBVIOUS
  <2> QED BY <2>1 DEF Powers
<1>2. ASSUME NEW j \in 1..9 PROVE Powers[j + 1] = 10 * Powers[j]
  <2>1. j = 1 \/ j = 2 \/ j = 3 \/ j = 4 \/ j = 5 \/ j = 6 \/ j = 7 \/ j = 8 \/ j = 9
    OBVIOUS
  <2> QED BY <2>1 DEF Powers
<1>3. Powers[1] = 1 /\ MaxInt < 10 * Powers[10]
  BY SMT DEF Powers, MaxInt
<1> QED BY <1>1, <1>2, <1>3

\* Another digit.
LEMMA DigitMore ==
    ASSUME NEW n \in Nat, NEW j \in 1..9
    PROVE  10 * (n \div Powers[j + 1]) + ((n \div Powers[j]) % 10) = n \div Powers[j]
<1>1. j = 1 \/ j = 2 \/ j = 3 \/ j = 4 \/ j = 5 \/ j = 6 \/ j = 7 \/ j = 8 \/ j = 9
  OBVIOUS
<1>2. CASE j = 1
  BY <1>2 DEF Powers
<1>3. CASE j = 2
  BY <1>3 DEF Powers
<1>4. CASE j = 3
  BY <1>4 DEF Powers
<1>5. CASE j = 4
  BY <1>5 DEF Powers
<1>6. CASE j = 5
  BY <1>6 DEF Powers
<1>7. CASE j = 6
  BY <1>7 DEF Powers
<1>8. CASE j = 7
  BY <1>8 DEF Powers
<1>9. CASE j = 8
  BY <1>9 DEF Powers
<1>10. CASE j = 9
  BY <1>10 DEF Powers
<1> QED BY <1>1, <1>2, <1>3, <1>4, <1>5, <1>6, <1>7, <1>8, <1>9, <1>10

\* The digits of a number are read as that number.
LEMMA NumeralIs ==
    ASSUME NEW n \in 0..MaxInt
    PROVE  /\ Places(n) \in 1..10 /\ Numeral(n) \in Seq(DOMAIN Digits) /\ Len(Numeral(n)) = Places(n)
           /\ \A k \in 1..Places(n) :
                 /\ Digits[Numeral(n)[k]] = (n \div Powers[Places(n) + 1 - k]) % 10
                 /\ n \div Powers[Places(n) + 1 - k] \in Nat
           /\ n \div Powers[Places(n)] \in 0..9
<1> DEFINE l == Places(n)
           T == {j \in 1..10 : j = 10 \/ n < Powers[j + 1]}
           s == Numeral(n)
           d(k) == (n \div Powers[l + 1 - k]) % 10
<1>1. l \in 1..10 /\ (l = 10 \/ n < Powers[l + 1])
  <2>1. 10 \in T /\ T \in SUBSET Nat
    OBVIOUS
  <2>2. Min(T) \in T
    BY <2>1, MinIsLeast
  <2> QED BY <2>2 DEF Places
<1> HIDE DEF l
<1>2. n \in Nat /\ n <= MaxInt
  BY MaxIntIs DEF Ints
<1>3. ASSUME NEW k \in 1..l PROVE d(k) \in 0..9 /\ n \div Powers[l + 1 - k] \in Nat
  <2>1. Powers[l + 1 - k] \in Nat \ {0}
    BY <1>1, PowersAre
  <2> DEFINE p == Powers[l + 1 - k]
             q == n \div p
  <2> HIDE DEF p
  <2>2. q \in Nat
    BY <1>2, <2>1 DEF p
  <2> HIDE DEF q
  <2>3. q % 10 \in 0..9
    BY <2>2
  <2> QED BY <2>2, <2>3 DEF q, p
<1>4. s = [k \in 1..l |-> Numerals[1 + d(k)]]
  BY DEF Numeral, l
<1>5. ASSUME NEW k \in 1..l PROVE s[k] \in DOMAIN Digits /\ Digits[s[k]] = d(k)
  <2> HIDE DEF d, s
  <2> QED BY <1>3, <1>4, DigitsAre
<1>6. s \in Seq(DOMAIN Digits) /\ Len(s) = l
  <2> HIDE DEF s, d
  <2> DEFINE D == DOMAIN Digits
  <2>1. \A k \in 1..l : s[k] \in D
    BY <1>5
  <2> HIDE DEF D
  <2>2. s \in [1..l -> D]
    BY <1>4, <2>1
  <2> QED BY <1>1, <2>2 DEF D
<1>7. n \div Powers[l] \in 0..9
  <2>1. Powers[l] \in Nat \ {0} /\ n < 10 * Powers[l]
    <3>1. CASE l = 10
      BY <1>2, <3>1, PowersAre, MaxIntIs DEF Ints
    <3>2. CASE l \in 1..9
      BY <1>1, <3>2, PowersAre
    <3> QED BY <1>1, <3>1, <3>2
  <2> QED BY <1>2, <2>1
<1> QED BY <1>1, <1>3, <1>5, <1>6, <1>7 DEF l

\* The characters of s behind the first o are the digits of n, and t has what the
\* characters were read as so far.
Spelled(s, t, o, g, n) ==
    /\ Len(s) = o + Places(n)
    /\ \A k \in 1..Places(n) : s[o + k] = Numeral(n)[k]
    /\ t[o] = [sign |-> g, num |-> 0]
    /\ \A k \in 0..(Len(s) - 1) : t[k + 1] = NumberStep(t[k], s[k + 1])

\* What the steps leave that read a numeral.
LEMMA NumeralReads ==
    ASSUME NEW n \in 0..MaxInt, NEW s \in Seq(NumberCharacters), NEW o \in 0..1, NEW g \in Int,
           NEW t, Spelled(s, t, o, g, n)
    PROVE  t[Len(s)] = [sign |-> g, num |-> n]
<1> DEFINE l == Places(n)
           v(k) == n \div Powers[l + 1 - k]
           S == {k \in 1..l : t[o + k] = [sign |-> g, num |-> v(k)]}
<1>1. /\ l \in 1..10 /\ Numeral(n) \in Seq(DOMAIN Digits) /\ Len(Numeral(n)) = l
      /\ \A k \in 1..l : Digits[Numeral(n)[k]] = v(k) % 10 /\ v(k) \in Nat
      /\ n \div Powers[l] \in 0..9
  BY NumeralIs
<1>2. \A k \in 1..l : Numeral(n)[k] \in DOMAIN Digits
  BY <1>1
<1>0. l \in 1..10 /\ Len(s) = o + l
  BY <1>1 DEF Spelled
<1>7. /\ \A k \in 1..l : s[o + k] = Numeral(n)[k]
      /\ t[o] = [sign |-> g, num |-> 0]
      /\ \A k \in 0..(Len(s) - 1) : t[k + 1] = NumberStep(t[k], s[k + 1])
  BY DEF Spelled
<1> HIDE DEF l
<1>3. ASSUME NEW k \in 0..(l - 1), NEW a \in Nat, t[o + k] = [sign |-> g, num |-> a]
      PROVE  t[o + (k + 1)] = [sign |-> g, num |-> 10 * a + (v(k + 1) % 10)]
  <2> DEFINE c == s[o + (k + 1)]
  <2>1. k + 1 \in 1..l /\ o + k \in 0..(Len(s) - 1) /\ (o + k) + 1 = o + (k + 1)
    <3>1. k + 1 \in 1..l /\ k \in Int /\ k >= 0 /\ k <= l - 1
      BY <1>0
    <3>2. o + k \in Int /\ o + k >= 0 /\ o + k <= Len(s) - 1 /\ (o + k) + 1 = o + (k + 1)
      BY <1>0, <3>1
    <3> QED BY <1>0, <3>1, <3>2
  <2>2. c \in DOMAIN Digits /\ Digits[c] = v(k + 1) % 10
    BY <1>1, <1>2, <1>7, <2>1
  <2>3. c \notin {"-", "+"}
    BY <2>2, DigitsAre
  <2>4. t[o + (k + 1)] = NumberStep(t[o + k], c)
    BY <1>7, <2>1
  <2> HIDE DEF c, v
  <2>5. NumberStep([sign |-> g, num |-> a], c) = [sign |-> g, num |-> 10 * a + Digits[c]]
    BY <2>3 DEF NumberStep
  <2> QED BY <1>3, <2>2, <2>4, <2>5
<1>4. \A k \in 0..(l - 1) : k + 1 \in S
  <2> DEFINE R == {k \in 0..(l - 1) : k + 1 \in S}
  <2>1. 0 \in R
    <3>1. v(1) \in 0..9
      BY <1>1 
    <3> HIDE DEF v
    <3>2. t[o + (0 + 1)] = [sign |-> g, num |-> 10 * 0 + (v(0 + 1) % 10)]
      <4>1. 0 \in 0..(l - 1) /\ t[o + 0] = [sign |-> g, num |-> 0] /\ 0 \in Nat
        BY <1>0, <1>7
      <4> QED BY <4>1, <1>3
    <3>3. 10 * 0 + (v(1) % 10) = v(1)
      BY <3>1
    <3> QED BY <1>1, <3>2, <3>3
  <2>2. ASSUME NEW k \in 0..((l - 1) - 1), k \in R PROVE k + 1 \in R
    <3>1. k + 1 \in 0..(l - 1) /\ k + 1 \in 1..l /\ (k + 1) + 1 \in 1..l
      BY <1>0
    <3>2. t[o + (k + 1)] = [sign |-> g, num |-> v(k + 1)] /\ v(k + 1) \in Nat
      BY <1>1, <2>2, <3>1
    <3>3. 10 * v(k + 1) + (v((k + 1) + 1) % 10) = v((k + 1) + 1)
      <4> DEFINE j == l + 1 - ((k + 1) + 1)
      <4>1. j \in 1..9 /\ j + 1 = l + 1 - (k + 1)
        BY <1>0
      <4> HIDE DEF j
      <4>2. n \in Nat
        BY MaxIntIs DEF Ints
      <4>3. 10 * (n \div Powers[j + 1]) + ((n \div Powers[j]) % 10) = n \div Powers[j]
        BY <4>1, <4>2, DigitMore
      <4> QED BY <4>1, <4>3 DEF j
    <3> HIDE DEF v
    <3>4. t[o + ((k + 1) + 1)] = [sign |-> g, num |-> v((k + 1) + 1)]
      BY <1>3, <3>1, <3>2, <3>3
    <3> QED BY <3>1, <3>4
  <2> HIDE DEF R
  <2>4. l - 1 \in Nat
    BY <1>0
  <2>3. \A k \in 0..(l - 1) : k \in R
    BY <2>1, <2>2, <2>4, InductTo
  <2> QED BY <2>3 DEF R
<1>5. l \in S
  <2>1. l - 1 \in 0..(l - 1) /\ (l - 1) + 1 = l
    BY <1>0
  <2> HIDE DEF S
  <2> QED BY <1>4, <2>1
<1>6. v(l) = n
  <2>1. l + 1 - l = 1 /\ n \in Nat
    BY <1>0, MaxIntIs DEF Ints
  <2> QED BY <2>1, PowersAre
<1>8. t[o + l] = [sign |-> g, num |-> n]
  <2> HIDE DEF v
  <2> QED BY <1>5, <1>6
<1> QED BY <1>0, <1>8

\* A decimal is read as its number.
LEMMA DecimalIs ==
    ASSUME NEW n \in Ints
    PROVE  /\ Decimal(n) \in Seq(NumberCharacters) /\ Decimal(n) # <<>>
           /\ Number(Decimal(n)) = n
<1> DEFINE s == Decimal(n)
           m == IF n < 0 THEN -n ELSE n
           o == IF n < 0 THEN 1 ELSE 0
           g == IF n < 0 THEN -1 ELSE 1
           u == Numeral(m)
           d == DOMAIN Digits
<1>1. m \in 0..MaxInt /\ o \in 0..1 /\ g \in {-1, 1} /\ n = g * m
  BY MaxIntIs DEF Ints
<1>2. u \in Seq(d) /\ Len(u) = Places(m) /\ Places(m) \in 1..10
  BY <1>1, NumeralIs
<1>3. /\ s \in Seq(NumberCharacters) /\ Len(s) = o + Places(m)
      /\ \A k \in 1..Places(m) : s[o + k] = u[k]
      /\ n < 0 => s[1] = "-"
  <2> HIDE DEF u, d
  <2>1. d \subseteq NumberCharacters /\ "-" \in NumberCharacters
    BY DEF d, NumberCharacters
  <2>2. u \in Seq(NumberCharacters)
    BY <1>2, <2>1, SeqMonotone
  <2>3. CASE n < 0
    <3>1. s = <<"-">> \o u
      BY <2>3 DEF Decimal, u
    <3> HIDE DEF s
    <3> DEFINE X == NumberCharacters
    <3> HIDE DEF X
    <3>2. <<"-">> \in Seq(X) /\ u \in Seq(X)
      BY <2>1, <2>2 DEF X
    <3>3. /\ s \in Seq(X) /\ Len(s) = 1 + Len(u) /\ s[1] = "-"
          /\ \A k \in 1..Len(u) : s[1 + k] = u[k]
      BY <3>1, <3>2
    <3> QED BY <1>2, <2>3, <3>3 DEF X
  <2>4. CASE ~(n < 0)
    <3>1. s = u
      BY <2>4 DEF Decimal, u
    <3> HIDE DEF s
    <3> QED BY <1>2, <2>2, <2>4, <3>1
  <2> QED BY <2>3, <2>4
<1>4. PICK t : /\ t[0] = [sign |-> 1, num |-> 0]
               /\ \A k \in 0..(Len(s) - 1) : t[k + 1] = NumberStep(t[k], s[k + 1])
               /\ Number(s) = Signed(t[Len(s)])
  BY <1>3, NumberSteps
<1>5. t[o] = [sign |-> g, num |-> 0]
  <2>1. CASE n < 0
    <3>1. 0 \in 0..(Len(s) - 1) /\ s[1] = "-"
      BY <1>1, <1>2, <1>3, <2>1
    <3>2. t[0 + 1] = NumberStep(t[0], s[0 + 1])
      BY <1>4, <3>1
    <3> QED BY <1>4, <2>1, <3>1, <3>2 DEF NumberStep
  <2> QED BY <1>4, <2>1
<1> HIDE DEF s, m, o, g, u
<1>6. t[Len(s)] = [sign |-> g, num |-> m]
  <2>1. m \in 0..MaxInt /\ s \in Seq(NumberCharacters) /\ o \in 0..1 /\ g \in Int
    BY <1>1, <1>3
  <2>2. Len(s) = o + Places(m) /\ \A k \in 1..Places(m) : s[o + k] = Numeral(m)[k]
    BY <1>3 DEF u
  <2>3. \A k \in 0..(Len(s) - 1) : t[k + 1] = NumberStep(t[k], s[k + 1])
    BY <1>4
  <2> HIDE DEF NumberCharacters
  <2>4. Spelled(s, t, o, g, m)
    BY <1>5, <2>2, <2>3 DEF Spelled
  <2> QED BY <2>1, <2>4, NumeralReads
<1>7. Number(s) = n
  <2>1. g \in Int /\ m \in Int /\ n = g * m
    BY <1>1, MaxIntIs DEF Ints
  <2> QED BY <1>4, <1>6, <2>1 DEF Signed
<1>8. s # <<>>
  <2>1. Len(s) # 0
    BY <1>1, <1>2, <1>3
  <2> QED BY <2>1
<1> QED BY <1>3, <1>7, <1>8 DEF s
\* Where a line ends that holds no carriage return before e.
LEMMA LineEndAt ==
    ASSUME NEW s \in Seq(Characters), NEW from \in 0..Len(s), NEW e \in from..Len(s),
           e = Len(s) \/ s[e + 1] = CR, \A q \in from..(e - 1) : s[q + 1] # CR
    PROVE  LineEnd(s, from) = e
<1> DEFINE Is(p) == /\ p = Len(s) \/ s[p + 1] = CR
                    /\ \A q \in from..(p - 1) : s[q + 1] # CR
           p == CHOOSE p \in from..Len(s) : Is(p)
<1>1. Is(e)
  OBVIOUS
<1>2. p \in from..Len(s) /\ Is(p)
  <2> HIDE DEF Is
  <2> QED BY <1>1
<1>3. p = e
  <2> HIDE DEF p
  <2>1. CASE p < e
    <3>1. p \in from..(e - 1) /\ p # Len(s)
      BY <1>2, <2>1
    <3> QED BY <1>2, <3>1
  <2>2. CASE p > e
    <3>1. e \in from..(p - 1) /\ e # Len(s)
      BY <1>2, <2>2
    <3> QED BY <1>2, <3>1
  <2> QED BY <1>2, <2>1, <2>2
<1> QED BY <1>3 DEF LineEnd

\* There always is such a place.
LEMMA LineEndIs ==
    ASSUME NEW s \in Seq(Characters), NEW from \in 0..Len(s)
    PROVE  /\ LineEnd(s, from) \in from..Len(s)
           /\ LineEnd(s, from) = Len(s) \/ s[LineEnd(s, from) + 1] = CR
           /\ \A q \in from..(LineEnd(s, from) - 1) : s[q + 1] # CR
<1> DEFINE T == {p \in from..Len(s) : p = Len(s) \/ s[p + 1] = CR}
<1>1. T \in SUBSET Nat /\ T # {}
  <2>1. Len(s) \in T
    OBVIOUS
  <2> QED BY <2>1
<1>2. PICK e \in T : \A y \in T : e <= y
  BY <1>1, Least
<1>3. e \in from..Len(s) /\ (e = Len(s) \/ s[e + 1] = CR)
  OBVIOUS
<1>4. ASSUME NEW q \in from..(e - 1) PROVE s[q + 1] # CR
  <2>1. q \notin T
    BY <1>2, <1>3
  <2> QED BY <1>3, <2>1
<1>5. LineEnd(s, from) = e
  <2> HIDE DEF T
  <2> QED BY <1>3, <1>4, LineEndAt
<1> QED BY <1>3, <1>4, <1>5

\* What s has behind from is w, or as much of w as s has.
Reads(s, from, w) == \A z \in 1..Len(w) : from + z <= Len(s) => s[from + z] = w[z]

\* What reads as two texts in a row reads as the first and, behind it, the
\* second.
LEMMA ReadsParts ==
    ASSUME NEW s, NEW u \in Seq(Characters), NEW v \in Seq(Characters), NEW from \in Nat,
           Reads(s, from, u \o v)
    PROVE  Reads(s, from, u) /\ Reads(s, from + Len(u), v)
<1> DEFINE w == u \o v
<1>1. /\ Len(w) = Len(u) + Len(v) /\ Len(u) \in Nat /\ Len(v) \in Nat
      /\ \A z \in 1..Len(u) : w[z] = u[z]
      /\ \A z \in 1..Len(v) : w[Len(u) + z] = v[z]
  OBVIOUS
<1>2. \A z \in 1..Len(w) : from + z <= Len(s) => s[from + z] = w[z]
  BY DEF Reads
<1> HIDE DEF w
<1>3. ASSUME NEW z \in 1..Len(u), from + z <= Len(s) PROVE s[from + z] = u[z]
  <2>1. z \in 1..Len(w)
    BY <1>1
  <2> QED BY <1>1, <1>2, <1>3, <2>1
<1>4. ASSUME NEW z \in 1..Len(v), (from + Len(u)) + z <= Len(s) PROVE s[(from + Len(u)) + z] = v[z]
  <2> DEFINE j == Len(u) + z
  <2>1. j \in 1..Len(w) /\ from + j = (from + Len(u)) + z
    BY <1>1
  <2> HIDE DEF j
  <2>2. s[from + j] = w[j]
    BY <1>2, <1>4, <2>1
  <2> QED BY <1>1, <2>1, <2>2 DEF j
<1> QED BY <1>3, <1>4 DEF Reads

\* The text that was read, when it is there.
LEMMA TextIs ==
    ASSUME NEW s \in Seq(Characters), NEW w \in Seq(Characters), NEW from \in Nat,
           Reads(s, from, w), from + Len(w) <= Len(s)
    PROVE  SubSeq(s, from + 1, from + Len(w)) = w
<1> DEFINE t == SubSeq(s, from + 1, from + Len(w))
<1>1. /\ t \in Seq(Characters) /\ Len(t) = Len(w)
      /\ \A z \in 1..Len(w) : t[z] = s[from + z]
  OBVIOUS
<1>2. \A z \in 1..Len(w) : t[z] = w[z]
  BY <1>1 DEF Reads
<1> HIDE DEF t
<1>3. t = w
  BY <1>1, <1>2, SeqEqual
<1> QED BY <1>3 DEF t

\* A text and the end of a line.
LEMMA LineIs ==
    ASSUME NEW text \in Seq(Characters)
    PROVE  /\ Line(text) \in Seq(Characters) /\ Len(Line(text)) = Len(text) + 2
           /\ \A z \in 1..Len(text) : Line(text)[z] = text[z]
           /\ Line(text)[Len(text) + 1] = CR /\ Line(text)[Len(text) + 2] = LF
<1>1. CR \in Characters /\ LF \in Characters
  BY CharactersAssumption
<1> QED BY <1>1 DEF Line

\* What the end of a line is taken for, when the text has all of the line, part of
\* it, or all but the line feed.
LEMMA LineReads ==
    ASSUME NEW s \in Seq(Characters), NEW stale, NEW from \in 0..Len(s),
           NEW text \in Seq(Characters), CR \notin ToSet(text), Reads(s, from, Line(text)),
           NEW p, p = LineEnd(s, from)
    PROVE  /\ p \in from..Len(s)
           /\ Len(s) <= from + Len(text) => p = Len(s) /\ AfterLine(s, stale, p) = AGAIN
           /\ Len(s) > from + Len(text) => p = from + Len(text) /\ SubSeq(s, from + 1, p) = text
           /\ Len(s) >= from + Len(text) + 2 => AfterLine(s, stale, p) = from + Len(text) + 2
           /\ \A z \in 1..(p - from) : s[from + z] = text[z] /\ z \in 1..Len(text)
<1> DEFINE e == from + Len(text)
<1>1. /\ Reads(s, from, text) /\ e \in Nat /\ e >= from /\ Len(s) \in Nat
      /\ e + 1 <= Len(s) => s[e + 1] = CR
      /\ e + 2 <= Len(s) => s[e + 2] = LF
  <2> DEFINE w == Line(text)
  <2>1. /\ Len(w) = Len(text) + 2
        /\ \A z \in 1..Len(text) : w[z] = text[z]
        /\ w[Len(text) + 1] = CR /\ w[Len(text) + 2] = LF
    BY LineIs, Zenon
  <2>2. \A z \in 1..Len(w) : from + z <= Len(s) => s[from + z] = w[z]
    BY DEF Reads
  <2> HIDE DEF w
  <2>3. e + 1 <= Len(s) => s[e + 1] = CR
    <3>1. Len(text) + 1 \in 1..Len(w) /\ from + (Len(text) + 1) = e + 1
      BY <2>1
    <3> QED BY <2>1, <2>2, <3>1
  <2>4. e + 2 <= Len(s) => s[e + 2] = LF
    <3>1. Len(text) + 2 \in 1..Len(w) /\ from + (Len(text) + 2) = e + 2
      BY <2>1
    <3> QED BY <2>1, <2>2, <3>1
  <2>5. Reads(s, from, text)
    BY <2>1, <2>2 DEF Reads
  <2> QED BY <2>1, <2>3, <2>4, <2>5
<1>2. ASSUME NEW q \in from..(e - 1), q < Len(s) PROVE s[q + 1] # CR
  <2> DEFINE z == q + 1 - from
  <2>1. z \in 1..Len(text) /\ from + z = q + 1 /\ from + z <= Len(s)
    BY <1>2
  <2>2. s[q + 1] = text[z]
    BY <1>1, <2>1 DEF Reads
  <2>3. text[z] \in ToSet(text)
    BY <2>1 DEF ToSet
  <2> QED BY <2>2, <2>3
<1>3. p = IF Len(s) <= e THEN Len(s) ELSE e
  <2>1. CASE Len(s) <= e
    <3>1. ASSUME NEW q \in from..(Len(s) - 1) PROVE s[q + 1] # CR
      <4>1. q \in from..(e - 1) /\ q < Len(s)
        BY <1>1, <2>1
      <4> QED BY <1>2, <4>1
    <3>2. Len(s) \in from..Len(s)
      BY <1>1
    <3>3. p = Len(s)
      BY <3>1, <3>2, LineEndAt
    <3> QED BY <2>1, <3>3
  <2>2. CASE ~(Len(s) <= e)
    <3>1. ASSUME NEW q \in from..(e - 1) PROVE s[q + 1] # CR
      <4>1. q < Len(s)
        BY <1>1, <2>2
      <4> QED BY <1>2, <4>1
    <3>2. e \in from..Len(s) /\ s[e + 1] = CR
      BY <1>1, <2>2
    <3>3. p = e
      BY <3>1, <3>2, LineEndAt
    <3> QED BY <2>2, <3>3
  <2> QED BY <2>1, <2>2
<1>4. Len(s) > e => SubSeq(s, from + 1, p) = text
  BY <1>1, <1>3, TextIs
<1>5. \A z \in 1..(p - from) : s[from + z] = text[z] /\ z \in 1..Len(text)
  BY <1>1, <1>3 DEF Reads
<1>6. /\ Len(s) <= e => AfterLine(s, stale, p) = AGAIN
      /\ Len(s) = e + 1 => AfterLine(s, stale, p) = e + 2 \/ AfterLine(s, stale, p) = ERROR
      /\ Len(s) >= e + 2 => AfterLine(s, stale, p) = e + 2
  BY <1>1, <1>3 DEF AfterLine, At
<1>7. /\ p \in from..Len(s)
      /\ Len(s) <= e => p = Len(s)
      /\ Len(s) > e => p = e
  BY <1>1, <1>3
<1> QED BY <1>1, <1>4, <1>5, <1>6, <1>7

\* The same for a line with a number in it.
LEMMA NumberReads ==
    ASSUME NEW s \in Seq(Characters), NEW stale, NEW from \in 0..Len(s), NEW n \in Ints,
           Reads(s, from, Line(Decimal(n))), NEW r, r = readNumberLine(s, stale, from)
    PROVE  /\ Len(s) <= from + Len(Decimal(n)) => r.ret = AGAIN
           /\ Len(s) > from + Len(Decimal(n)) => r.num = n
           /\ Len(s) < from + Len(Decimal(n)) + 2 =>
                 r.ret = AGAIN \/ r.ret = Len(s) + 1 \/ r.ret = ERROR
           /\ Len(s) >= from + Len(Decimal(n)) + 2 => r.ret = from + Len(Decimal(n)) + 2
<1> DEFINE text == Decimal(n)
           p == LineEnd(s, from)
           line == SubSeq(s, from + 1, p)
           ret == AfterLine(s, stale, p)
<1>1. text \in Seq(NumberCharacters) /\ text # <<>> /\ Number(text) = n
  BY DecimalIs
<1>2. text \in Seq(Characters) /\ CR \notin ToSet(text)
  <2>1. text \in Seq(Characters)
    BY <1>1, DigitsAre, SeqMonotone
  <2>2. ToSet(text) \subseteq NumberCharacters
    BY <1>1 DEF ToSet
  <2> QED BY <2>1, <2>2, DigitsAre
<1>3. Reads(s, from, Line(text))
  OBVIOUS
<1>4. readNumberLine(s, stale, from) = NumberUpTo(s, stale, p, line)
  BY DEF readNumberLine, NumberLine
<1> HIDE DEF text, p
<1>5. p = LineEnd(s, from)
  BY DEF p
<1>6. /\ p \in from..Len(s)
      /\ Len(s) <= from + Len(text) => ret = AGAIN
      /\ Len(s) > from + Len(text) => p = from + Len(text) /\ line = text
      /\ Len(s) >= from + Len(text) + 2 => ret = from + Len(text) + 2
      /\ \A z \in 1..(p - from) : s[from + z] = text[z] /\ z \in 1..Len(text)
  <2>1. p \in from..Len(s)
    BY <1>2, <1>3, <1>5, LineReads
  <2>2. Len(s) <= from + Len(text) => ret = AGAIN
    BY <1>2, <1>3, <1>5, LineReads
  <2>3. Len(s) > from + Len(text) => p = from + Len(text) /\ line = text
    BY <1>2, <1>3, <1>5, LineReads
  <2>4. Len(s) >= from + Len(text) + 2 => ret = from + Len(text) + 2
    BY <1>2, <1>3, <1>5, LineReads
  <2>5. \A z \in 1..(p - from) : s[from + z] = text[z] /\ z \in 1..Len(text)
    BY <1>2, <1>3, <1>5, LineReads
  <2> QED BY <2>1, <2>2, <2>3, <2>4, <2>5
<1> HIDE DEF ret
<1>7. ToSet(line) \subseteq NumberCharacters
  <2>1. Len(line) = p - from /\ \A z \in 1..(p - from) : line[z] = s[from + z]
    BY <1>6
  <2>2. ASSUME NEW z \in 1..(p - from) PROVE line[z] \in NumberCharacters
    <3>1. line[z] = text[z] /\ z \in 1..Len(text)
      BY <1>6, <2>1
    <3> HIDE DEF line
    <3> QED BY <1>1, <3>1
  <2>3. DOMAIN line = 1..(p - from)
    BY <1>6
  <2> HIDE DEF line
  <2> QED BY <2>2, <2>3 DEF ToSet
<1>9. Len(s) < from + Len(text) + 2 => ret = AGAIN \/ ret = Len(s) + 1 \/ ret = ERROR
  <2>1. ret = AGAIN \/ ret = ERROR \/ ret = p + 2
    BY DEF ret, AfterLine
  <2> DEFINE e == from + Len(text)
  <2>2. e \in Nat /\ Len(s) \in Nat
    BY <1>2
  <2>3. Len(s) <= e \/ Len(s) > e
    BY <2>2
  <2>4. Len(s) > e /\ Len(s) < e + 2 => p + 2 = Len(s) + 1
    BY <1>6, <2>2
  <2> QED BY <1>6, <2>1, <2>3, <2>4
<1>8. r = [ret |-> ret, num |-> Number(line)]
  BY <1>4, <1>7 DEF NumberUpTo, NumberCharacters, ret
<1> HIDE DEF line
<1> QED BY <1>1, <1>6, <1>8, <1>9 DEF text

\* The readers return positions, or one of the two negative outcomes.
LEMMA NumberLineType ==
    ASSUME NEW s \in Seq(Characters), NEW stale, NEW from \in 0..Len(s)
    PROVE  readNumberLine(s, stale, from).ret \in Int /\ readNumberLine(s, stale, from).num \in Int
<1> DEFINE p == LineEnd(s, from)
           line == SubSeq(s, from + 1, p)
<1>1. p \in from..Len(s)
  BY LineEndIs
<1> HIDE DEF p
<1>2. line \in Seq(Characters)
  BY <1>1
<1> HIDE DEF line
<1>3. AfterLine(s, stale, p) \in Int
  BY <1>1 DEF AfterLine, AGAIN, ERROR
<1>4. ToSet(line) \subseteq NumberCharacters => Number(line) \in Int
  <2> SUFFICES ASSUME ToSet(line) \subseteq NumberCharacters PROVE Number(line) \in Int
    OBVIOUS
  <2>1. line \in Seq(NumberCharacters)
    BY <1>2, SeqOfItself, SeqMonotone
  <2> QED BY <2>1, NumberSteps
<1> QED BY <1>3, <1>4 DEF readNumberLine, NumberLine, NumberUpTo, NumberCharacters, ERROR, p, line

\* The same of a bulk string's text.
LEMMA TextLineType ==
    ASSUME NEW s \in Seq(Characters), NEW from \in Int, NEW l \in Int
    PROVE  readTextLine(s, from, l) \in Int
BY DEF readTextLine, AGAIN, ERROR

\* The same of a bulk string.
LEMMA BulkType ==
    ASSUME NEW s \in Seq(Characters), NEW stale, NEW from \in 0..(Len(s) - 1)
    PROVE  readBulk(s, stale, from).ret \in Int
<1> DEFINE n == readNumberLine(s, stale, from + 1)
<1>1. n.ret \in Int /\ n.num \in Int
  <2>1. from + 1 \in 0..Len(s)
    OBVIOUS
  <2> QED BY <2>1, NumberLineType
<1> HIDE DEF n
<1>2. readTextLine(s, n.ret, n.num) \in Int
  BY <1>1, TextLineType
<1>3. BulkBehind(s, n).ret \in Int
  BY <1>1, <1>2 DEF BulkBehind, BulkText, AGAIN
<1> QED BY <1>3 DEF readBulk, n, AGAIN, ERROR

-----------------------------------------------------------------------------
(* Bulk strings.                                                           *)

\* A line with a mark and a number.
LEMMA NumberInIs ==
    ASSUME NEW mark \in Characters, NEW n \in Ints
    PROVE  /\ NumberIn(mark, n) = <<mark>> \o Line(Decimal(n))
           /\ Decimal(n) \in Seq(Characters) /\ Line(Decimal(n)) \in Seq(Characters)
           /\ NumberIn(mark, n) \in Seq(Characters)
           /\ NumberIn(mark, n)[1] = mark
           /\ Len(NumberIn(mark, n)) = Len(Decimal(n)) + 3 /\ Len(Decimal(n)) \in Nat \ {0}
<1> DEFINE d == Decimal(n)
           c == <<CR, LF>>
<1>1. d \in Seq(Characters) /\ d # <<>>
  BY DecimalIs, DigitsAre, SeqMonotone
<1> HIDE DEF d
<1>2. c \in Seq(Characters) /\ <<mark>> \in Seq(Characters) /\ Len(c) = 2 /\ Len(<<mark>>) = 1
  BY CharactersAssumption
<1> HIDE DEF c
<1>3. (<<mark>> \o d) \o c = <<mark>> \o (d \o c)
  BY <1>1, <1>2, ConcatAssociative
<1>5. d \o c \in Seq(Characters) /\ Len(d \o c) = Len(d) + 2 /\ Len(d) \in Nat \ {0}
  <2>1. Len(d) \in Nat \ {0}
    BY <1>1
  <2>2. c \in Seq(Characters) /\ Len(c) = 2
    BY <1>2
  <2>3. d \in Seq(Characters)
    BY <1>1
  <2>4. d \o c \in Seq(Characters) /\ Len(d \o c) = Len(d) + Len(c)
    BY <2>2, <2>3, ConcatIs
  <2> QED BY <2>1, <2>2, <2>4
<1>4. /\ <<mark>> \o (d \o c) \in Seq(Characters) /\ (<<mark>> \o (d \o c))[1] = mark
      /\ Len(<<mark>> \o (d \o c)) = Len(d) + 3
  <2> DEFINE w == d \o c
  <2> HIDE DEF w
  <2>1. w \in Seq(Characters) /\ Len(w) = Len(d) + 2
    BY <1>5 DEF w
  <2>2. /\ <<mark>> \o w \in Seq(Characters) /\ (<<mark>> \o w)[1] = mark
        /\ Len(<<mark>> \o w) = Len(d) + 3
    BY <1>5, <2>1
  <2> QED BY <2>2 DEF w
<1> QED BY <1>1, <1>3, <1>4, <1>5 DEF NumberIn, Line, c, d

\* A bulk string: the line with its length, then the line with its text.
LEMMA BulkIs ==
    ASSUME NEW text, IsText(text)
    PROVE  /\ Bulk(text) = NumberIn("$", Len(text)) \o Line(text)
           /\ "$" \in Characters /\ Len(text) \in 0..MaxInt
           /\ NumberIn("$", Len(text)) \in Seq(Characters) /\ Line(text) \in Seq(Characters)
           /\ Bulk(text) \in Seq(Characters)
           /\ Len(Bulk(text)) = Len(NumberIn("$", Len(text))) + Len(text) + 2
<1>1. text \in Seq(Characters) /\ Len(text) \in 0..MaxInt /\ "$" \in Characters
  BY CharactersAssumption DEF IsText
<1>2. Len(text) \in Ints
  BY <1>1, MaxIntIs DEF Ints
<1>3. NumberIn("$", Len(text)) \in Seq(Characters)
  BY <1>1, <1>2, NumberInIs
<1>4. Line(text) \in Seq(Characters) /\ Len(Line(text)) = Len(text) + 2
  BY <1>1, LineIs
<1> QED BY <1>1, <1>3, <1>4 DEF Bulk

\* What readBulk makes of a bulk string, of a part of one, and at the two places
\* where it does not know a part for what it is.
LEMMA BulkReads ==
    ASSUME NEW s \in Seq(Characters), NEW stale, NEW from \in 0..(Len(s) - 1),
           NEW text, IsText(text), Reads(s, from, Bulk(text)),
           NEW b, b = readBulk(s, stale, from), NEW e, e = from + Len(Bulk(text))
    PROVE  /\ Len(s) >= e => b = [ret |-> e, tok |-> text]
           /\ Len(s) < e =>
                \/ b.ret = AGAIN
                \/ b.ret = ERROR /\ Len(s) - from \in BulkCuts(text)
                \/ b.ret = Len(s) /\ Len(s) = e - 2 /\ Len(s) - from \in BulkCuts(text)
<1> DEFINE l == Len(text)
           d == Decimal(l)
           h == NumberIn("$", l)
           a == from + Len(h)
           n == readNumberLine(s, stale, from + 1)
<1>1. /\ text \in Seq(Characters) /\ l \in 0..MaxInt /\ l \in Ints
      /\ h = <<"$">> \o Line(d) /\ d \in Seq(Characters) /\ Line(d) \in Seq(Characters)
      /\ h \in Seq(Characters) /\ Line(text) \in Seq(Characters)
      /\ Len(h) = Len(d) + 3 /\ Len(d) \in Nat \ {0} /\ Len(Line(text)) = l + 2
      /\ Len(s) \in Nat /\ from + 1 \in 0..Len(s) /\ l \in Nat /\ from \in Nat
      /\ from < Len(s)
  <2>4. l \in Nat
    BY DEF IsText
  <2>1. text \in Seq(Characters) /\ l \in 0..MaxInt /\ "$" \in Characters /\ Line(text) \in Seq(Characters)
    BY BulkIs DEF IsText
  <2>2. l \in Ints
    BY <2>1, MaxIntIs DEF Ints
  <2>3. Len(Line(text)) = l + 2
    BY <2>1, LineIs
  <2> HIDE DEF l
  <2>5. Len(s) \in Nat /\ from + 1 \in 0..Len(s) /\ from \in Nat /\ from < Len(s)
    OBVIOUS
  <2>6. /\ h = <<"$">> \o Line(d) /\ d \in Seq(Characters) /\ Line(d) \in Seq(Characters)
        /\ h \in Seq(Characters) /\ Len(h) = Len(d) + 3 /\ Len(d) \in Nat \ {0}
    BY <2>1, <2>2, NumberInIs
  <2> QED BY <2>1, <2>2, <2>3, <2>4, <2>5, <2>6
<1>2. Reads(s, from, h) /\ Reads(s, a, Line(text))
  <2>1. Reads(s, from, h \o Line(text)) /\ from \in Nat
    BY DEF Bulk
  <2> HIDE DEF h
  <2> QED BY <1>1, <2>1, ReadsParts
<1>3. s[from + 1] = "$" /\ Reads(s, from + 1, Line(d))
  <2>1. <<"$">> \in Seq(Characters) /\ Len(<<"$">>) = 1 /\ from \in Nat
    BY CharactersAssumption
  <2>2. Reads(s, from, <<"$">> \o Line(d))
    BY <1>1, <1>2
  <2>3. Reads(s, from, <<"$">>) /\ Reads(s, from + Len(<<"$">>), Line(d))
    BY <1>1, <2>1, <2>2, ReadsParts
  <2>4. 1 \in 1..Len(<<"$">>) /\ from + 1 <= Len(s)
    BY <2>1, <1>1
  <2> QED BY <2>1, <2>3, <2>4 DEF Reads
<1>4. e = a + l + 2 /\ a = from + 3 + Len(d)
  <2>1. Len(Bulk(text)) = Len(h) + l + 2
    BY BulkIs
  <2>2. e = from + Len(Bulk(text)) /\ a = from + Len(h)
    OBVIOUS
  <2> HIDE DEF h, d, l, a
  <2> QED BY <1>1, <2>1, <2>2
<1> DEFINE c == a - 2
<1> HIDE DEF h, d, l
<1>5. c = (from + 1) + Len(d) /\ c \in Nat /\ a \in Nat /\ e \in Nat /\ c + 2 = a
      /\ Len(h) = a - from
  BY <1>1, <1>4
<1> HIDE DEF a
<1>6. /\ Len(s) <= c => n.ret = AGAIN
      /\ Len(s) > c => n.num = l
      /\ Len(s) < c + 2 => n.ret = AGAIN \/ n.ret = Len(s) + 1 \/ n.ret = ERROR
      /\ Len(s) >= c + 2 => n.ret = c + 2
  <2> HIDE DEF c, n, l
  <2> DEFINE f == from + 1
  <2>1. f \in 0..Len(s) /\ Reads(s, f, Line(Decimal(l))) /\ c = f + Len(Decimal(l)) /\ l \in Ints
    BY <1>1, <1>3, <1>5 DEF d
  <2>2. n = readNumberLine(s, stale, f)
    BY DEF n
  <2> HIDE DEF f
  <2>3. /\ Len(s) <= f + Len(Decimal(l)) => n.ret = AGAIN
        /\ Len(s) > f + Len(Decimal(l)) => n.num = l
        /\ Len(s) < f + Len(Decimal(l)) + 2 => n.ret = AGAIN \/ n.ret = Len(s) + 1 \/ n.ret = ERROR
        /\ Len(s) >= f + Len(Decimal(l)) + 2 => n.ret = f + Len(Decimal(l)) + 2
    BY <2>1, <2>2, NumberReads
  <2> QED BY <2>1, <2>3
<1>7. c + 2 = a /\ a \in Nat /\ c \in Nat
  BY <1>5
<1>15. /\ Len(s) \in Nat /\ l \in Nat /\ from \in Nat /\ e = a + l + 2 /\ e \in Nat
       /\ from + 1 <= c /\ from < Len(s) /\ Len(h) = a - from
  BY <1>1, <1>4, <1>5
<1> HIDE DEF c
<1>8. b = IF from + 1 >= Len(s) THEN [ret |-> AGAIN, tok |-> NoToken] ELSE BulkBehind(s, n)
  BY <1>3 DEF readBulk
<1> HIDE DEF n
<1>9. Len(h) - 1 \in BulkCuts(text) /\ (text = <<>> => Len(h) \in BulkCuts(text))
  BY DEF BulkCuts, h, l
<1>10. AGAIN = -2 /\ ERROR = -1
  BY DEF AGAIN, ERROR
<1>11. CASE Len(s) <= c
  <2>1. b.ret = AGAIN
    BY <1>6, <1>8, <1>10, <1>11 DEF BulkBehind
  <2>2. Len(s) < e
    BY <1>7, <1>11, <1>15
  <2> QED BY <2>1, <2>2, <1>15
<1>12. CASE Len(s) = c + 1
  <2>1. Len(s) < e /\ Len(s) - from = Len(h) - 1 /\ ~(from + 1 >= Len(s))
    BY <1>7, <1>12, <1>15
  <2>2. CASE n.ret = ERROR
    <3>1. b.ret = ERROR
      BY <1>8, <1>10, <2>1, <2>2 DEF BulkBehind
    <3> QED BY <1>9, <2>1, <3>1, <1>15
  <2>3. CASE n.ret = Len(s) + 1
    <3>1. n.ret = Len(s) + 1 /\ n.num = l
      BY <1>6, <1>7, <1>12, <1>15, <2>3
    <3>2. readTextLine(s, n.ret, n.num) = AGAIN
      BY <1>15, <3>1 DEF readTextLine
    <3>3. b.ret = AGAIN
      BY <1>8, <1>10, <1>15, <2>1, <3>1, <3>2 DEF BulkBehind, BulkText
    <3> QED BY <2>1, <3>3, <1>15
  <2>4. CASE n.ret = AGAIN
    <3>1. b.ret = AGAIN
      BY <1>8, <1>10, <2>4 DEF BulkBehind
    <3> QED BY <1>15, <2>1, <3>1
  <2>5. Len(s) < c + 2
    BY <1>7, <1>12
  <2> QED BY <1>6, <2>2, <2>3, <2>4, <2>5
<1>13. CASE Len(s) = c + 2
  <2>1. Len(s) < e /\ n.ret = Len(s) /\ n.num = l /\ ~(from + 1 >= Len(s)) /\ Len(s) - from = Len(h)
    BY <1>6, <1>7, <1>13, <1>15
  <2>2. b = [ret |-> IF l <= 0 THEN Len(s) ELSE AGAIN, tok |-> NoToken]
    BY <1>8, <1>15, <2>1 DEF BulkBehind
  <2>3. l <= 0 => text = <<>> /\ Len(s) = e - 2
    <3>1. l <= 0 => l = 0
      BY <1>15
    <3>2. l = 0 => text = <<>>
      BY <1>1 DEF l
    <3> QED BY <1>7, <1>13, <1>15, <3>1, <3>2
  <2> QED BY <1>9, <2>1, <2>2, <2>3, <1>15
<1>14. CASE Len(s) > c + 2
  <2>1. n.ret = a /\ n.num = l /\ ~(from + 1 >= Len(s)) /\ n.ret # Len(s) /\ ~(n.ret < 0)
    BY <1>6, <1>7, <1>14, <1>15
  <2>2. b = BulkText(s, n, readTextLine(s, a, l))
    BY <1>8, <2>1 DEF BulkBehind
  <2>3. /\ Reads(s, a, text)
        /\ a + l + 1 <= Len(s) => s[a + l + 1] = CR
        /\ a + l + 2 <= Len(s) => s[a + l + 2] = LF
    <3> DEFINE w == Line(text)
    <3>1. /\ Len(w) = Len(text) + 2
          /\ \A z \in 1..Len(text) : w[z] = text[z]
          /\ w[Len(text) + 1] = CR /\ w[Len(text) + 2] = LF
      BY <1>1, LineIs, Zenon
    <3>2. \A z \in 1..Len(w) : a + z <= Len(s) => s[a + z] = w[z]
      BY <1>2 DEF Reads, a
    <3> HIDE DEF w
    <3>3. l + 1 \in 1..Len(w) /\ l + 2 \in 1..Len(w) /\ a + (l + 1) = a + l + 1 /\ a + (l + 2) = a + l + 2
      <4>1. Len(w) = l + 2
        BY <3>1 DEF l
      <4> QED BY <1>7, <1>15, <4>1
    <3>4. Reads(s, a, text)
      BY <1>1, <3>1, <3>2 DEF Reads
    <3>5. w[l + 1] = CR /\ w[l + 2] = LF
      BY <3>1 DEF l
    <3> QED BY <3>2, <3>3, <3>4, <3>5
  <2>4. CASE Len(s) < e
    <3>1. readTextLine(s, a, l) = AGAIN
      <4>1. Len(s) - a <= l \/ Len(s) - a = l + 1
        BY <1>7, <1>14, <1>15, <2>4
      <4>2. CASE Len(s) - a <= l
        <5>1. Len(s) - a <= l /\ ~((Len(s) - a) - l = 1)
          BY <1>7, <1>15, <4>2
        <5> QED BY <5>1 DEF readTextLine
      <4>3. CASE Len(s) - a = l + 1
        <5>1. ~(Len(s) - a <= l) /\ (Len(s) - a) - l = 1 /\ s[a + l + 1] = CR
          BY <1>7, <1>15, <2>3, <4>3
        <5> QED BY <5>1 DEF readTextLine
      <4> QED BY <4>1, <4>2, <4>3
    <3>2. b.ret = AGAIN
      BY <2>2, <3>1 DEF BulkText
    <3> QED BY <2>4, <3>2, <1>15
  <2>5. CASE Len(s) >= e
    <3>1. SubSeq(s, a + l + 1, a + l + 2) = <<CR, LF>>
      <4> DEFINE u == SubSeq(s, a + l + 1, a + l + 2)
                 v == <<CR, LF>>
      <4>1. u \in Seq(Characters) /\ Len(u) = 2 /\ u[1] = s[a + l + 1] /\ u[2] = s[a + l + 2]
        <5>1. a + l + 1 \in 1..Len(s) /\ a + l + 2 \in 1..Len(s) /\ a + l + 2 = (a + l + 1) + 1
          BY <1>7, <1>15, <2>5
        <5> DEFINE z == a + l + 1
                   j == a + l + 2
        <5> HIDE DEF z, j
        <5>2. z \in 1..Len(s) /\ j \in 1..Len(s) /\ j = z + 1
          BY <5>1 DEF z, j
        <5>3. SubSeq(s, z, j) \in Seq(Characters) /\ Len(SubSeq(s, z, j)) = 2
              /\ SubSeq(s, z, j)[1] = s[z] /\ SubSeq(s, z, j)[2] = s[j]
          BY <5>2
        <5> QED BY <5>3 DEF z, j
      <4>2. v \in Seq(Characters) /\ Len(v) = 2 /\ v[1] = CR /\ v[2] = LF
        BY CharactersAssumption
      <4>3. u[1] = CR /\ u[2] = LF
        BY <1>7, <1>15, <2>3, <2>5, <4>1
      <4> HIDE DEF u, v
      <4>4. \A z \in 1..Len(u) : u[z] = v[z]
        BY <4>1, <4>2, <4>3
      <4>5. u = v
        BY <4>1, <4>2, <4>4, SeqEqual
      <4> QED BY <4>5 DEF u, v
    <3>2. readTextLine(s, a, l) = e
      <4>1. ~(Len(s) - a <= l) /\ (Len(s) - a) - l # 1 /\ a + l + 2 = e
        BY <1>7, <1>15, <2>5
      <4> QED BY <3>1, <4>1 DEF readTextLine
    <3>3. SubSeq(s, a + 1, a + l) = text
      <4>1. l = Len(text)
        BY DEF l
      <4>2. a + l <= Len(s)
        BY <1>7, <1>15, <2>5
      <4> HIDE DEF l
      <4> QED BY <1>1, <1>7, <2>3, <4>1, <4>2, TextIs
    <3>4. ~(e < 0)
      BY <1>7, <1>15
    <3>5. b = [ret |-> e, tok |-> text]
      BY <2>1, <2>2, <3>2, <3>3, <3>4 DEF BulkText
    <3> QED BY <2>5, <3>5, <1>15
  <2> QED BY <2>4, <2>5, <1>15
<1> QED BY <1>11, <1>12, <1>13, <1>14, <1>7, <1>15

-----------------------------------------------------------------------------
(* Multi-bulks.                                                            *)

\* What the loop over the bulks makes of r.
NextBulk(s, stale, r) ==
    IF r.ret < 0 \/ r.ret >= Len(s) THEN r ELSE WithBulk(r, readBulk(s, stale, r.ret))

\* t is what the loop has read before its first round and after each.
BulkSteps(s, stale, from, argc, t) ==
    /\ t[0] = [ret |-> from, toks |-> <<>>]
    /\ \A k \in 0..(argc - 1) : t[k + 1] = NextBulk(s, stale, t[k])
    /\ Bulks(s, stale, from, argc) = t[argc]

\* The loop takes one bulk after the other.
LEMMA BulksStep ==
    ASSUME NEW s \in Seq(Characters), NEW stale, NEW from \in Int, NEW n \in Nat
    PROVE  \E t : BulkSteps(s, stale, from, n, t)
<1> DEFINE A == [ret : Int, toks : Seq({readBulk(s, stale, z).tok : z \in 0..(Len(s) - 1)})]
           base == [ret |-> from, toks |-> <<>>]
           seq == [k \in 1..n |-> k]
           op(a, k) == NextBulk(s, stale, a)
           step == [p \in A \X (1..n) |-> op(p[1], p[2])]
           F == CHOOSE f : f = [T \in SUBSET (1..n) |->
                                  IF T = {} THEN base ELSE op(f[T \ {Max(T)}], Max(T))]
<1>1. n \in Nat /\ DOMAIN seq = 1..n
  OBVIOUS
<1>2. base \in A
  OBVIOUS
<1>3. ASSUME NEW a \in A, NEW k \in 1..n PROVE op(a, k) \in A
  <2>1. CASE a.ret < 0 \/ a.ret >= Len(s)
    BY <2>1 DEF NextBulk
  <2>2. CASE ~(a.ret < 0 \/ a.ret >= Len(s))
    <3> DEFINE z == a.ret
               T == {readBulk(s, stale, j).tok : j \in 0..(Len(s) - 1)}
    <3>1. z \in 0..(Len(s) - 1)
      BY <2>2
    <3>2. readBulk(s, stale, z).ret \in Int
      BY <3>1, BulkType
    <3>3. readBulk(s, stale, z).tok \in T /\ a.toks \in Seq(T)
      BY <3>1
    <3> HIDE DEF T
    <3>4. Append(a.toks, readBulk(s, stale, z).tok) \in Seq(T)
      BY <3>3
    <3>5. op(a, k) = [ret |-> readBulk(s, stale, z).ret, toks |-> Append(a.toks, readBulk(s, stale, z).tok)]
      BY <2>2 DEF NextBulk, WithBulk
    <3> HIDE DEF op
    <3> QED BY <3>2, <3>4, <3>5 DEF T
  <2> QED BY <2>1, <2>2
<1>4. Bulks(s, stale, from, n) = F[1..n]
  BY <1>1 DEF Bulks, FoldLeft, MapThenFoldSet, NextBulk
<1>5. step \in [A \X (1..n) -> A]
  <2> HIDE DEF A, op
  <2>1. \A p \in A \X (1..n) : op(p[1], p[2]) \in A
    BY <1>3
  <2> QED BY <2>1
<1>6. \A a \in A, k \in 1..n : step[<<a, k>>] = op(a, k)
  <2> HIDE DEF A, op
  <2> QED OBVIOUS
<1> HIDE DEF A, base, op, step
<1>7. PICK h : IsFold(h, n, A, base, step)
  BY <1>1, <1>2, <1>5, FoldExists
<1>8. h = [T \in SUBSET (1..n) |-> IF T = {} THEN base ELSE op(h[T \ {Max(T)}], Max(T))]
  <2>1. ASSUME NEW T \in SUBSET (1..n), T # {}
        PROVE  step[<<h[T \ {Max(T)}], Max(T)>>] = op(h[T \ {Max(T)}], Max(T))
    <3>1. Max(T) \in T
      <4>1. T \in SUBSET (0..n)
        OBVIOUS
      <4> QED BY <1>1, <2>1, <4>1, Greatest
    <3>2. h[T \ {Max(T)}] \in A
      BY <1>7 DEF IsFold
    <3> QED BY <1>6, <3>1, <3>2
  <2>2. h = [T \in SUBSET (1..n) |-> h[T]]
    BY <1>7 DEF IsFold
  <2> QED BY <1>7, <2>1, <2>2 DEF IsFold
<1>9. \A T \in SUBSET (1..n) : F[T] = IF T = {} THEN base ELSE op(F[T \ {Max(T)}], Max(T))
  <2>1. F = [T \in SUBSET (1..n) |-> IF T = {} THEN base ELSE op(F[T \ {Max(T)}], Max(T))]
    BY <1>8
  <2> HIDE DEF F
  <2> QED BY <2>1
<1> HIDE DEF F
<1> DEFINE t == [k \in 0..n |-> F[1..k]]
<1>10. t[0] = base
  <2>1. 1..0 = {} /\ {} \in SUBSET (1..n) /\ 0 \in 0..n
    BY <1>1
  <2>2. F[{}] = base
    BY <1>9, <2>1
  <2>3. t[0] = F[1..0]
    BY <2>1
  <2> QED BY <2>1, <2>2, <2>3
<1>11. ASSUME NEW k \in 0..(n - 1) PROVE t[k + 1] = op(t[k], k + 1)
  <2>1. t[k + 1] = F[1..(k + 1)] /\ t[k] = F[1..k]
    BY <1>1
  <2>2. F[1..(k + 1)] = op(F[1..k], k + 1)
    <3> DEFINE T == 1..(k + 1)
    <3>1. T \in SUBSET (1..n) /\ T # {} /\ Max(T) = k + 1 /\ T \ {k + 1} = 1..k
      BY <1>1, PrefixMax
    <3> HIDE DEF T
    <3>2. F[T] = op(F[T \ {Max(T)}], Max(T))
      BY <1>9, <3>1
    <3> QED BY <3>1, <3>2 DEF T
  <2> QED BY <2>1, <2>2
<1>12. t[n] = F[1..n]
  BY <1>1
<1> HIDE DEF t
<1>13. BulkSteps(s, stale, from, n, t)
  BY <1>4, <1>10, <1>11, <1>12 DEF BulkSteps, base, op
<1> QED BY <1>13

\* The tokens of a message are texts.
AreTexts(tokens) ==
    tokens \in Seq(Seq(Characters)) /\ \A k \in DOMAIN tokens : IsText(tokens[k])

\* The bulks of a multi-bulk, one behind the other.
LEMMA BulksOfAre ==
    ASSUME NEW tokens, AreTexts(tokens), NEW N, N = Len(tokens)
    PROVE  /\ \A n \in 0..N : BulksOf(tokens, n) \in Seq(Characters)
           /\ BulksOf(tokens, 0) = <<>>
           /\ \A n \in 0..(N - 1) :
                 /\ Bulk(tokens[n + 1]) \in Seq(Characters)
                 /\ BulksOf(tokens, n + 1) = BulksOf(tokens, n) \o Bulk(tokens[n + 1])
           /\ \A n \in 0..N :
                 /\ Len(BulksOf(tokens, n)) <= Len(BulksOf(tokens, N))
                 /\ \A z \in 1..Len(BulksOf(tokens, n)) :
                       BulksOf(tokens, N)[z] = BulksOf(tokens, n)[z]
<1> DEFINE f == [k \in 1..N |-> Bulk(tokens[k])]
<1>1. N \in Nat /\ DOMAIN tokens = 1..N /\ \A k \in 1..N : IsText(tokens[k])
  BY DEF AreTexts
<1>2. \A k \in 1..N : Bulk(tokens[k]) \in Seq(Characters)
  BY <1>1, BulkIs
<1>3. f \in [1..N -> Seq(Characters)]
  BY <1>2
<1>4. \A n \in 0..N : BulksOf(tokens, n) = FlattenTo(f, n)
  <2> SUFFICES ASSUME NEW n \in 0..N PROVE BulksOf(tokens, n) = FlattenTo(f, n)
    OBVIOUS
  <2>1. \A k \in 1..n : k \in 1..N
    BY <1>1
  <2>2. [k \in 1..n |-> Bulk(tokens[k])] = [k \in 1..n |-> f[k]]
    BY <2>1
  <2> HIDE DEF f
  <2> QED BY <2>2 DEF BulksOf, FlattenTo
<1>5. \A n \in 0..(N - 1) : f[n + 1] = Bulk(tokens[n + 1]) /\ n \in 0..N /\ n + 1 \in 0..N
                            /\ n + 1 \in 1..N
  BY <1>1
<1> HIDE DEF f
<1>6. /\ FlattenTo(f, 0) = <<>>
      /\ \A n \in 0..N : FlattenTo(f, n) \in Seq(Characters)
      /\ \A n \in 0..(N - 1) : FlattenTo(f, n + 1) = FlattenTo(f, n) \o f[n + 1]
  BY <1>1, <1>3, FlattenMore
<1>7. ASSUME NEW n \in 0..N
      PROVE  /\ Len(FlattenTo(f, n)) <= Len(FlattenTo(f, N))
             /\ \A z \in 1..Len(FlattenTo(f, n)) : FlattenTo(f, N)[z] = FlattenTo(f, n)[z]
  <2>1. N \in Nat /\ f \in [1..N -> Seq(Characters)] /\ n \in 0..N /\ N \in n..N
    BY <1>1, <1>3
  <2>2. Len(FlattenTo(f, n)) <= Len(FlattenTo(f, N))
    BY <2>1, FlattenParts
  <2>3. \A z \in 1..Len(FlattenTo(f, n)) : FlattenTo(f, N)[z] = FlattenTo(f, n)[z]
    BY ONLY <2>1, FlattenParts, Zenon
  <2> QED BY <2>2, <2>3
<1>8. 0 \in 0..N /\ N \in 0..N
  BY <1>1
<1> QED BY <1>2, <1>4, <1>5, <1>6, <1>7, <1>8

\* Where the k-th bulk begins.
LEMMA BulkAt ==
    ASSUME NEW tokens, AreTexts(tokens), NEW N, N = Len(tokens),
           NEW s, NEW o \in Nat, Reads(s, o, BulksOf(tokens, N)), NEW k \in 0..(N - 1)
    PROVE  Reads(s, o + Len(BulksOf(tokens, k)), Bulk(tokens[k + 1]))
<1> DEFINE u == BulksOf(tokens, k)
           v == Bulk(tokens[k + 1])
           w == BulksOf(tokens, k + 1)
           y == BulksOf(tokens, N)
<1>1. k \in 0..N /\ k + 1 \in 0..N
  BY DEF AreTexts
<1>2. u \in Seq(Characters) /\ v \in Seq(Characters) /\ w = u \o v
  BY <1>1, BulksOfAre
<1>3. Len(w) <= Len(y) /\ \A z \in 1..Len(w) : y[z] = w[z]
  BY <1>1, BulksOfAre
<1>4. y \in Seq(Characters)
  <2>1. N \in 0..N
    BY <1>1 DEF AreTexts
  <2> QED BY <2>1, BulksOfAre
<1>5. \A z \in 1..Len(y) : o + z <= Len(s) => s[o + z] = y[z]
  BY DEF Reads
<1> HIDE DEF u, v, w, y
<1>6. ASSUME NEW z \in 1..Len(w), o + z <= Len(s) PROVE s[o + z] = w[z]
  <2>1. z \in 1..Len(y)
    BY <1>2, <1>3, <1>4
  <2> QED BY <1>3, <1>5, <1>6, <2>1
<1>7. Reads(s, o, u \o v)
  BY <1>2, <1>6 DEF Reads
<1>8. Reads(s, o + Len(u), v)
  BY <1>2, <1>7, ReadsParts
<1> QED BY <1>8 DEF u, v

\* s ends where a bulk is not recognised as a part of one.
EndsInCut(s, tokens, o) ==
    \E j \in DOMAIN tokens : \E c \in BulkCuts(tokens[j]) :
        Len(s) = o + Len(BulksOf(tokens, j - 1)) + c

\* What is left of a multi-bulk of tokens when the loop has taken k bulks.
Taken(s, tokens, o, k, r) ==
    LET e == o + Len(BulksOf(tokens, k))
    IN  /\ Len(s) >= e => r.ret = e /\ r.toks = SubSeq(tokens, 1, k)
        /\ Len(s) < e =>
             \/ r.ret = AGAIN
             \/ r.ret = ERROR /\ EndsInCut(s, tokens, o)
             \/ r.ret >= Len(s) /\ r.ret \in Nat /\ (Len(r.toks) < k \/ r.toks = <<>>)
             \/ /\ r.ret = Len(s) /\ Len(r.toks) = k /\ Len(s) = e - 2
                /\ EndsInCut(s, tokens, o)

\* One round of the loop.
LEMMA BulkTaken ==
    ASSUME NEW tokens, AreTexts(tokens), NEW N, N = Len(tokens),
           NEW s \in Seq(Characters), NEW stale, NEW o \in Nat, Reads(s, o, BulksOf(tokens, N)),
           NEW k \in 0..(N - 1), NEW r, Taken(s, tokens, o, k, r)
    PROVE  Taken(s, tokens, o, k + 1, NextBulk(s, stale, r))
<1> DEFINE text == tokens[k + 1]
           e == o + Len(BulksOf(tokens, k))
           next == o + Len(BulksOf(tokens, k + 1))
           l == Len(Bulk(text))
           b == readBulk(s, stale, e)
           q == NextBulk(s, stale, r)
           Cut == EndsInCut(s, tokens, o)
<1>1. /\ k + 1 \in DOMAIN tokens /\ tokens \in Seq(Seq(Characters)) /\ IsText(text)
      /\ N \in Nat /\ k \in 0..N /\ k + 1 \in 0..N
  <2>1. tokens \in Seq(Seq(Characters))
    BY DEF AreTexts
  <2>2. N \in Nat /\ DOMAIN tokens = 1..N
    BY <2>1
  <2>3. k + 1 \in DOMAIN tokens /\ k \in 0..N /\ k + 1 \in 0..N
    BY <2>2
  <2> QED BY <2>1, <2>2, <2>3 DEF AreTexts
<1>2. e \in Nat /\ l \in Nat /\ l >= 2 /\ next = e + l
  <2>1. Bulk(text) \in Seq(Characters) /\ l = Len(NumberIn("$", Len(text))) + Len(text) + 2
        /\ NumberIn("$", Len(text)) \in Seq(Characters) /\ text \in Seq(Characters)
    BY <1>1, BulkIs DEF IsText
  <2>2. BulksOf(tokens, k) \in Seq(Characters)
        /\ BulksOf(tokens, k + 1) = BulksOf(tokens, k) \o Bulk(text)
    BY <1>1, BulksOfAre
  <2> DEFINE u == BulksOf(tokens, k)
             v == Bulk(text)
             h == NumberIn("$", Len(text))
  <2> HIDE DEF text
  <2>3. u \in Seq(Characters) /\ v \in Seq(Characters) /\ Len(h) \in Nat /\ Len(text) \in Nat
    BY <2>1, <2>2, LenProperties
  <2>4. Len(BulksOf(tokens, k + 1)) = Len(u) + Len(v)
    BY <2>2, <2>3, ConcatIs
  <2>5. l = Len(h) + Len(text) + 2 /\ l = Len(v)
    BY <2>1
  <2> HIDE DEF u, v, h
  <2>6. e = o + Len(u) /\ next = o + Len(BulksOf(tokens, k + 1))
    BY DEF u
  <2>7. Len(u) \in Nat /\ Len(v) \in Nat
    BY <2>3
  <2>8. next = o + (Len(u) + Len(v))
    BY <2>4, <2>6
  <2> DEFINE a == Len(u)
             c == Len(v)
             d == Len(h)
             z == Len(text)
  <2>9. a \in Nat /\ c \in Nat /\ d \in Nat /\ z \in Nat /\ o \in Nat
    BY <2>3, <2>7
  <2>10. e = o + a /\ next = o + (a + c) /\ l = c /\ l = d + z + 2
    BY <2>5, <2>6, <2>8
  <2> HIDE DEF l, e, next, a, c, d, z
  <2> QED BY <2>9, <2>10
<1>3. Reads(s, e, Bulk(text))
  BY BulkAt
<1>4. /\ Len(s) >= e => r.ret = e /\ r.toks = SubSeq(tokens, 1, k)
      /\ Len(s) < e =>
             \/ r.ret = AGAIN
             \/ r.ret = ERROR /\ Cut
             \/ r.ret >= Len(s) /\ r.ret \in Nat /\ (Len(r.toks) < k \/ r.toks = <<>>)
             \/ r.ret = Len(s) /\ Len(r.toks) = k /\ Len(s) = e - 2 /\ Cut
  BY DEF Taken
<1>5. \A c \in BulkCuts(text) : Len(s) = e + c => Cut
  <2> SUFFICES ASSUME NEW c \in BulkCuts(text), Len(s) = e + c PROVE Cut
    OBVIOUS
  <2> DEFINE j == k + 1
  <2>1. j \in DOMAIN tokens /\ j - 1 = k /\ c \in BulkCuts(tokens[j])
    BY <1>1
  <2>2. Len(s) = o + Len(BulksOf(tokens, j - 1)) + c
    BY <2>1
  <2> HIDE DEF j
  <2> QED BY <2>1, <2>2 DEF EndsInCut
<1>6. SUFFICES
      /\ Len(s) >= next => q.ret = next /\ q.toks = SubSeq(tokens, 1, k + 1)
      /\ Len(s) < next =>
             \/ q.ret = AGAIN
             \/ q.ret = ERROR /\ Cut
             \/ q.ret >= Len(s) /\ q.ret \in Nat /\ (Len(q.toks) < k + 1 \/ q.toks = <<>>)
             \/ q.ret = Len(s) /\ Len(q.toks) = k + 1 /\ Len(s) = next - 2 /\ Cut
  BY DEF Taken
<1>7. AGAIN = -2 /\ ERROR = -1 /\ Len(s) \in Nat
  BY DEF AGAIN, ERROR
<1>8. SubSeq(tokens, 1, k + 1) = Append(SubSeq(tokens, 1, k), text) /\ Len(SubSeq(tokens, 1, k)) = k
  BY <1>1
<1>9. q = IF r.ret < 0 \/ r.ret >= Len(s) THEN r ELSE WithBulk(r, readBulk(s, stale, r.ret))
  BY DEF NextBulk
<1> HIDE DEF e, next, l, text, Cut, q
<1>10. CASE Len(s) < e
  <2>1. q = r
    BY <1>4, <1>7, <1>9, <1>10
  <2>2. Len(s) < next
    BY <1>2, <1>7, <1>10
  <2>3. CASE r.ret = AGAIN \/ (r.ret = ERROR /\ Cut)
    BY <1>2, <1>7, <2>1, <2>2, <2>3
  <2>4. CASE r.ret >= Len(s) /\ r.ret \in Nat /\ Len(r.toks) < k
    <3>1. Len(r.toks) < k + 1
      BY <1>1, <2>4
    <3> QED BY <1>2, <1>7, <2>1, <2>2, <2>4, <3>1
  <2>5. CASE r.ret >= Len(s) /\ r.ret \in Nat /\ r.toks = <<>>
    BY <1>2, <1>7, <2>1, <2>2, <2>5
  <2>6. CASE r.ret = Len(s) /\ Len(r.toks) = k
    <3>1. Len(r.toks) < k + 1
      BY <1>1, <2>6
    <3> QED BY <1>2, <1>7, <2>1, <2>2, <2>6, <3>1
  <2> QED BY <1>4, <1>10, <2>3, <2>4, <2>5, <2>6
<1>11. CASE Len(s) = e
  <2>1. q = r /\ r.ret = Len(s) /\ Len(r.toks) < k + 1 /\ Len(s) < next
    <3>1. r.ret = Len(s) /\ r.toks = SubSeq(tokens, 1, k) /\ Len(s) < next
      BY <1>2, <1>4, <1>7, <1>11
    <3>2. q = r
      BY <1>7, <1>9, <3>1
    <3>3. Len(r.toks) = k /\ k < k + 1
      BY <1>8, <3>1
    <3> QED BY <3>1, <3>2, <3>3
  <2> QED BY <1>2, <1>7, <2>1
<1>12. CASE Len(s) > e
  <2>1. r.ret = e /\ r.toks = SubSeq(tokens, 1, k) /\ e \in 0..(Len(s) - 1)
    BY <1>2, <1>4, <1>7, <1>12
  <2>2. q = [ret |-> b.ret, toks |-> Append(SubSeq(tokens, 1, k), b.tok)]
    BY <1>2, <1>7, <1>9, <2>1 DEF WithBulk
  <2>3. /\ Len(s) >= next => b = [ret |-> next, tok |-> text]
        /\ Len(s) < next =>
             \/ b.ret = AGAIN
             \/ b.ret = ERROR /\ Len(s) - e \in BulkCuts(text)
             \/ b.ret = Len(s) /\ Len(s) = next - 2 /\ Len(s) - e \in BulkCuts(text)
    <3>1. next = e + Len(Bulk(text))
      BY <1>2 DEF l
    <3> QED BY <1>1, <1>3, <2>1, <3>1, BulkReads
  <2>4. Len(s) - e \in BulkCuts(text) => Cut
    <3>1. Len(s) = e + (Len(s) - e)
      BY <1>2, <1>7
    <3> QED BY <1>5, <3>1
  <2>5. Len(q.toks) = k + 1
    <3>1. SubSeq(tokens, 1, k) \in Seq(Seq(Characters))
      BY <1>1
    <3> DEFINE u == SubSeq(tokens, 1, k)
    <3> HIDE DEF u, b
    <3>2. Len(Append(u, b.tok)) = Len(u) + 1
      BY <3>1 DEF u
    <3> QED BY <1>8, <2>2, <3>2 DEF u
  <2> HIDE DEF b
  <2>6. CASE Len(s) >= next
    BY <1>2, <1>7, <1>8, <2>2, <2>3, <2>6
  <2>7. CASE Len(s) < next
    BY <1>2, <1>7, <2>2, <2>3, <2>4, <2>5, <2>7
  <2> QED BY <1>2, <1>7, <2>6, <2>7
<1> QED BY <1>2, <1>7, <1>10, <1>11, <1>12

\* No message has more tokens than an int can count.
LEMMA TokensFit == \A n \in 0..MaxToken : n \in Ints /\ n \in Nat
<1>1. MaxToken \in Nat /\ MaxToken <= MaxInt
  BY SMT DEF MaxInt, MaxToken
<1> QED BY <1>1, MaxIntIs DEF Ints

\* s ends where a multi-bulk is not recognised as a part of one.
EndsInside(s, tokens) ==
    LET h == NumberIn("*", Len(tokens))
    IN  Len(s) = Len(h) - 1 \/ EndsInCut(s, tokens, Len(h))

\* readMultiBulk finds a whole multi-bulk with its tokens; of a part of one it asks
\* for more, unless the text ends where EndsInside says.
LEMMA MultiBulkReads ==
    ASSUME NEW s \in Seq(Characters), Len(s) >= 1, NEW stale,
           NEW tokens, AreTexts(tokens), NEW N, N = Len(tokens), N \in 1..MaxToken,
           NEW h, h = NumberIn("*", N), Reads(s, 0, h \o BulksOf(tokens, N)),
           NEW e, e = Len(h) + Len(BulksOf(tokens, N))
    PROVE  /\ Len(s) >= e => readMultiBulk(s, stale).ret = e /\ readMultiBulk(s, stale).toks = tokens
           /\ Len(s) < e =>
                \/ readMultiBulk(s, stale).ret = AGAIN
                \/ readMultiBulk(s, stale).ret = ERROR /\ EndsInside(s, tokens)
                \/ /\ readMultiBulk(s, stale).ret = Len(s) /\ Len(s) = e - 2
                   /\ EndsInside(s, tokens)
<1> DEFINE d == Decimal(N)
           o == Len(h)
           all == BulksOf(tokens, N)
           n == readNumberLine(s, stale, 1)
           q == readMultiBulk(s, stale)
           c == o - 2
<1>1. N \in Ints /\ N \in Nat /\ 0 \in 0..N /\ N \in 0..N /\ N >= 1
  BY TokensFit
<1>2. "*" \in Characters
  BY CharactersAssumption
<1>3. /\ h = <<"*">> \o Line(d) /\ d \in Seq(Characters) /\ Line(d) \in Seq(Characters)
      /\ h \in Seq(Characters) /\ o = Len(d) + 3 /\ Len(d) \in Nat \ {0}
  BY <1>1, <1>2, NumberInIs
<1>4. all \in Seq(Characters) /\ BulksOf(tokens, 0) = <<>>
  BY <1>1, BulksOfAre
<1> HIDE DEF d, all
<1>5. Len(all) \in Nat /\ Len(BulksOf(tokens, 0)) = 0 /\ e = o + Len(all)
  BY <1>4 DEF all
<1>6. Reads(s, 0, h) /\ Reads(s, o, all)
  <2>1. Reads(s, 0 + Len(h), all) /\ Reads(s, 0, h)
    BY <1>3, <1>4, ReadsParts DEF all
  <2>2. 0 + Len(h) = o
    BY <1>3
  <2> QED BY <2>1, <2>2
<1>7. Reads(s, 1, Line(d))
  <2>1. <<"*">> \in Seq(Characters) /\ Len(<<"*">>) = 1 /\ 0 \in Nat
    BY <1>2
  <2>2. Reads(s, 0, <<"*">> \o Line(d))
    BY <1>3, <1>6
  <2>3. Reads(s, 0 + Len(<<"*">>), Line(d))
    BY <1>3, <2>1, <2>2, ReadsParts
  <2>4. 0 + Len(<<"*">>) = 1
    BY <2>1
  <2> QED BY <2>3, <2>4
<1> HIDE DEF o
<1>8. o \in Nat /\ c \in Nat /\ c + 2 = o /\ c = 1 + Len(d) /\ e \in Nat /\ e >= o /\ Len(s) \in Nat
      /\ e = o + Len(all) /\ Len(all) \in Nat /\ c >= 2
  BY <1>3, <1>5
<1> HIDE DEF c, n
<1>9. /\ Len(s) <= c => n.ret = AGAIN
      /\ Len(s) > c => n.num = N
      /\ Len(s) = c + 1 => n.ret = AGAIN \/ n.ret = c + 2 \/ n.ret = ERROR
      /\ Len(s) >= c + 2 => n.ret = c + 2
  <2>1. 1 \in 0..Len(s) /\ Reads(s, 1, Line(Decimal(N))) /\ c = 1 + Len(Decimal(N))
    BY <1>7, <1>8 DEF d
  <2>2. n = readNumberLine(s, stale, 1)
    BY DEF n
  <2> DEFINE f == 1
  <2> HIDE DEF f
  <2>3. f \in 0..Len(s) /\ Reads(s, f, Line(Decimal(N))) /\ c = f + Len(Decimal(N))
        /\ n = readNumberLine(s, stale, f) /\ N \in Ints
    BY <1>1, <2>1, <2>2 DEF f
  <2>4. /\ Len(s) <= f + Len(Decimal(N)) => n.ret = AGAIN
        /\ Len(s) > f + Len(Decimal(N)) => n.num = N
        /\ Len(s) < f + Len(Decimal(N)) + 2 => n.ret = AGAIN \/ n.ret = Len(s) + 1 \/ n.ret = ERROR
        /\ Len(s) >= f + Len(Decimal(N)) + 2 => n.ret = f + Len(Decimal(N)) + 2
    BY ONLY s \in Seq(Characters), <2>3, NumberReads
  <2>5. f + Len(Decimal(N)) = c /\ c \in Nat /\ Len(s) \in Nat
    BY <1>8, <2>3
  <2> QED BY <2>4, <2>5
<1>10. q = IF Len(s) <= 1 THEN [ret |-> AGAIN, toks |-> <<>>] ELSE BulksBehind(s, stale, n)
  BY DEF readMultiBulk, n
<1>11. AGAIN = -2 /\ ERROR = -1
  BY DEF AGAIN, ERROR
<1>12. EndsInside(s, tokens) <=> (Len(s) = o - 1 \/ EndsInCut(s, tokens, o))
  BY DEF EndsInside, o
<1>13. SUFFICES
       /\ Len(s) >= e => q.ret = e /\ q.toks = tokens
       /\ Len(s) < e =>
            \/ q.ret = AGAIN
            \/ q.ret = ERROR /\ EndsInside(s, tokens)
            \/ q.ret = Len(s) /\ Len(s) = e - 2 /\ EndsInside(s, tokens)
  OBVIOUS
<1> HIDE DEF q
<1>14. CASE Len(s) <= c
  <2>1. q.ret = AGAIN
    BY <1>9, <1>10, <1>11, <1>14 DEF BulksBehind
  <2>2. Len(s) < e
    BY <1>8, <1>14
  <2> QED BY <1>8, <2>1, <2>2
<1>15. CASE Len(s) = c + 1 /\ n.ret = ERROR
  <2>1. q.ret = ERROR
    BY <1>8, <1>10, <1>11, <1>15 DEF BulksBehind
  <2>2. Len(s) < e /\ Len(s) = o - 1
    BY <1>8, <1>15
  <2> QED BY <1>8, <1>12, <2>1, <2>2
<1>17. CASE Len(s) = c + 1 /\ n.ret = AGAIN
  <2>1. q.ret = AGAIN
    BY <1>10, <1>11, <1>17 DEF BulksBehind
  <2>2. Len(s) < e
    BY <1>8, <1>17
  <2> QED BY <1>8, <2>1, <2>2
<1>16. CASE Len(s) > c /\ n.ret = c + 2
  <2>1. n.num = N /\ n.ret = o /\ ~(Len(s) <= 1) /\ ~(n.ret < 0)
    BY <1>8, <1>9, <1>16
  <2>2. q = AllBulks(Bulks(s, stale, o, N), N)
    BY <1>10, <2>1 DEF BulksBehind
  <2>3. PICK t : BulkSteps(s, stale, o, N, t)
    <3>1. o \in Int /\ N \in Nat
      BY <1>1, <1>8
    <3> QED BY <3>1, BulksStep
  <2> DEFINE K == {k \in 0..N : Taken(s, tokens, o, k, t[k])}
  <2>4. CASE Len(s) >= o
    <3>1. 0 \in K
      <4>1. t[0] = [ret |-> o, toks |-> <<>>]
        BY <2>3 DEF BulkSteps
      <4>2. SubSeq(tokens, 1, 0) = <<>>
        BY DEF AreTexts
      <4>3. o + Len(BulksOf(tokens, 0)) = o
        BY <1>5, <1>8
      <4>4. Taken(s, tokens, o, 0, t[0])
        BY <1>8, <2>4, <4>1, <4>2, <4>3 DEF Taken
      <4> QED BY <1>1, <4>4
    <3>2. ASSUME NEW k \in 0..(N - 1), k \in K PROVE k + 1 \in K
      <4>1. t[k + 1] = NextBulk(s, stale, t[k])
        BY <2>3 DEF BulkSteps
      <4>2. Taken(s, tokens, o, k + 1, t[k + 1])
        BY <1>6, <1>8, <3>2, <4>1, BulkTaken DEF all
      <4> QED BY <1>1, <4>2
    <3> HIDE DEF K
    <3>3. \A k \in 0..N : k \in K
      BY <1>1, <3>1, <3>2, InductTo
    <3>4. Taken(s, tokens, o, N, t[N])
      BY <1>1, <3>3 DEF K
    <3>5. o + Len(BulksOf(tokens, N)) = e
      BY <1>8 DEF all
    <3>6. t[N] = Bulks(s, stale, o, N)
      BY <2>3 DEF BulkSteps
    <3> DEFINE r == Bulks(s, stale, o, N)
    <3>7. q = IF r.ret >= 0 /\ Len(r.toks) # N THEN [ret |-> AGAIN, toks |-> <<>>] ELSE r
      BY <2>2 DEF AllBulks
    <3>8. SubSeq(tokens, 1, N) = tokens
      BY DEF AreTexts
    <3>9. /\ Len(s) >= e => r.ret = e /\ r.toks = tokens
          /\ Len(s) < e =>
               \/ r.ret = AGAIN
               \/ r.ret = ERROR /\ EndsInCut(s, tokens, o)
               \/ r.ret >= Len(s) /\ r.ret \in Nat /\ (Len(r.toks) < N \/ r.toks = <<>>)
               \/ r.ret = Len(s) /\ Len(r.toks) = N /\ Len(s) = e - 2 /\ EndsInCut(s, tokens, o)
      BY <3>4, <3>5, <3>6, <3>8 DEF Taken
    <3> HIDE DEF r
    <3>10. CASE Len(s) >= e
      <4>1. q = r
        BY <3>7, <3>9, <3>10
      <4> QED BY <1>8, <3>9, <3>10, <4>1
    <3>11. CASE Len(s) < e
      <4>1. CASE r.ret = AGAIN
        BY <1>8, <1>11, <3>7, <3>11, <4>1
      <4>2. CASE r.ret = ERROR /\ EndsInCut(s, tokens, o)
        BY <1>8, <1>11, <1>12, <3>7, <3>11, <4>2
      <4>3. CASE r.ret >= Len(s) /\ r.ret \in Nat /\ (Len(r.toks) < N \/ r.toks = <<>>)
        <5>1. Len(r.toks) # N
          <6>1. Len(<<>>) = 0
            OBVIOUS
          <6> QED BY <1>1, <4>3, <6>1
        <5>2. q = [ret |-> AGAIN, toks |-> <<>>]
          BY <3>7, <4>3, <5>1
        <5> QED BY <1>8, <3>11, <5>2
      <4>4. CASE r.ret = Len(s) /\ Len(r.toks) = N /\ Len(s) = e - 2 /\ EndsInCut(s, tokens, o)
        BY <1>8, <1>12, <3>7, <3>11, <4>4
      <4> QED BY <3>9, <3>11, <4>1, <4>2, <4>3, <4>4
    <3> QED BY <1>8, <3>10, <3>11
  <2>5. CASE Len(s) < o
    <3> DEFINE L == {k \in 0..N : t[k] = [ret |-> o, toks |-> <<>>]}
    <3>1. 0 \in L
      BY <1>1, <2>3 DEF BulkSteps
    <3>2. ASSUME NEW k \in 0..(N - 1), k \in L PROVE k + 1 \in L
      <4>1. t[k + 1] = NextBulk(s, stale, t[k])
        BY <2>3 DEF BulkSteps
      <4>2. o >= Len(s)
        BY <1>8, <2>5
      <4>3. t[k + 1] = t[k]
        BY <3>2, <4>1, <4>2 DEF NextBulk
      <4> QED BY <1>1, <3>2, <4>3
    <3> HIDE DEF L
    <3>3. \A k \in 0..N : k \in L
      BY <1>1, <3>1, <3>2, InductTo
    <3>4. Bulks(s, stale, o, N) = [ret |-> o, toks |-> <<>>]
      BY <1>1, <2>3, <3>3 DEF L, BulkSteps
    <3>5. o >= 0 /\ Len(<<>>) # N
      BY <1>1, <1>8
    <3>6. q = [ret |-> AGAIN, toks |-> <<>>]
      BY <2>2, <3>4, <3>5 DEF AllBulks
    <3> QED BY <1>8, <2>5, <3>6
  <2> QED BY <1>8, <2>4, <2>5
<1> QED BY <1>8, <1>9, <1>14, <1>15, <1>16, <1>17

-----------------------------------------------------------------------------
(* Messages.                                                               *)

\* readTextEndByCRLF finds a whole line with its text, and waits for the rest of
\* one, unless only the line feed is missing.
LEMMA TextLineReads ==
    ASSUME NEW s \in Seq(Characters), NEW stale, NEW from \in 0..Len(s), from < Len(s),
           NEW text \in Seq(Characters), text # <<>>, CR \notin ToSet(text),
           Reads(s, from, Line(text)), NEW ret, ret = readTextEndByCRLF(s, stale, from)
    PROVE  /\ Len(s) <= from + Len(text) => ret = AGAIN
           /\ Len(s) < from + Len(text) + 2 => ret = AGAIN \/ ret = Len(s) + 1 \/ ret = ERROR
           /\ Len(s) >= from + Len(text) + 2 =>
                 ret = from + Len(text) + 2 /\ SubSeq(s, from + 1, from + Len(text)) = text
<1> DEFINE p == LineEnd(s, from)
           q == AfterLine(s, stale, p)
<1>1. from \in 0..Len(s) /\ from \in Nat /\ Len(s) \in Nat /\ from < Len(s)
      /\ Len(text) \in Nat /\ Len(text) # 0
  OBVIOUS
<1>2. ret = IF p = from THEN ERROR ELSE q
  BY DEF readTextEndByCRLF, LineUpTo
<1>3. p = LineEnd(s, from)
  OBVIOUS
<1> HIDE DEF p
<1>4. /\ p \in from..Len(s)
      /\ Len(s) <= from + Len(text) => p = Len(s) /\ q = AGAIN
      /\ Len(s) > from + Len(text) => p = from + Len(text) /\ SubSeq(s, from + 1, p) = text
      /\ Len(s) >= from + Len(text) + 2 => q = from + Len(text) + 2
  <2>1. p \in from..Len(s)
    BY <1>3, LineReads
  <2>2. Len(s) <= from + Len(text) => p = Len(s) /\ q = AGAIN
    BY <1>3, LineReads
  <2>3. Len(s) > from + Len(text) => p = from + Len(text) /\ SubSeq(s, from + 1, p) = text
    BY <1>3, LineReads
  <2>4. Len(s) >= from + Len(text) + 2 => q = from + Len(text) + 2
    BY <1>3, LineReads
  <2> QED BY <2>1, <2>2, <2>3, <2>4
<1>6. Len(s) < from + Len(text) + 2 => q = AGAIN \/ q = Len(s) + 1 \/ q = ERROR
  <2>1. q = AGAIN \/ q = ERROR \/ q = p + 2
    BY DEF AfterLine
  <2> DEFINE e == from + Len(text)
  <2>2. Len(s) <= e \/ Len(s) > e
    BY <1>1
  <2>3. Len(s) > e /\ Len(s) < e + 2 => p + 2 = Len(s) + 1
    BY <1>1, <1>4
  <2> QED BY <1>4, <2>1, <2>2, <2>3
<1> HIDE DEF q
<1>5. p # from
  <2>1. CASE Len(s) <= from + Len(text)
    BY <1>1, <1>4, <2>1
  <2>2. CASE Len(s) > from + Len(text)
    BY <1>1, <1>4, <2>2
  <2> QED BY <1>1, <2>1, <2>2
<1> QED BY <1>1, <1>2, <1>4, <1>5, <1>6

\* How the three outcomes are told.
LEMMA ResultIs ==
    ASSUME NEW ret, NEW type, NEW tokens, NEW number
    PROVE  /\ ret = AGAIN => Result(ret, type, tokens, number).state = "incomplete"
           /\ ret = ERROR => Result(ret, type, tokens, number).state = "error"
           /\ ret \in Nat => Result(ret, type, tokens, number)
                               = [state |-> "ok", len |-> ret, type |-> type, tokens |-> tokens,
                                  integer |-> number]
<1>1. AGAIN = -2 /\ ERROR = -1
  BY DEF AGAIN, ERROR
<1> QED BY <1>1 DEF Result

\* What parse makes of s, which holds the message m or a part of it.
Parsed(s, m, r) ==
    /\ Len(s) >= Len(Encode(m)) => r = Meaning(m)
    /\ Len(s) < Len(Encode(m)) =>
         \/ r.state = "incomplete"
         \/ r.state = "error" /\ Len(s) \in Cuts(m)
         \/ r.state = "ok" /\ r.len = Len(s) + 1 /\ Len(s) \in Cuts(m)
         \/ r.state = "ok" /\ r.len = Len(s) /\ Len(s) = Len(Encode(m)) - 2 /\ Len(s) \in Cuts(m)

\* A line behind its mark, if it has one.
LEMMA MarkedLineParsed ==
    ASSUME NEW s \in Seq(Characters), NEW stale, NEW from \in 0..(Len(s) - 1),
           NEW text \in Seq(Characters), text # <<>>, CR \notin ToSet(text),
           Reads(s, from, Line(text)), NEW m, NEW l, l = Len(Encode(m)), l = from + Len(text) + 2,
           l - 1 \in Cuts(m), NEW type,
           Meaning(m) = [state |-> "ok", len |-> Len(Encode(m)), type |-> type, tokens |-> <<text>>,
                         integer |-> 0]
    PROVE  Parsed(s, m, LineResult(s, from, type, readTextEndByCRLF(s, stale, from)))
<1> DEFINE e == from + Len(text)
           ret == readTextEndByCRLF(s, stale, from)
           r == LineResult(s, from, type, ret)
<1>1. e \in Nat /\ Len(s) \in Nat /\ l \in Nat /\ l = e + 2
  OBVIOUS
<1>2. /\ Len(s) <= e => ret = AGAIN
      /\ Len(s) < e + 2 => ret = AGAIN \/ ret = Len(s) + 1 \/ ret = ERROR
      /\ Len(s) >= e + 2 => ret = e + 2 /\ SubSeq(s, from + 1, e) = text
  <2>1. ret = readTextEndByCRLF(s, stale, from) /\ from \in 0..Len(s) /\ from < Len(s)
    OBVIOUS
  <2> HIDE DEF ret
  <2> QED BY <2>1, TextLineReads
<1> HIDE DEF ret
<1>3. r = Result(ret, type, Text(s, from, ret), 0)
  BY DEF LineResult
<1> SUFFICES Parsed(s, m, r)
  BY DEF r, ret
<1>7. SUFFICES
      /\ Len(s) >= l => r = Meaning(m)
      /\ Len(s) < l =>
           \/ r.state = "incomplete"
           \/ r.state = "error" /\ Len(s) \in Cuts(m)
           \/ r.state = "ok" /\ r.len = Len(s) + 1 /\ Len(s) \in Cuts(m)
  BY DEF Parsed
<1> HIDE DEF r, e
<1>4. CASE Len(s) <= e
  <2>1. r.state = "incomplete"
    BY <1>2, <1>3, <1>4, ResultIs
  <2> QED BY <1>1, <1>4, <2>1
<1>5. CASE Len(s) = e + 1
  <2>1. Len(s) \in Cuts(m) /\ Len(s) < l
    <3>1. Len(s) = l - 1
      BY <1>1, <1>5
    <3>2. l - 1 \in Cuts(m)
      OBVIOUS
    <3>3. Len(s) \in Cuts(m)
      BY <3>1, <3>2
    <3> QED BY <1>1, <1>5, <3>3
  <2>2. CASE ret = ERROR
    <3>1. r.state = "error"
      BY <1>3, <2>2, ResultIs
    <3> QED BY <1>1, <1>5, <2>1, <3>1
  <2>3. CASE ret = Len(s) + 1
    <3>1. r.state = "ok" /\ r.len = Len(s) + 1
      <4>1. ret \in Nat
        BY <1>1, <2>3
      <4> QED BY <1>3, <2>3, <4>1, ResultIs
    <3> QED BY <1>1, <1>5, <2>1, <3>1
  <2>4. CASE ret = AGAIN
    <3>1. r.state = "incomplete"
      BY <1>3, <2>4, ResultIs
    <3> QED BY <1>1, <1>5, <2>1, <3>1
  <2>5. Len(s) < e + 2
    BY <1>1, <1>5
  <2> QED BY <1>2, <2>2, <2>3, <2>4, <2>5
<1>6. CASE Len(s) >= e + 2
  <2>1. ret \in Nat /\ ret - 2 = e /\ ~(ret < 0) /\ ret = l
    BY <1>1, <1>2, <1>6
  <2>2. Text(s, from, ret) = <<text>>
    BY <1>2, <1>6, <2>1 DEF Text
  <2>3. r = Meaning(m)
    <3>1. r = [state |-> "ok", len |-> l, type |-> type, tokens |-> <<text>>, integer |-> 0]
      BY <1>3, <2>1, <2>2, ResultIs
    <3> QED BY <3>1
  <2> QED BY <1>1, <1>6, <2>3
<1> QED BY <1>1, <1>4, <1>5, <1>6

\* A line that begins with a mark.
LEMMA MarkedLineIs ==
    ASSUME NEW mark \in Characters, NEW text \in Seq(Characters)
    PROVE  /\ Line(<<mark>> \o text) = <<mark>> \o Line(text)
           /\ Line(text) \in Seq(Characters) /\ Line(<<mark>> \o text) \in Seq(Characters)
           /\ Len(Line(<<mark>> \o text)) = 1 + Len(text) + 2
           /\ Line(<<mark>> \o text)[1 + Len(text) + 1] = CR
<1> DEFINE c == <<CR, LF>>
           u == <<mark>>
           w == u \o text
<1>1. c \in Seq(Characters) /\ u \in Seq(Characters) /\ Len(u) = 1
  BY CharactersAssumption
<1> HIDE DEF c, u
<1>2. (u \o text) \o c = u \o (text \o c)
  <2>1. c \in Seq(Characters) /\ u \in Seq(Characters) /\ text \in Seq(Characters)
    BY <1>1
  <2> QED BY <2>1, ConcatAssociative
<1>3. w \in Seq(Characters) /\ Len(w) = 1 + Len(text)
  <2>1. u \in Seq(Characters) /\ text \in Seq(Characters)
    BY <1>1
  <2>2. w \in Seq(Characters) /\ Len(w) = Len(u) + Len(text)
    BY <2>1, ConcatIs
  <2> HIDE DEF w
  <2> QED BY <1>1, <2>2
<1> HIDE DEF w
<1>4. Line(w) \in Seq(Characters) /\ Len(Line(w)) = Len(w) + 2 /\ Line(w)[Len(w) + 1] = CR
  BY <1>3, LineIs
<1>5. Line(text) \in Seq(Characters)
  BY LineIs
<1> QED BY <1>2, <1>3, <1>4, <1>5 DEF Line, c, u, w

\* The first character behind its mark.
LEMMA MarkReads ==
    ASSUME NEW s \in Seq(Characters), Len(s) >= 1, NEW mark \in Characters,
           NEW w \in Seq(Characters), Reads(s, 0, <<mark>> \o w)
    PROVE  s[1] = mark /\ Reads(s, 1, w)
<1>1. <<mark>> \in Seq(Characters) /\ Len(<<mark>>) = 1 /\ 0 \in Nat
  OBVIOUS
<1>2. Reads(s, 0, <<mark>>) /\ Reads(s, 0 + Len(<<mark>>), w)
  BY <1>1, ReadsParts
<1>3. 0 + Len(<<mark>>) = 1
  BY <1>1
<1>4. 1 \in 1..Len(<<mark>>) /\ 0 + 1 <= Len(s) /\ 0 + 1 = 1
  BY <1>1
<1>5. s[1] = <<mark>>[1]
  BY <1>2, <1>4 DEF Reads
<1> QED BY <1>2, <1>3, <1>5

\* What IsMessage says of each kind of message.
LEMMA TextsOf ==
    ASSUME NEW m, IsMessage(m)
    PROVE  /\ AreTexts(m.tokens)
           /\ Len(m.tokens) = 1 => /\ IsText(m.tokens[1]) /\ m.tokens[1] \in Seq(Characters)
                                   /\ m.tokens = <<m.tokens[1]>>
           /\ m.type \in {"Status", "Error", "Inline", "Bulk"} => Len(m.tokens) = 1
           /\ m.type \in {"Status", "Error", "Inline"} =>
                 m.tokens[1] # <<>> /\ CR \notin ToSet(m.tokens[1]) /\ m.integer = 0
           /\ m.type = "Inline" => m.tokens[1][1] \notin {"+", "-", ":", "$", "*"}
           /\ m.type \in {"Integer", "Nil"} => m.tokens = <<>>
           /\ m.type \in {"Nil", "Bulk", "MultiBulk"} => m.integer = 0
           /\ m.integer \in Ints
           /\ m.type = "MultiBulk" => Len(m.tokens) \in 1..MaxToken
           /\ m.type \in {"Status", "Error", "Inline", "Integer", "Nil", "Bulk", "MultiBulk"}
<1>1. m.tokens \in Seq(Seq(Characters)) /\ \A k \in DOMAIN m.tokens : IsText(m.tokens[k])
  BY DEF IsMessage
<1>2. Len(m.tokens) = 1 => IsText(m.tokens[1])
  BY <1>1
<1>3. Len(m.tokens) = 1 => m.tokens = <<m.tokens[1]>>
  BY <1>1
<1>4. Len(m.tokens) = 1 => m.tokens[1] \in Seq(Characters)
  BY <1>2 DEF IsText
<1> QED BY <1>1, <1>2, <1>3, <1>4 DEF IsMessage, AreTexts, IsLine

-----------------------------------------------------------------------------
(* One lemma per kind of message.                                          *)

\* A status or an error.
LEMMA StatusParsed ==
    ASSUME NEW s \in Seq(Characters), Len(s) >= 1, NEW stale, NEW m, IsMessage(m),
           Reads(s, 0, Encode(m)), m.type \in {"Status", "Error"}
    PROVE  Parsed(s, m, parse(s, stale))
<1> DEFINE text == m.tokens[1]
           mark == IF m.type = "Status" THEN "+" ELSE "-"
           l == Len(Encode(m))
<1>1. text \in Seq(Characters) /\ m.tokens = <<text>> /\ text # <<>> /\ CR \notin ToSet(text) /\ m.integer = 0
  BY TextsOf
<1>2. mark \in Characters /\ Encode(m) = Line(<<mark>> \o text)
  BY CharactersAssumption DEF Encode
<1> HIDE DEF text, mark
<1>3. /\ Encode(m) = <<mark>> \o Line(text) /\ Line(text) \in Seq(Characters)
      /\ l = 1 + Len(text) + 2
  BY <1>1, <1>2, MarkedLineIs
<1>4. s[1] = mark /\ Reads(s, 1, Line(text))
  BY <1>2, <1>3, MarkReads
<1>5. parse(s, stale) = LineResult(s, 1, m.type, readMarkedLine(s, stale))
  BY <1>4 DEF parse, mark
<1>6. l - 1 \in Cuts(m)
  BY DEF Cuts
<1>7. Meaning(m) = [state |-> "ok", len |-> l, type |-> m.type, tokens |-> <<text>>, integer |-> 0]
  BY <1>1 DEF Meaning
<1> DEFINE r == parse(s, stale)
<1>8. CASE Len(s) <= 1
  <2>1. readMarkedLine(s, stale) = AGAIN
    BY <1>8 DEF readMarkedLine
  <2>2. r.state = "incomplete"
    BY <1>5, <2>1, ResultIs DEF LineResult
  <2>3. Len(s) < l /\ ~(Len(s) >= l)
    BY <1>1, <1>3, <1>8
  <2> QED BY <2>2, <2>3 DEF Parsed
<1>9. CASE Len(s) > 1
  <2>1. readMarkedLine(s, stale) = readTextEndByCRLF(s, stale, 1)
    BY <1>9 DEF readMarkedLine
  <2>2. 1 \in 0..(Len(s) - 1)
    BY <1>9
  <2>3. l = Len(Encode(m))
    OBVIOUS
  <2> HIDE DEF l
  <2>4. Parsed(s, m, LineResult(s, 1, m.type, readTextEndByCRLF(s, stale, 1)))
    BY <1>1, <1>3, <1>4, <1>6, <1>7, <2>2, <2>3, MarkedLineParsed
  <2> QED BY <1>5, <2>1, <2>4
<1> QED BY <1>8, <1>9

\* An inline command: a line without a mark.
LEMMA InlineParsed ==
    ASSUME NEW s \in Seq(Characters), Len(s) >= 1, NEW stale, NEW m, IsMessage(m),
           Reads(s, 0, Encode(m)), m.type = "Inline"
    PROVE  Parsed(s, m, parse(s, stale))
<1> DEFINE text == m.tokens[1]
           l == Len(Encode(m))
<1>1. /\ text \in Seq(Characters) /\ m.tokens = <<text>> /\ text # <<>> /\ CR \notin ToSet(text)
      /\ m.integer = 0 /\ text[1] \notin {"+", "-", ":", "$", "*"}
  BY TextsOf
<1>2. Encode(m) = Line(text)
  BY DEF Encode
<1> HIDE DEF text
<1>3. /\ l = 0 + Len(text) + 2 /\ \A z \in 1..Len(text) : Line(text)[z] = text[z]
      /\ Len(Line(text)) = Len(text) + 2 /\ Len(text) >= 1
  <2>1. Len(text) \in Nat /\ Len(text) >= 1
    BY <1>1
  <2>2. Len(Line(text)) = Len(text) + 2 /\ \A z \in 1..Len(text) : Line(text)[z] = text[z]
    BY <1>1, LineIs
  <2>3. l = Len(Line(text))
    BY <1>2
  <2> HIDE DEF l
  <2> QED BY <2>1, <2>2, <2>3
<1>4. s[1] = text[1]
  <2>1. 1 \in 1..Len(Line(text)) /\ 0 + 1 <= Len(s) /\ 0 + 1 = 1 /\ 1 \in 1..Len(text)
    BY <1>1, <1>3
  <2> QED BY <1>2, <1>3, <2>1 DEF Reads
<1>5. parse(s, stale) = LineResult(s, 0, "Bulk", readTextEndByCRLF(s, stale, 0))
  BY <1>1, <1>4 DEF parse
<1>6. l - 1 \in Cuts(m)
  BY DEF Cuts
<1>7. Meaning(m) = [state |-> "ok", len |-> l, type |-> "Bulk", tokens |-> <<text>>, integer |-> 0]
  BY <1>1 DEF Meaning
<1>8. l = Len(Encode(m)) /\ Reads(s, 0, Line(text)) /\ 0 \in 0..(Len(s) - 1)
  BY <1>2
<1> HIDE DEF l
<1>9. Parsed(s, m, LineResult(s, 0, "Bulk", readTextEndByCRLF(s, stale, 0)))
  BY <1>1, <1>3, <1>6, <1>7, <1>8, MarkedLineParsed
<1> QED BY <1>5, <1>9

\* readNumberLine behind a mark.
LEMMA MarkedNumberReads ==
    ASSUME NEW s \in Seq(Characters), Len(s) >= 1, NEW stale, NEW mark \in Characters, NEW n \in Ints,
           Reads(s, 0, NumberIn(mark, n)), NEW l, l = Len(NumberIn(mark, n)),
           NEW q, q = readNumberLine(s, stale, 1)
    PROVE  /\ s[1] = mark /\ l \in Nat /\ l >= 4
           /\ Len(s) <= l - 2 => q.ret = AGAIN
           /\ Len(s) > l - 2 => q.num = n
           /\ Len(s) < l => q.ret = AGAIN \/ q.ret = Len(s) + 1 \/ q.ret = ERROR
           /\ Len(s) >= l => q.ret = l
<1> DEFINE d == Decimal(n)
           c == Len(d)
<1>1. /\ NumberIn(mark, n) = <<mark>> \o Line(d) /\ d \in Seq(Characters) /\ Line(d) \in Seq(Characters)
      /\ l = c + 3 /\ c \in Nat \ {0}
  BY NumberInIs
<1> HIDE DEF d
<1>2. s[1] = mark /\ Reads(s, 1, Line(d))
  BY <1>1, MarkReads
<1> DEFINE f == 1
<1>3. q = readNumberLine(s, stale, f) /\ f \in 0..Len(s) /\ Reads(s, f, Line(Decimal(n)))
  BY <1>2 DEF d
<1>4. f = 1 /\ Len(s) \in Nat
  OBVIOUS
<1> HIDE DEF f
<1>5. Len(s) <= f + Len(Decimal(n)) => q.ret = AGAIN
  BY <1>3, NumberReads
<1>6. Len(s) > f + Len(Decimal(n)) => q.num = n
  BY <1>3, NumberReads
<1>7. Len(s) < f + Len(Decimal(n)) + 2 => q.ret = AGAIN \/ q.ret = Len(s) + 1 \/ q.ret = ERROR
  BY <1>3, NumberReads
<1>8. Len(s) >= f + Len(Decimal(n)) + 2 => q.ret = f + Len(Decimal(n)) + 2
  BY <1>3, NumberReads
<1>9. Len(Decimal(n)) = c
  BY DEF d
<1> HIDE DEF c
<1>10. f + Len(Decimal(n)) = l - 2 /\ f + Len(Decimal(n)) + 2 = l /\ l \in Nat /\ l >= 4
  BY <1>1, <1>4, <1>9
<1> QED BY <1>2, <1>5, <1>6, <1>7, <1>8, <1>10

\* An integer.
LEMMA IntegerParsed ==
    ASSUME NEW s \in Seq(Characters), Len(s) >= 1, NEW stale, NEW m, IsMessage(m),
           Reads(s, 0, Encode(m)), m.type = "Integer"
    PROVE  Parsed(s, m, parse(s, stale))
<1> DEFINE n == m.integer
           l == Len(Encode(m))
           q == readNumberLine(s, stale, 1)
           r == parse(s, stale)
<1>1. n \in Ints /\ m.tokens = <<>> /\ ":" \in Characters
  BY TextsOf, CharactersAssumption
<1>2. Encode(m) = NumberIn(":", n)
  BY DEF Encode
<1>3. q = readNumberLine(s, stale, 1) /\ l = Len(NumberIn(":", n)) /\ Reads(s, 0, NumberIn(":", n))
  BY <1>2
<1>4. Meaning(m) = [state |-> "ok", len |-> l, type |-> "Integer", tokens |-> <<>>, integer |-> n]
  BY <1>1 DEF Meaning
<1>5. l - 1 \in Cuts(m) /\ l = Len(Encode(m))
  BY DEF Cuts
<1> HIDE DEF n, l, q
<1>6. /\ s[1] = ":" /\ l \in Nat /\ l >= 4
      /\ Len(s) <= l - 2 => q.ret = AGAIN
      /\ Len(s) > l - 2 => q.num = n
      /\ Len(s) < l => q.ret = AGAIN \/ q.ret = Len(s) + 1 \/ q.ret = ERROR
      /\ Len(s) >= l => q.ret = l
  BY <1>1, <1>3, MarkedNumberReads
<1>7. r = IF Len(s) <= 1 THEN Result(AGAIN, "Integer", <<>>, 0) ELSE Result(q.ret, "Integer", <<>>, q.num)
  BY <1>6 DEF parse, NumberResult, q
<1> SUFFICES Parsed(s, m, r)
  OBVIOUS
<1> HIDE DEF r
<1>8. CASE Len(s) <= l - 2
  <2>1. r.state = "incomplete"
    BY <1>6, <1>7, <1>8, ResultIs
  <2>2. ~(Len(s) >= l)
    BY <1>6, <1>8
  <2> QED BY <1>5, <2>1, <2>2 DEF Parsed
<1>9. CASE Len(s) = l - 1
  <2>1. Len(s) \in Cuts(m) /\ ~(Len(s) >= l) /\ Len(s) < l /\ ~(Len(s) <= 1)
    BY <1>5, <1>6, <1>9
  <2>2. r = Result(q.ret, "Integer", <<>>, q.num)
    BY <1>7, <2>1
  <2>3. CASE q.ret = AGAIN
    BY <1>5, <2>1, <2>2, <2>3, ResultIs DEF Parsed
  <2>4. CASE q.ret = ERROR
    BY <1>5, <2>1, <2>2, <2>4, ResultIs DEF Parsed
  <2>5. CASE q.ret = Len(s) + 1
    <3>1. q.ret \in Nat
      BY <2>5
    <3>2. r.state = "ok" /\ r.len = Len(s) + 1
      BY <2>2, <2>5, <3>1, ResultIs
    <3> QED BY <1>5, <2>1, <3>2 DEF Parsed
  <2> QED BY <1>6, <2>1, <2>3, <2>4, <2>5
<1>10. CASE Len(s) >= l
  <2>1. q.ret = l /\ q.num = n /\ ~(Len(s) <= 1) /\ q.ret \in Nat /\ ~(Len(s) < l)
    BY <1>6, <1>10
  <2>2. r = [state |-> "ok", len |-> l, type |-> "Integer", tokens |-> <<>>, integer |-> n]
    BY <1>7, <2>1, ResultIs
  <2> QED BY <1>4, <1>5, <2>1, <2>2 DEF Parsed
<1>11. Len(s) <= l - 2 \/ Len(s) = l - 1 \/ Len(s) >= l
  BY <1>6
<1> QED BY <1>8, <1>9, <1>10, <1>11

\* Nil is a reply, and nothing follows a reply.
LEMMA NilParsed ==
    ASSUME NEW s \in Seq(Characters), Len(s) >= 1, NEW stale, NEW m, IsMessage(m),
           Reads(s, 0, Encode(m)), m.type = "Nil", Len(s) <= Len(Encode(m))
    PROVE  Parsed(s, m, parse(s, stale))
<1> DEFINE n == -1
           l == Len(Encode(m))
           q == readNumberLine(s, stale, 1)
           b == readBulk(s, stale, 0)
           r == parse(s, stale)
<1>1. n \in Ints /\ m.tokens = <<>> /\ m.integer = 0 /\ "$" \in Characters
  <2>1. n \in Ints
    <3>1. MaxInt >= 1
      BY SMT DEF MaxInt
    <3> QED BY <3>1, MaxIntIs DEF Ints
  <2> QED BY <2>1, TextsOf, CharactersAssumption
<1>2. Encode(m) = NumberIn("$", n)
  BY DEF Encode
<1>3. q = readNumberLine(s, stale, 1) /\ l = Len(NumberIn("$", n)) /\ Reads(s, 0, NumberIn("$", n))
  BY <1>2
<1>4. Meaning(m) = [state |-> "ok", len |-> l, type |-> "Bulk", tokens |-> <<>>, integer |-> 0]
  BY <1>1 DEF Meaning
<1>5. l - 1 \in Cuts(m) /\ l = Len(Encode(m))
  BY DEF Cuts
<1>0. n = -1
  OBVIOUS
<1> HIDE DEF n, l, q
<1>6. /\ s[1] = "$" /\ l \in Nat /\ l >= 4
      /\ Len(s) <= l - 2 => q.ret = AGAIN
      /\ Len(s) > l - 2 => q.num = n
      /\ Len(s) < l => q.ret = AGAIN \/ q.ret = Len(s) + 1 \/ q.ret = ERROR
      /\ Len(s) >= l => q.ret = l
  BY <1>1, <1>3, MarkedNumberReads
<1>7. b = IF 1 >= Len(s) THEN [ret |-> AGAIN, tok |-> NoToken] ELSE BulkBehind(s, q)
  <2>1. s[0 + 1] = "$" /\ 0 + 1 = 1
    BY <1>6
  <2> QED BY <2>1 DEF readBulk, q
<1>8. r = Result(b.ret, "Bulk", IF b.tok = NoToken THEN <<>> ELSE <<b.tok>>, 0)
  BY <1>6 DEF parse, BulkResult
<1>11. AGAIN = -2 /\ ERROR = -1 /\ Len(s) \in Nat
  BY DEF AGAIN, ERROR
<1> SUFFICES Parsed(s, m, r)
  OBVIOUS
<1> HIDE DEF r, b
<1>9. CASE Len(s) < l
  <2>1. b.ret = AGAIN \/ (b.ret = ERROR /\ Len(s) = l - 1)
    <3>1. CASE q.ret = AGAIN
      BY <1>7, <1>11, <3>1 DEF BulkBehind
    <3>2. CASE q.ret = ERROR /\ Len(s) > l - 2
      <4>1. Len(s) = l - 1
        BY <1>6, <1>9, <1>11, <3>2
      <4>2. b.ret = AGAIN \/ b.ret = ERROR
        BY <1>7, <1>11, <3>2 DEF BulkBehind
      <4> QED BY <4>1, <4>2
    <3>3. CASE q.ret = Len(s) + 1 /\ Len(s) > l - 2
      <4>1. q.num = -1 /\ ~(q.ret < 0) /\ q.ret # Len(s)
        BY <1>0, <1>6, <1>11, <3>3
      <4>2. Len(s) - q.ret = -1
        BY <1>11, <3>3
      <4>3. readTextLine(s, q.ret, q.num) = AGAIN
        BY <4>1, <4>2 DEF readTextLine
      <4>4. BulkBehind(s, q) = [ret |-> AGAIN, tok |-> NoToken]
        BY <1>11, <4>1, <4>3 DEF BulkBehind, BulkText
      <4> QED BY <1>7, <4>4
    <3>4. Len(s) <= l - 2 \/ Len(s) > l - 2
      BY <1>6, <1>11
    <3> QED BY <1>6, <1>9, <3>1, <3>2, <3>3, <3>4
  <2>2. ~(Len(s) >= l)
    BY <1>6, <1>9, <1>11
  <2>3. CASE b.ret = AGAIN
    BY <1>5, <1>8, <2>2, <2>3, ResultIs DEF Parsed
  <2>4. CASE b.ret = ERROR /\ Len(s) = l - 1
    BY <1>5, <1>8, <2>2, <2>4, ResultIs DEF Parsed
  <2> QED BY <2>1, <2>3, <2>4
<1>10. CASE Len(s) >= l
  <2>1. Len(s) = l /\ ~(Len(s) < l) /\ ~(1 >= Len(s)) /\ q.ret = Len(s) /\ q.num = -1 /\ ~(q.ret < 0)
    BY <1>0, <1>5, <1>6, <1>10, <1>11
  <2>2. b = [ret |-> l, tok |-> NoToken]
    BY <1>7, <2>1 DEF BulkBehind
  <2>3. r = [state |-> "ok", len |-> l, type |-> "Bulk", tokens |-> <<>>, integer |-> 0]
    BY <1>6, <1>8, <2>2, ResultIs
  <2> QED BY <1>4, <1>5, <2>1, <2>3 DEF Parsed
<1>12. Len(s) < l \/ Len(s) >= l
  BY <1>6, <1>11
<1> QED BY <1>9, <1>10, <1>12

\* A bulk string is read, and a beginning of one recognised, as Parsed says.
LEMMA BulkParsed ==
    ASSUME NEW s \in Seq(Characters), Len(s) >= 1, NEW stale, NEW m, IsMessage(m),
           Reads(s, 0, Encode(m)), m.type = "Bulk"
    PROVE  Parsed(s, m, parse(s, stale))
<1> DEFINE text == m.tokens[1]
           l == Len(Encode(m))
           b == readBulk(s, stale, 0)
           r == parse(s, stale)
           f == 0
<1>1. text \in Seq(Characters) /\ IsText(text) /\ m.tokens = <<text>> /\ m.integer = 0
  BY TextsOf
<1>2. Encode(m) = Bulk(text) /\ Cuts(m) = BulkCuts(text)
  BY DEF Encode, Cuts
<1>3. Meaning(m) = [state |-> "ok", len |-> l, type |-> "Bulk", tokens |-> <<text>>, integer |-> 0]
  BY <1>1 DEF Meaning
<1>4. text # NoToken
  BY <1>1, CharactersAssumption
<1> HIDE DEF text
<1>5. /\ Bulk(text) = NumberIn("$", Len(text)) \o Line(text)
      /\ NumberIn("$", Len(text)) \in Seq(Characters) /\ Line(text) \in Seq(Characters)
      /\ Bulk(text) \in Seq(Characters) /\ "$" \in Characters /\ Len(text) \in Ints
  <2>1. Len(text) \in 0..MaxInt
    BY <1>1, BulkIs
  <2>2. Len(text) \in Ints
    BY <2>1, MaxIntIs DEF Ints
  <2> QED BY <1>1, <2>2, BulkIs
<1>6. s[1] = "$"
  <2>1. 0 \in Nat /\ Reads(s, 0, NumberIn("$", Len(text)))
    BY <1>2, <1>5, ReadsParts
  <2>2. NumberIn("$", Len(text)) = <<"$">> \o Line(Decimal(Len(text)))
        /\ Line(Decimal(Len(text))) \in Seq(Characters)
    BY <1>5, NumberInIs
  <2> QED BY <1>5, <2>1, <2>2, MarkReads
<1>7. r = Result(b.ret, "Bulk", IF b.tok = NoToken THEN <<>> ELSE <<b.tok>>, 0)
  BY <1>6 DEF parse, BulkResult
<1>8. l \in Nat /\ Len(s) \in Nat /\ l = Len(Bulk(text)) /\ l = Len(Encode(m))
  BY <1>2, <1>5
<1>9. f = 0 /\ f \in 0..(Len(s) - 1) /\ Reads(s, f, Bulk(text)) /\ b = readBulk(s, stale, f)
  BY <1>2
<1> HIDE DEF b, f, l
<1> DEFINE x == f + Len(Bulk(text))
           y == Len(s) - f
<1>11. x = l /\ y = Len(s) /\ x - 2 = l - 2
  BY <1>8, <1>9
<1>12. /\ Len(s) >= l => b = [ret |-> l, tok |-> text]
       /\ Len(s) < l =>
            \/ b.ret = AGAIN
            \/ b.ret = ERROR /\ Len(s) \in Cuts(m)
            \/ b.ret = Len(s) /\ Len(s) = l - 2 /\ Len(s) \in Cuts(m)
  <2>1. /\ Len(s) >= x => b = [ret |-> x, tok |-> text]
        /\ Len(s) < x =>
             \/ b.ret = AGAIN
             \/ b.ret = ERROR /\ y \in BulkCuts(text)
             \/ b.ret = Len(s) /\ Len(s) = x - 2 /\ y \in BulkCuts(text)
    <3>1. Len(s) >= x => b = [ret |-> x, tok |-> text]
      BY <1>1, <1>9, BulkReads
    <3>2. Len(s) < x =>
             \/ b.ret = AGAIN
             \/ b.ret = ERROR /\ y \in BulkCuts(text)
             \/ b.ret = Len(s) /\ Len(s) = x - 2 /\ y \in BulkCuts(text)
      BY <1>1, <1>9, BulkReads
    <3> QED BY <3>1, <3>2
  <2> HIDE DEF x, y
  <2> QED BY <1>2, <1>11, <2>1
<1> SUFFICES Parsed(s, m, r)
  OBVIOUS
<1> HIDE DEF r
<1>13. CASE Len(s) >= l
  <2>1. r = Result(l, "Bulk", <<text>>, 0)
    BY <1>4, <1>7, <1>12, <1>13
  <2>2. r = Meaning(m)
    BY <1>3, <1>8, <2>1, ResultIs
  <2> QED BY <1>8, <1>13, <2>2 DEF Parsed
<1>14. CASE Len(s) < l
  <2>0. ~(Len(s) >= l)
    BY <1>8, <1>14
  <2>1. CASE b.ret = AGAIN
    BY <1>7, <1>8, <2>0, <2>1, ResultIs DEF Parsed
  <2>2. CASE b.ret = ERROR /\ Len(s) \in Cuts(m)
    BY <1>7, <1>8, <2>0, <2>2, ResultIs DEF Parsed
  <2>3. CASE b.ret = Len(s) /\ Len(s) = l - 2 /\ Len(s) \in Cuts(m)
    <3>1. r.state = "ok" /\ r.len = Len(s)
      BY <1>7, <1>8, <2>3, ResultIs
    <3>2. Len(s) = Len(Encode(m)) - 2
      BY <1>8, <2>3
    <3> QED BY <1>8, <2>0, <2>3, <3>1, <3>2 DEF Parsed
  <2> QED BY <1>12, <1>14, <2>1, <2>2, <2>3
<1> QED BY <1>8, <1>13, <1>14

\* The places where a multi-bulk is not recognised as a part of one.
LEMMA CutsInside ==
    ASSUME NEW s, NEW m, m.type = "MultiBulk", EndsInside(s, m.tokens), Len(s) \in Nat
    PROVE  Len(s) \in Cuts(m)
<1> DEFINE h == NumberIn("*", Len(m.tokens))
           T == UNION {{k} \X BulkCuts(m.tokens[k]) : k \in DOMAIN m.tokens}
           C == {Len(h) + Len(BulksOf(m.tokens, c[1] - 1)) + c[2] : c \in T}
<1>1. Cuts(m) = {Len(h) - 1} \union C
  BY DEF Cuts
<1>2. CASE Len(s) = Len(h) - 1
  BY <1>1, <1>2
<1>3. CASE EndsInCut(s, m.tokens, Len(h))
  <2>0. PICK j \in DOMAIN m.tokens :
            \E c \in BulkCuts(m.tokens[j]) :
                Len(s) = Len(h) + Len(BulksOf(m.tokens, j - 1)) + c
    BY <1>3 DEF EndsInCut
  <2>1. PICK c \in BulkCuts(m.tokens[j]) :
            Len(s) = Len(h) + Len(BulksOf(m.tokens, j - 1)) + c
    BY <2>0
  <2>2. <<j, c>> \in T
    <3>1. <<j, c>> \in {j} \X BulkCuts(m.tokens[j])
      OBVIOUS
    <3> QED BY <3>1
  <2>3. Len(h) + Len(BulksOf(m.tokens, j - 1)) + c \in C
    <3>1. <<j, c>>[1] = j /\ <<j, c>>[2] = c
      OBVIOUS
    <3> HIDE DEF T
    <3> QED BY <2>2, <3>1
  <2> QED BY <1>1, <2>1, <2>3
<1> QED BY <1>2, <1>3 DEF EndsInside

\* A multi-bulk is read, and a beginning of one recognised, as Parsed says.
LEMMA MultiBulkParsed ==
    ASSUME NEW s \in Seq(Characters), Len(s) >= 1, NEW stale, NEW m, IsMessage(m),
           Reads(s, 0, Encode(m)), m.type = "MultiBulk"
    PROVE  Parsed(s, m, parse(s, stale))
<1> DEFINE tokens == m.tokens
           N == Len(tokens)
           h == NumberIn("*", N)
           e == Len(h) + Len(BulksOf(tokens, N))
           l == Len(Encode(m))
           q == readMultiBulk(s, stale)
           r == parse(s, stale)
<1>1. AreTexts(tokens) /\ N \in 1..MaxToken /\ m.integer = 0
  BY TextsOf
<1>2. Encode(m) = h \o BulksOf(tokens, N)
  BY DEF Encode
<1>3. N \in Ints /\ N \in Nat /\ N \in 0..N /\ "*" \in Characters
  BY <1>1, TokensFit, CharactersAssumption
<1>4. /\ h = <<"*">> \o Line(Decimal(N)) /\ h \in Seq(Characters)
      /\ Line(Decimal(N)) \in Seq(Characters)
  BY <1>3, NumberInIs
<1>5. BulksOf(tokens, N) \in Seq(Characters)
  BY <1>1, <1>3, BulksOfAre
<1>6. s[1] = "*"
  <2>1. 0 \in Nat /\ Reads(s, 0, h)
    <3> HIDE DEF h
    <3> QED BY <1>2, <1>4, <1>5, ReadsParts
  <2> QED BY <1>3, <1>4, <2>1, MarkReads
<1>7. Meaning(m) = [state |-> "ok", len |-> l, type |-> "MultiBulk", tokens |-> tokens, integer |-> 0]
  BY <1>1 DEF Meaning
<1>8. l = e /\ l \in Nat /\ l = Len(Encode(m)) /\ Len(s) \in Nat
  <2>1. Len(h \o BulksOf(tokens, N)) = e /\ e \in Nat
    <3> HIDE DEF h, N
    <3> QED BY <1>4, <1>5
  <2> QED BY <1>2, <2>1
<1>9. r = Result(q.ret, "MultiBulk", q.toks, 0)
  BY <1>6 DEF parse, MultiBulkResult
<1>10. EndsInside(s, tokens) => Len(s) \in Cuts(m)
  BY <1>8, CutsInside
<1>11. /\ Len(s) >= e => q.ret = e /\ q.toks = tokens
       /\ Len(s) < e =>
            \/ q.ret = AGAIN
            \/ q.ret = ERROR /\ EndsInside(s, tokens)
            \/ q.ret = Len(s) /\ Len(s) = e - 2 /\ EndsInside(s, tokens)
  <2>1. N = Len(tokens) /\ h = NumberIn("*", N) /\ e = Len(h) + Len(BulksOf(tokens, N))
        /\ Reads(s, 0, h \o BulksOf(tokens, N))
    BY <1>2
  <2> HIDE DEF N, h, e
  <2>2. Len(s) >= e => q.ret = e /\ q.toks = tokens
    BY <1>1, <2>1, MultiBulkReads
  <2>3. Len(s) < e =>
            \/ q.ret = AGAIN
            \/ q.ret = ERROR /\ EndsInside(s, tokens)
            \/ q.ret = Len(s) /\ Len(s) = e - 2 /\ EndsInside(s, tokens)
    BY <1>1, <2>1, MultiBulkReads
  <2> QED BY <2>2, <2>3
<1> HIDE DEF q, e, l, h, N
<1> SUFFICES Parsed(s, m, r)
  OBVIOUS
<1> HIDE DEF r
<1>13. CASE Len(s) >= l
  <2>1. r = Result(l, "MultiBulk", tokens, 0)
    BY <1>8, <1>9, <1>11, <1>13
  <2>2. r = Meaning(m)
    BY <1>7, <1>8, <2>1, ResultIs
  <2> QED BY <1>8, <1>13, <2>2 DEF Parsed
<1>14. CASE Len(s) < l
  <2>0. ~(Len(s) >= l)
    BY <1>8, <1>14
  <2>1. CASE q.ret = AGAIN
    BY <1>8, <1>9, <2>0, <2>1, ResultIs DEF Parsed
  <2>2. CASE q.ret = ERROR /\ Len(s) \in Cuts(m)
    BY <1>8, <1>9, <2>0, <2>2, ResultIs DEF Parsed
  <2>3. CASE q.ret = Len(s) /\ Len(s) = l - 2 /\ Len(s) \in Cuts(m)
    <3>1. r.state = "ok" /\ r.len = Len(s)
      BY <1>8, <1>9, <2>3, ResultIs
    <3>2. Len(s) = Len(Encode(m)) - 2
      BY <1>8, <2>3
    <3> QED BY <1>8, <2>0, <2>3, <3>1, <3>2 DEF Parsed
  <2>4. q.ret = AGAIN \/ (q.ret = ERROR /\ Len(s) \in Cuts(m))
        \/ (q.ret = Len(s) /\ Len(s) = l - 2 /\ Len(s) \in Cuts(m))
    BY <1>8, <1>10, <1>11, <1>14
  <2> QED BY <2>1, <2>2, <2>3, <2>4
<1> QED BY <1>8, <1>13, <1>14

\* Every message can be read: what parse makes of one, whole or in part.
LEMMA MessageParsed ==
    ASSUME NEW s \in Seq(Characters), Len(s) >= 1, NEW stale, NEW m, IsMessage(m),
           Reads(s, 0, Encode(m)), m.type = "Nil" => Len(s) <= Len(Encode(m))
    PROVE  Parsed(s, m, parse(s, stale))
<1>1. m.type \in {"Status", "Error", "Inline", "Integer", "Nil", "Bulk", "MultiBulk"}
  BY TextsOf
<1>2. CASE m.type \in {"Status", "Error"}
  BY <1>2, StatusParsed
<1>3. CASE m.type = "Inline"
  BY <1>3, InlineParsed
<1>4. CASE m.type = "Integer"
  BY <1>4, IntegerParsed
<1>5. CASE m.type = "Nil"
  BY <1>5, NilParsed
<1>6. CASE m.type = "Bulk"
  BY <1>6, BulkParsed
<1>7. CASE m.type = "MultiBulk"
  BY <1>7, MultiBulkParsed
<1> QED BY <1>1, <1>2, <1>3, <1>4, <1>5, <1>6, <1>7

\* A text that begins with the end of a line is none.
LEMMA StartsWithCR ==
    ASSUME NEW s \in Seq(Characters), Len(s) >= 1, s[1] = CR, NEW stale
    PROVE  parse(s, stale).state = "error"
<1>1. CR \notin {"+", "-", ":", "$", "*"}
  BY DEF CR
<1>2. LineEnd(s, 0) = 0
  <2>1. 0 \in 0..Len(s) /\ s[0 + 1] = CR /\ \A p \in 0..(0 - 1) : s[p + 1] # CR
    OBVIOUS
  <2> DEFINE o == 0
  <2>2. o \in 0..Len(s) /\ o \in o..Len(s) /\ s[o + 1] = CR /\ \A p \in o..(o - 1) : s[p + 1] # CR
    BY <2>1
  <2> HIDE DEF o
  <2>3. LineEnd(s, o) = o
    BY <2>2, LineEndAt
  <2> QED BY <2>3 DEF o
<1>3. readTextEndByCRLF(s, stale, 0) = ERROR
  BY <1>2 DEF readTextEndByCRLF, LineUpTo
<1>4. parse(s, stale) = Result(ERROR, "Bulk", Text(s, 0, ERROR), 0)
  BY <1>1, <1>3 DEF parse, LineResult
<1> QED BY <1>4, ResultIs

\* w ends in a carriage return and one character more.
EndsInLine(w) == w \in Seq(Characters) /\ Len(w) >= 2 /\ w[Len(w) - 1] = CR

\* Whatever is put before it.
LEMMA EndsInLineOf ==
    ASSUME NEW u \in Seq(Characters), NEW v, EndsInLine(v)
    PROVE  EndsInLine(u \o v)
<1> DEFINE w == u \o v
           z == Len(v) - 1
<1>1. v \in Seq(Characters) /\ Len(v) >= 2 /\ v[z] = CR
  BY DEF EndsInLine
<1>2. w \in Seq(Characters) /\ Len(w) = Len(u) + Len(v) /\ \A j \in 1..Len(v) : w[Len(u) + j] = v[j]
  BY <1>1, ConcatIs
<1>3. Len(w) >= 2 /\ z \in 1..Len(v) /\ Len(w) - 1 = Len(u) + z
  BY <1>1, <1>2
<1> HIDE DEF w, z
<1>4. w[Len(w) - 1] = CR
  BY <1>1, <1>2, <1>3
<1> QED BY <1>2, <1>3, <1>4 DEF EndsInLine, w

\* A line does.
LEMMA LineEnds ==
    ASSUME NEW text \in Seq(Characters)
    PROVE  EndsInLine(Line(text))
<1>1. /\ Line(text) \in Seq(Characters) /\ Len(Line(text)) = Len(text) + 2
      /\ Line(text)[Len(text) + 1] = CR
  BY LineIs
<1>2. Len(Line(text)) - 1 = Len(text) + 1 /\ Len(Line(text)) >= 2
  BY <1>1
<1> QED BY <1>1, <1>2 DEF EndsInLine

\* Every message ends in a line.
LEMMA EncodeIs ==
    ASSUME NEW m, IsMessage(m)
    PROVE  EndsInLine(Encode(m))
<1>1. m.type \in {"Status", "Error", "Inline", "Integer", "Nil", "Bulk", "MultiBulk"}
  BY TextsOf
<1>2. /\ "+" \in Characters /\ "-" \in Characters /\ ":" \in Characters /\ "$" \in Characters
      /\ "*" \in Characters
  BY CharactersAssumption
<1>3. ASSUME NEW mark \in Characters, NEW n \in Ints PROVE EndsInLine(NumberIn(mark, n))
  <2>1. NumberIn(mark, n) = <<mark>> \o Line(Decimal(n)) /\ Decimal(n) \in Seq(Characters)
    BY <1>3, NumberInIs
  <2>2. <<mark>> \in Seq(Characters)
    BY <1>3
  <2> QED BY <2>1, <2>2, LineEnds, EndsInLineOf
<1>4. ASSUME NEW text, IsText(text) PROVE EndsInLine(Bulk(text))
  <2>1. Bulk(text) = NumberIn("$", Len(text)) \o Line(text) /\ NumberIn("$", Len(text)) \in Seq(Characters)
    BY <1>4, BulkIs
  <2>2. text \in Seq(Characters)
    BY <1>4 DEF IsText
  <2> QED BY <2>1, <2>2, LineEnds, EndsInLineOf
<1>5. ASSUME NEW mark \in Characters, m.tokens[1] \in Seq(Characters)
      PROVE  EndsInLine(Line(<<mark>> \o m.tokens[1]))
  <2>1. <<mark>> \o m.tokens[1] \in Seq(Characters)
    <3>1. <<mark>> \in Seq(Characters)
      BY <1>5
    <3> QED BY <1>5, <3>1, ConcatIs
  <2> QED BY <2>1, LineEnds
<1>6. CASE m.type \in {"Status", "Error"}
  <2>1. m.tokens[1] \in Seq(Characters)
    BY <1>6, TextsOf
  <2> QED BY <1>2, <1>5, <1>6, <2>1 DEF Encode
<1>7. CASE m.type = "Inline"
  <2>1. m.tokens[1] \in Seq(Characters)
    BY <1>7, TextsOf
  <2> QED BY <1>7, <2>1, LineEnds DEF Encode
<1>8. CASE m.type = "Integer"
  <2>1. m.integer \in Ints
    BY TextsOf
  <2> QED BY <1>2, <1>3, <1>8, <2>1 DEF Encode
<1>9. CASE m.type = "Nil"
  <2>1. -1 \in Ints
    <3>1. MaxInt >= 1
      BY SMT DEF MaxInt
    <3> QED BY <3>1, MaxIntIs DEF Ints
  <2> QED BY <1>2, <1>3, <1>9, <2>1 DEF Encode
<1>10. CASE m.type = "Bulk"
  <2>1. IsText(m.tokens[1])
    BY <1>10, TextsOf
  <2> QED BY <1>4, <1>10, <2>1 DEF Encode
<1>11. CASE m.type = "MultiBulk"
  <2> DEFINE tokens == m.tokens
             N == Len(tokens)
             h == NumberIn("*", N)
             k == N - 1
  <2>1. AreTexts(tokens) /\ N \in 1..MaxToken
    BY <1>11, TextsOf
  <2>2. Encode(m) = h \o BulksOf(tokens, N)
    BY <1>11 DEF Encode
  <2>3. k \in 0..N /\ k \in 0..(N - 1) /\ k + 1 = N /\ N \in Ints /\ N \in DOMAIN tokens
    BY <2>1, TokensFit DEF AreTexts
  <2>4. h \in Seq(Characters)
    BY <1>2, <2>3, NumberInIs
  <2>5. N = Len(tokens)
    OBVIOUS
  <2> HIDE DEF h, k, N
  <2>6. BulksOf(tokens, k) \in Seq(Characters)
        /\ BulksOf(tokens, k + 1) = BulksOf(tokens, k) \o Bulk(tokens[k + 1])
    BY <2>1, <2>3, <2>5, BulksOfAre
  <2>7. IsText(tokens[k + 1])
    BY <2>1, <2>3 DEF AreTexts
  <2>8. EndsInLine(BulksOf(tokens, N))
    BY <1>4, <2>3, <2>6, <2>7, EndsInLineOf
  <2> QED BY <2>2, <2>4, <2>8, EndsInLineOf
<1> QED BY <1>1, <1>6, <1>7, <1>8, <1>9, <1>10, <1>11

\* What was sent, message by message.
LEMMA BeginningIs ==
    ASSUME stream \in Seq(Messages), NEW N, N = Len(stream)
    PROVE  /\ N \in Nat /\ Beginning(0) = <<>>
           /\ \A n \in 0..N : Beginning(n) \in Seq(Characters)
           /\ \A n \in 0..(N - 1) :
                 /\ stream[n + 1] \in Messages
                 /\ Beginning(n + 1) = Beginning(n) \o Encode(stream[n + 1])
           /\ \A n \in 0..N : \A m \in n..N :
                 /\ Len(Beginning(n)) <= Len(Beginning(m))
                 /\ \A z \in 1..Len(Beginning(n)) : Beginning(m)[z] = Beginning(n)[z]
<1> DEFINE f == [k \in 1..N |-> Encode(stream[k])]
<1>1. N \in Nat /\ \A k \in 1..N : stream[k] \in Messages
  OBVIOUS
<1>2. f \in [1..N -> Seq(Characters)]
  <2> SUFFICES ASSUME NEW k \in 1..N PROVE Encode(stream[k]) \in Seq(Characters)
    OBVIOUS
  <2>1. IsMessage(stream[k])
    BY <1>1, MessagesAssumption
  <2> QED BY <2>1, EncodeIs DEF EndsInLine
<1>3. ASSUME NEW n \in 0..N PROVE Beginning(n) = FlattenTo(f, n)
  <2>1. \A k \in 1..n : k \in 1..N /\ Encoded[stream[k]] = Encode(stream[k]) /\ f[k] = Encode(stream[k])
    BY <1>1, <1>3 DEF Encoded
  <2> HIDE DEF f
  <2>2. [k \in 1..n |-> Encoded[stream[k]]] = [k \in 1..n |-> f[k]]
    BY <2>1
  <2> QED BY <2>2 DEF Beginning, FlattenTo
<1>4. \A n \in 0..(N - 1) : f[n + 1] = Encode(stream[n + 1]) /\ stream[n + 1] \in Messages
                            /\ n \in 0..N /\ n + 1 \in 0..N
  BY <1>1
<1>5. 0 \in 0..N
  BY <1>1
<1> HIDE DEF f
<1>6. /\ FlattenTo(f, 0) = <<>>
      /\ \A n \in 0..N : FlattenTo(f, n) \in Seq(Characters)
      /\ \A n \in 0..(N - 1) : FlattenTo(f, n + 1) = FlattenTo(f, n) \o f[n + 1]
  BY <1>1, <1>2, FlattenMore
<1>7. ASSUME NEW n \in 0..N, NEW m \in n..N
      PROVE  /\ Len(Beginning(n)) <= Len(Beginning(m))
             /\ \A z \in 1..Len(Beginning(n)) : Beginning(m)[z] = Beginning(n)[z]
  <2>1. m \in 0..N
    BY <1>1
  <2>2. Beginning(n) = FlattenTo(f, n) /\ Beginning(m) = FlattenTo(f, m)
    BY <1>3, <2>1
  <2>3. N \in Nat /\ f \in [1..N -> Seq(Characters)] /\ n \in 0..N /\ m \in n..N
    BY <1>1, <1>2
  <2>4. Len(FlattenTo(f, n)) <= Len(FlattenTo(f, m))
    BY <2>3, FlattenParts
  <2>5. \A z \in 1..Len(FlattenTo(f, n)) : FlattenTo(f, m)[z] = FlattenTo(f, n)[z]
    BY ONLY <2>3, FlattenParts, Zenon
  <2> QED BY <2>2, <2>4, <2>5
<1>8. ASSUME NEW n \in 0..(N - 1) PROVE Beginning(n + 1) = Beginning(n) \o Encode(stream[n + 1])
  BY <1>3, <1>4, <1>6
<1>9. Beginning(0) = <<>> /\ \A n \in 0..N : Beginning(n) \in Seq(Characters)
  BY <1>3, <1>5, <1>6
<1> QED BY <1>1, <1>4, <1>7, <1>8, <1>9

\* Where a message lies in all that is sent.
LEMMA MessageAt ==
    ASSUME stream \in Seq(Messages), NEW n \in 0..(Len(stream) - 1)
    PROVE  /\ Encode(stream[n + 1]) \in Seq(Characters) /\ Len(Encode(stream[n + 1])) >= 2
           /\ IsMessage(stream[n + 1])
           /\ Len(Beginning(n + 1)) = Len(Beginning(n)) + Len(Encode(stream[n + 1]))
           /\ Len(Beginning(n + 1)) <= Len(Beginning(Len(stream)))
           /\ \A z \in 1..Len(Encode(stream[n + 1])) :
                 Beginning(Len(stream))[Len(Beginning(n)) + z] = Encode(stream[n + 1])[z]
           /\ Beginning(Len(stream))[Len(Beginning(n + 1)) - 1] = CR
<1> DEFINE N == Len(stream)
           e == Encode(stream[n + 1])
           u == Beginning(n)
           v == Beginning(n + 1)
           w == Beginning(N)
<1>1. N \in Nat /\ N = Len(stream) /\ n \in 0..N /\ n + 1 \in 0..N /\ N \in (n + 1)..N /\ n \in 0..(N - 1)
  OBVIOUS
<1> HIDE DEF N
<1>2. /\ u \in Seq(Characters) /\ v = u \o e /\ stream[n + 1] \in Messages
      /\ Len(v) <= Len(w) /\ \A z \in 1..Len(v) : w[z] = v[z]
  BY <1>1, BeginningIs
<1>3. IsMessage(stream[n + 1])
  BY <1>2, MessagesAssumption
<1>4. e \in Seq(Characters) /\ Len(e) >= 2 /\ e[Len(e) - 1] = CR
  BY <1>3, EncodeIs DEF EndsInLine
<1> HIDE DEF e, u, v, w
<1>5. Len(v) = Len(u) + Len(e) /\ \A z \in 1..Len(e) : v[Len(u) + z] = e[z]
  BY <1>2, <1>4, ConcatIs
<1>6. Len(u) \in Nat /\ Len(e) \in Nat /\ Len(v) \in Nat
  BY <1>2, <1>4, <1>5
<1>7. ASSUME NEW z \in 1..Len(e) PROVE w[Len(u) + z] = e[z]
  <2>1. Len(u) + z \in 1..Len(v)
    BY <1>5, <1>6
  <2> QED BY <1>2, <1>5, <2>1
<1>8. w[Len(v) - 1] = CR
  <2> DEFINE z == Len(e) - 1
  <2>1. z \in 1..Len(e) /\ Len(u) + z = Len(v) - 1
    BY <1>4, <1>5, <1>6
  <2>2. e[z] = CR
    BY <1>4
  <2> HIDE DEF z
  <2> QED BY <1>7, <2>1, <2>2
<1> QED BY <1>1, <1>2, <1>3, <1>4, <1>5, <1>7, <1>8 DEF e, u, v, w, N

\* All that is ever sent, and where its first n messages end.
Whole == Beginning(Len(stream))
Behind(n) == Len(Beginning(n))

\* What is sent by the time n messages have been found.
SentBy(n) == IF pipelined THEN Whole ELSE Beginning(Min({n + 1, Len(stream)}))

\* What is sent is the beginning of Whole, holds the next message, and grows with
\* the messages found.
LEMMA SentIs ==
    ASSUME stream \in Seq(Messages), NEW n \in 0..Len(stream)
    PROVE  /\ SentBy(n) \in Seq(Characters) /\ Whole \in Seq(Characters)
           /\ Len(SentBy(n)) <= Len(Whole)
           /\ \A z \in 1..Len(SentBy(n)) : Whole[z] = SentBy(n)[z]
           /\ n < Len(stream) => Behind(n + 1) <= Len(SentBy(n))
           /\ n < Len(stream) /\ ~pipelined => Behind(n + 1) = Len(SentBy(n))
           /\ n < Len(stream) => Len(SentBy(n)) <= Len(SentBy(n + 1))
<1> DEFINE N == Len(stream)
           k == Min({n + 1, N})
<1>1. N \in Nat /\ N = Len(stream) /\ n \in 0..N /\ N \in 0..N
  OBVIOUS
<1> HIDE DEF N
<1>2. k \in 0..N /\ N \in k..N /\ (n < N => k = n + 1)
  <2>1. {n + 1, N} \in SUBSET Nat /\ {n + 1, N} # {}
    BY <1>1
  <2>2. k \in {n + 1, N} /\ \A y \in {n + 1, N} : k <= y
    BY <2>1, MinIsLeast
  <2> HIDE DEF k
  <2>3. k <= n + 1 /\ k <= N /\ (k = n + 1 \/ k = N)
    BY <2>2
  <2> QED BY <1>1, <2>3
<1> HIDE DEF k
<1>3. /\ \A l \in 0..N : Beginning(l) \in Seq(Characters)
      /\ \A l \in 0..N : \A m \in l..N :
            /\ Len(Beginning(l)) <= Len(Beginning(m))
            /\ \A z \in 1..Len(Beginning(l)) : Beginning(m)[z] = Beginning(l)[z]
  BY <1>1, BeginningIs
<1>4. Beginning(k) \in Seq(Characters) /\ Beginning(N) \in Seq(Characters)
  BY <1>1, <1>2, <1>3
<1>5. /\ Len(Beginning(k)) <= Len(Beginning(N))
      /\ \A z \in 1..Len(Beginning(k)) : Beginning(N)[z] = Beginning(k)[z]
  BY <1>1, <1>2, <1>3
<1>6. SentBy(n) = IF pipelined THEN Beginning(N) ELSE Beginning(k)
  BY DEF SentBy, Whole, k, N
<1>7. Len(Beginning(N)) \in Nat /\ Len(Beginning(k)) \in Nat
  BY <1>4
<1>8. ASSUME n < N PROVE Len(Beginning(n + 1)) <= Len(Beginning(N)) /\ Len(Beginning(n + 1)) \in Nat
  <2>1. n + 1 \in 0..N /\ N \in (n + 1)..N
    BY <1>1, <1>8
  <2> QED BY <1>3, <2>1
<1>9. ASSUME n < N PROVE Len(SentBy(n)) <= Len(SentBy(n + 1))
  <2> DEFINE j == Min({(n + 1) + 1, N})
  <2>1. SentBy(n + 1) = IF pipelined THEN Beginning(N) ELSE Beginning(j)
    BY DEF SentBy, Whole, N
  <2>2. n + 1 \in 0..N /\ j \in (n + 1)..N
    <3>1. {(n + 1) + 1, N} \in SUBSET Nat /\ {(n + 1) + 1, N} # {}
      BY <1>1
    <3>2. j \in {(n + 1) + 1, N} /\ \A y \in {(n + 1) + 1, N} : j <= y
      BY <3>1, MinIsLeast
    <3> HIDE DEF j
    <3>3. j <= N /\ (j = (n + 1) + 1 \/ j = N)
      BY <3>2
    <3> QED BY <1>1, <1>9, <3>3
  <2> HIDE DEF j
  <2>3. Len(Beginning(n + 1)) <= Len(Beginning(j))
    BY <1>3, <2>2
  <2> QED BY <1>2, <1>6, <1>7, <1>9, <2>1, <2>3
<1>10. Whole = Beginning(N)
  BY DEF Whole, N
<1>11. n < N => Behind(n + 1) <= Len(SentBy(n))
  BY <1>2, <1>6, <1>8 DEF Behind
<1>12. n < N /\ ~pipelined => Behind(n + 1) = Len(SentBy(n))
  BY <1>2, <1>6 DEF Behind
<1>13. SentBy(n) \in Seq(Characters) /\ Whole \in Seq(Characters) /\ Len(SentBy(n)) <= Len(Whole)
  BY <1>4, <1>5, <1>6, <1>7, <1>10
<1>14. \A z \in 1..Len(SentBy(n)) : Whole[z] = SentBy(n)[z]
  BY <1>5, <1>6, <1>10
<1> QED BY <1>9, <1>11, <1>12, <1>13, <1>14 DEF N

\* What was to be sent does not change.
LEMMA Unmoved ==
    ASSUME stream' = stream, pipelined' = pipelined
    PROVE  /\ \A n : Beginning(n)' = Beginning(n)
           /\ \A n : Behind(n)' = Behind(n)
           /\ \A n : SentBy(n)' = SentBy(n)
           /\ Whole' = Whole
           /\ \A n : TornAt(n)' = TornAt(n)
<1>1. ASSUME NEW n PROVE Beginning(n)' = Beginning(n)
  BY Zenon DEF Beginning
<1>2. Whole' = Whole /\ \A n : Behind(n)' = Behind(n)
  BY <1>1 DEF Whole, Behind
<1>3. ASSUME NEW n PROVE SentBy(n)' = SentBy(n)
  BY <1>1, <1>2, Zenon DEF SentBy
<1>4. ASSUME NEW n PROVE TornAt(n)' = TornAt(n)
  BY <1>1, Zenon DEF TornAt, Start
<1> QED BY <1>1, <1>2, <1>3, <1>4

\* The n-th message begins where the one before it ends.
LEMMA StartIs ==
    ASSUME NEW n \in Nat
    PROVE  Start(n + 1) = Behind(n)
<1>1. (n + 1) - 1 = n
  OBVIOUS
<1> QED BY <1>1 DEF Start, Behind

\* The messages that were found, and where the text in the buffer begins.
done == Len(parsed)
base == arrived - m_offset

\* What the buffer holds is what was read last.
Held ==
    /\ data \in Seq(Characters) /\ base >= 0
    /\ \A z \in 1..Len(data) : data[z] = Whole[base + z]

\* The types, and that a read that ended where Cuts says is remembered.
Sound ==
    /\ stream \in Seq(Messages) /\ Len(stream) <= MaxMessages
    /\ pipelined \in BOOLEAN /\ torn \in BOOLEAN
    /\ pipelined => \A k \in DOMAIN stream : stream[k].type # "Nil"
    /\ parsed \in Seq(ToSet(parsed)) /\ done <= Len(stream)
    /\ arrived \in 0..Len(SentBy(done))
    /\ m_capacity \in Nat /\ m_capacity % ChunkSize = 0 /\ m_offset <= m_capacity
    /\ reader = "parse" /\ TornAt(arrived) => torn

\* The messages found are those that were sent, and the text that is not yet
\* parsed begins with the next one.
Framed ==
    /\ parsedOffset \in 0..m_offset /\ base + parsedOffset = Behind(done)
    /\ \A k \in DOMAIN parsed : parsed[k] = Meanings[stream[k]]
    /\ \/ reader = "parse" /\ parsedOffset < m_offset /\ done < Len(stream)
       \/ reader = "read" /\ (done < Len(stream) => arrived < Behind(done + 1))

\* A bulk was found before its last line: the next text begins inside the
\* message, with the end of that line.
Astray ==
    /\ torn /\ done >= 1 /\ base = Behind(done) - 2 /\ parsedOffset = 0
    /\ \/ reader = "parse" /\ m_offset > 0
       \/ reader = "read" /\ m_offset = 0

\* The connection is closed, or the offset is behind the text.
Ended ==
    /\ torn
    /\ \/ reader = "closed" /\ parsedOffset \in 0..m_offset
       \/ reader = "lost" /\ parsedOffset = m_offset + 1

\* The inductive invariant.
StreamInv == Sound /\ Held /\ (Framed \/ Astray \/ Ended)

\* It holds at the start.
LEMMA InitHolds == StreamInit => StreamInv
<1> SUFFICES ASSUME StreamInit PROVE StreamInv
  OBVIOUS
<1>1. stream \in Seq(Messages) /\ Len(stream) <= MaxMessages
  <2>1. stream \in BoundedSeq(Messages, MaxMessages)
    BY DEF StreamInit
  <2>2. PICK m \in 0..MaxMessages : stream \in [1..m -> Messages]
    BY <2>1 DEF BoundedSeq, SeqOf
  <2>3. m \in Nat /\ m <= MaxMessages
    BY <2>2, BoundAssumption
  <2> QED BY <2>2, <2>3
<1>2. /\ pipelined \in BOOLEAN /\ arrived = 0 /\ data = <<>> /\ m_capacity = ChunkSize
      /\ parsedOffset = 0 /\ parsed = <<>> /\ reader = "read" /\ torn = FALSE
      /\ pipelined => \A k \in DOMAIN stream : stream[k].type # "Nil"
  BY DEF StreamInit
<1>3. done = 0 /\ m_offset = 0 /\ base = 0
  <2>1. Len(<<>>) = 0
    OBVIOUS
  <2>2. done = 0 /\ m_offset = 0
    BY <1>2, <2>1 DEF done, m_offset
  <2>3. arrived - m_offset = 0
    BY <1>2, <2>2
  <2> QED BY <2>2, <2>3 DEF base
<1>4. 0 \in 0..Len(stream) /\ Len(stream) \in Nat
  BY <1>1
<1>5. Len(SentBy(0)) \in Nat
  BY <1>1, <1>4, SentIs
<1>6. Sound
  <2>1. parsed \in Seq(ToSet(parsed))
    BY <1>2
  <2>2. arrived \in 0..Len(SentBy(done))
    BY <1>2, <1>3, <1>5
  <2>3. ChunkSize \in Nat /\ ChunkSize % ChunkSize = 0 /\ ChunkSize >= 1
    <3>1. ChunkSize \in Nat /\ ChunkSize >= 1
      BY ReserveAssumption
    <3>2. ChunkSize = ChunkSize * 1 + 0 /\ 0 \in 0..(ChunkSize - 1) /\ 1 \in Int
      BY <3>1
    <3> QED BY <3>1, <3>2, RemainderUnique
  <2>4. m_capacity \in Nat /\ m_capacity % ChunkSize = 0 /\ m_offset <= m_capacity
    BY <1>2, <1>3, <2>3
  <2>5. pipelined \in BOOLEAN /\ torn \in BOOLEAN /\ reader # "parse" /\ done <= Len(stream)
    <3>1. reader # "parse" /\ done <= Len(stream)
      BY <1>2, <1>3, <1>4
    <3>2. pipelined \in BOOLEAN /\ torn \in BOOLEAN
      BY <1>2
    <3> QED BY <3>1, <3>2
  <2> QED BY <1>1, <1>2, <2>1, <2>2, <2>4, <2>5, Zenon DEF Sound
<1>7. Held
  BY <1>2, <1>3 DEF Held
<1>8. Framed
  <2>1. Behind(0) = 0
    <3>1. Beginning(0) = <<>>
      BY <1>1, BeginningIs
    <3> QED BY <3>1 DEF Behind
  <2>2. 0 < Len(stream) => 0 < Behind(0 + 1)
    <3>1. ASSUME 0 < Len(stream) PROVE 0 < Behind(0 + 1)
      <4>1. 0 \in 0..(Len(stream) - 1)
        BY <1>4, <3>1
      <4>2. Len(Encode(stream[0 + 1])) >= 2 /\ Encode(stream[0 + 1]) \in Seq(Characters)
            /\ Len(Beginning(0 + 1)) = Len(Beginning(0)) + Len(Encode(stream[0 + 1]))
        BY <1>1, <4>1, MessageAt
      <4> QED BY <2>1, <4>2 DEF Behind
    <3> QED BY <3>1
  <2> QED BY <1>2, <1>3, <2>1, <2>2 DEF Framed
<1> QED BY <1>6, <1>7, <1>8 DEF StreamInv

\* A read adds to the text, and what it adds belongs to the next message.
LEMMA ReceiveHolds ==
    ASSUME StreamInv, NEW n \in 1..(Len(Sent) - arrived), Receive(n)
    PROVE  StreamInv'
<1> DEFINE t == SubSeq(Sent, arrived + 1, arrived + n)
           w == data \o t
<1>1. Sound /\ Held /\ (Framed \/ Astray \/ Ended)
  BY DEF StreamInv
<1>2. /\ reader = "read" /\ n <= Grown - m_offset /\ m_capacity' = Grown /\ endCopy(n)
      /\ arrived' = arrived + n /\ torn' = (torn \/ TornAt(arrived + n)) /\ reader' = "parse"
      /\ stream' = stream /\ pipelined' = pipelined /\ parsedOffset' = parsedOffset /\ parsed' = parsed
  BY DEF Receive
<1>3. /\ \A k : Beginning(k)' = Beginning(k) /\ Behind(k)' = Behind(k) /\ SentBy(k)' = SentBy(k)
                /\ TornAt(k)' = TornAt(k)
      /\ Whole' = Whole /\ done' = done
  <2>1. done' = done
    BY <1>2 DEF done
  <2> QED BY <1>2, <2>1, Unmoved
<1>4. stream \in Seq(Messages) /\ done \in 0..Len(stream) /\ Len(stream) \in Nat
  BY <1>1 DEF Sound, done
<1>5. Sent = SentBy(done)
  BY DEF Sent, SentBy, Whole, done
<1>6. /\ Sent \in Seq(Characters) /\ Whole \in Seq(Characters) /\ Len(Sent) <= Len(Whole)
      /\ \A z \in 1..Len(Sent) : Whole[z] = Sent[z]
  BY <1>4, <1>5, SentIs
<1>7. /\ data \in Seq(Characters) /\ base >= 0 /\ \A z \in 1..Len(data) : data[z] = Whole[base + z]
      /\ m_offset = Len(data) /\ m_offset \in Nat /\ base = arrived - m_offset /\ base \in Nat
      /\ arrived \in 0..Len(Sent) /\ arrived \in Nat /\ Len(Sent) \in Nat /\ n \in Nat /\ n >= 1
      /\ arrived + n \in 0..Len(Sent)
  BY <1>1, <1>5, <1>6 DEF Held, Sound, m_offset, base
<1>8. data' = w
  BY <1>2, <1>7 DEF endCopy, appendChunk
<1>9. t \in Seq(Characters) /\ Len(t) = n /\ \A z \in 1..n : t[z] = Sent[arrived + z]
  <2> DEFINE u == Sent
             o == arrived
  <2>1. u \in Seq(Characters) /\ o \in Nat /\ n \in Nat /\ o + n <= Len(u) /\ t = SubSeq(u, o + 1, o + n)
    BY <1>6, <1>7
  <2> HIDE DEF u, o, t
  <2>2. t \in Seq(Characters) /\ Len(t) = n /\ \A z \in 1..n : t[z] = u[o + z]
    BY ONLY <2>1
  <2> QED BY <2>2 DEF u, o
<1> HIDE DEF t
<1>10. /\ data' \in Seq(Characters) /\ Len(data') = m_offset + n
       /\ \A z \in 1..Len(data) : w[z] = data[z]
       /\ \A z \in 1..n : w[Len(data) + z] = t[z]
  <2>1. data \in Seq(Characters) /\ t \in Seq(Characters)
    BY <1>7, <1>9
  <2>2. /\ data \o t \in Seq(Characters) /\ Len(data \o t) = Len(data) + Len(t)
        /\ \A z \in 1..Len(data) : (data \o t)[z] = data[z]
        /\ \A z \in 1..Len(t) : (data \o t)[Len(data) + z] = t[z]
    BY ONLY <2>1, ConcatIs
  <2>3. data' \in Seq(Characters) /\ Len(data') = m_offset + n
    BY <1>7, <1>8, <1>9, <2>2
  <2> QED BY <1>9, <2>2, <2>3
<1> HIDE DEF w
<1>11. m_offset' = m_offset + n /\ base' = base
  BY <1>2, <1>7, <1>10 DEF m_offset, base
<1>12. Held'
  <2>1. ASSUME NEW z \in 1..(m_offset + n) PROVE w[z] = Whole[base + z]
    <3>1. CASE z <= m_offset
      <4>1. z \in 1..Len(data)
        BY <1>7, <3>1
      <4>2. w[z] = data[z]
        BY <1>10, <4>1
      <4>3. data[z] = Whole[base + z]
        BY <1>7, <4>1
      <4> QED BY <4>2, <4>3
    <3>2. CASE z > m_offset
      <4> DEFINE j == z - m_offset
      <4>1. j \in 1..n /\ m_offset + j = z /\ base + z = arrived + j /\ arrived + j \in 1..Len(Sent)
        BY <1>7, <3>2
      <4> HIDE DEF j
      <4>2. w[z] = t[j]
        BY <1>7, <1>10, <4>1
      <4>3. t[j] = Sent[arrived + j]
        BY <1>9, <4>1
      <4>4. Sent[arrived + j] = Whole[arrived + j]
        BY <1>6, <4>1
      <4>5. Whole[arrived + j] = Whole[base + z]
        BY <4>1
      <4>6. t[j] = Whole[base + z]
        BY ONLY <4>3, <4>4, <4>5
      <4> QED BY <4>2, <4>6
    <3> QED BY <1>7, <3>1, <3>2
  <2>2. base' >= 0
    BY <1>7, <1>11
  <2>3. \A z \in 1..Len(data') : data'[z] = Whole'[base' + z]
    BY <1>3, <1>8, <1>10, <1>11, <2>1
  <2> QED BY <1>10, <2>2, <2>3 DEF Held
<1>13. Sound'
  <2>1. Grown \in Nat /\ Grown % ChunkSize = 0
    <3>1. m_capacity \in Nat /\ m_capacity \in Int /\ m_capacity % ChunkSize = 0
          /\ ChunkSize \in Nat \ {0} /\ 1 \in Int
      BY <1>1, ReserveAssumption DEF Sound
    <3>2. (m_capacity + ChunkSize * 1) % ChunkSize = m_capacity % ChunkSize
      BY ONLY <3>1, RemainderShift, Zenon
    <3>3. m_capacity + ChunkSize * 1 = m_capacity + ChunkSize
      BY <3>1
    <3> QED BY <3>1, <3>2, <3>3 DEF Grown
  <2>2. m_offset' <= m_capacity'
    BY <1>2, <1>7, <1>11, <2>1
  <2>3. torn' \in BOOLEAN /\ (TornAt(arrived') => torn')
    BY <1>2
  <2>4. arrived' \in 0..Len(SentBy(done)')
    BY <1>2, <1>3, <1>5, <1>7
  <2>5. TornAt(arrived)' => torn'
    BY <1>2, <1>3, <2>3
  <2>6. arrived' \in 0..Len(SentBy(done))'
    BY <1>2, <1>3, <1>5, <1>7
  <2>7. stream' \in Seq(Messages) /\ Len(stream') <= MaxMessages /\ pipelined' \in BOOLEAN
        /\ (pipelined' => \A k \in DOMAIN stream' : stream'[k].type # "Nil")
        /\ parsed' \in Seq(ToSet(parsed')) /\ done' <= Len(stream')
    BY <1>1, <1>2, <1>3 DEF Sound
  <2> QED BY <1>2, <2>1, <2>2, <2>3, <2>5, <2>6, <2>7 DEF Sound
<1>14. CASE Framed
  <2>1. /\ parsedOffset \in 0..m_offset /\ base + parsedOffset = Behind(done)
        /\ \A k \in DOMAIN parsed : parsed[k] = Meanings[stream[k]]
    BY <1>14 DEF Framed
  <2>2. parsedOffset' \in 0..m_offset' /\ parsedOffset' < m_offset'
    BY <1>2, <1>7, <1>11, <2>1
  <2>3. done < Len(stream)
    <3>1. ASSUME done = Len(stream) PROVE FALSE
      <4>1. Behind(done) = Len(Whole)
        BY <3>1 DEF Behind, Whole
      <4>2. Len(Whole) \in Nat
        BY <1>6
      <4> QED BY <1>6, <1>7, <2>1, <4>1, <4>2
    <3> QED BY <1>4, <3>1
  <2>4. Behind(done)' = Behind(done)
    BY <1>3
  <2>5. base' + parsedOffset' = Behind(done)'
    BY <1>2, <1>11, <2>1, <2>4
  <2>6. done' < Len(stream')
    BY <1>2, <1>3, <2>3
  <2>7. \A k \in DOMAIN parsed' : parsed'[k] = Meanings[stream'[k]]
    BY <1>2, <2>1
  <2>8. Framed'
    BY <1>2, <2>2, <2>5, <2>6, <2>7 DEF Framed
  <2> QED BY <1>12, <1>13, <2>8 DEF StreamInv
<1>15. CASE Astray
  <2>1. torn' /\ done' >= 1 /\ base' = Behind(done)' - 2 /\ parsedOffset' = 0
    <3>1. Behind(done)' = Behind(done)
      BY <1>3
    <3> QED BY <1>2, <1>3, <1>11, <1>15, <3>1 DEF Astray
  <2>2. m_offset' > 0
    BY <1>7, <1>11
  <2>3. Astray'
    BY <1>2, <2>1, <2>2 DEF Astray
  <2> QED BY <1>12, <1>13, <2>3 DEF StreamInv
<1>16. ~Ended
  BY <1>2 DEF Ended
<1> QED BY <1>1, <1>14, <1>15, <1>16

\* The text that is parsed.
Rest == SubSeq(data, parsedOffset + 1, m_offset)

\* What holds whatever was parsed.
LEMMA KindsHold ==
    ASSUME Sound, NEW r,
           stream' = stream, pipelined' = pipelined, torn' = torn, arrived' = arrived,
           reader = "parse",
           \/ parsed' = parsed
           \/ parsed' = Append(parsed, r) /\ done < Len(stream),
           \/ data' = data /\ m_capacity' = m_capacity
           \/ data' = <<>> /\ m_capacity' = ChunkSize
    PROVE  Sound'
<1>1. /\ stream \in Seq(Messages) /\ Len(stream) <= MaxMessages
      /\ pipelined \in BOOLEAN /\ torn \in BOOLEAN
      /\ pipelined => \A k \in DOMAIN stream : stream[k].type # "Nil"
      /\ parsed \in Seq(ToSet(parsed)) /\ done <= Len(stream)
      /\ arrived \in 0..Len(SentBy(done))
      /\ m_capacity \in Nat /\ m_capacity % ChunkSize = 0 /\ m_offset <= m_capacity
      /\ TornAt(arrived) => torn
  BY DEF Sound
<1>2. /\ \A k : SentBy(k)' = SentBy(k) /\ TornAt(k)' = TornAt(k)
  BY Unmoved
<1>3. done \in 0..Len(stream) /\ Len(stream) \in Nat
  BY <1>1 DEF done
<1>4. /\ parsed' \in Seq(ToSet(parsed')) /\ done' \in 0..Len(stream)
      /\ arrived \in 0..Len(SentBy(done'))
  <2>1. CASE parsed' = parsed
    <3>1. done' = done
      BY <2>1 DEF done
    <3> QED BY <1>1, <1>3, <2>1, <3>1
  <2>2. CASE parsed' = Append(parsed, r) /\ done < Len(stream)
    <3> DEFINE S == ToSet(parsed) \union {r}
    <3>1. ToSet(parsed) \subseteq S /\ r \in S
      OBVIOUS
    <3> HIDE DEF S
    <3>2. parsed \in Seq(S)
      BY <1>1, <3>1, SeqMonotone
    <3>3. Append(parsed, r) \in Seq(S) /\ Len(Append(parsed, r)) = Len(parsed) + 1
      BY <3>1, <3>2
    <3>4. parsed' \in Seq(ToSet(parsed'))
      <4>1. parsed' \in Seq(S)
        BY <2>2, <3>3
      <4> QED BY <4>1, SeqOfItself
    <3>5. done' = done + 1
      BY <2>2, <3>3 DEF done
    <3>6. Len(SentBy(done)) <= Len(SentBy(done + 1)) /\ SentBy(done) \in Seq(Characters)
      BY <1>1, <1>3, <2>2, SentIs
    <3>7. done + 1 \in 0..Len(stream)
      BY <1>3, <2>2
    <3>8. SentBy(done + 1) \in Seq(Characters)
      <4> DEFINE n == done + 1
      <4>1. n \in 0..Len(stream)
        BY <3>7
      <4> HIDE DEF n
      <4>2. SentBy(n) \in Seq(Characters)
        BY <1>1, <4>1, SentIs
      <4> QED BY <4>2 DEF n
    <3>9. arrived \in 0..Len(SentBy(done + 1))
      <4>1. Len(SentBy(done + 1)) \in Nat /\ Len(SentBy(done)) \in Nat
        BY <3>6, <3>8
      <4> QED BY <1>1, <3>6, <4>1
    <3> QED BY <3>4, <3>5, <3>7, <3>9
  <2> QED BY <2>1, <2>2
<1>5. m_capacity' \in Nat /\ m_capacity' % ChunkSize = 0 /\ m_offset' <= m_capacity'
  <2>1. CASE data' = data /\ m_capacity' = m_capacity
    BY <1>1, <2>1 DEF m_offset
  <2>2. CASE data' = <<>> /\ m_capacity' = ChunkSize
    <3>1. m_offset' = 0
      BY <2>2 DEF m_offset
    <3>2. ChunkSize \in Nat /\ ChunkSize >= 1
      BY ReserveAssumption
    <3>3. ChunkSize = ChunkSize * 1 + 0 /\ 0 \in 0..(ChunkSize - 1) /\ 1 \in Int
      BY <3>2
    <3>4. ChunkSize % ChunkSize = 0
      BY <3>2, <3>3, RemainderUnique
    <3> QED BY <2>2, <3>1, <3>2, <3>4
  <2> QED BY <2>1, <2>2
<1>6. arrived' \in 0..Len(SentBy(done))'
  BY <1>2, <1>4
<1>7. TornAt(arrived)' => torn'
  BY <1>1, <1>2
<1>8. done' <= Len(stream')
  BY <1>3, <1>4
<1> QED BY <1>1, <1>4, <1>5, <1>6, <1>7, <1>8 DEF Sound

\* What is not yet parsed of a framed text is the next message, or a part of it,
\* or it and what follows it; and parse makes of it what MessageParsed says.
LEMMA NextParsed ==
    ASSUME Sound, Held, Framed, reader = "parse", NEW stale, NEW m, m = stream[done + 1],
           NEW e, e = Len(Encode(m))
    PROVE  /\ Rest \in Seq(Characters) /\ Len(Rest) = m_offset - parsedOffset /\ Len(Rest) >= 1
           /\ m_offset \in Nat /\ parsedOffset \in Nat /\ arrived \in Nat
           /\ done \in 0..(Len(stream) - 1) /\ e \in Nat /\ e >= 2
           /\ Behind(done) + Len(Rest) = arrived /\ Behind(done) \in Nat
           /\ Behind(done + 1) = Behind(done) + e /\ arrived <= Len(Whole) /\ Len(Whole) \in Nat
           /\ Whole[Behind(done + 1) - 1] = CR
           /\ Parsed(Rest, m, parse(Rest, stale))
           /\ Len(Rest) \in Cuts(m) => torn
<1> DEFINE d == done
           s == Rest
           f == parsedOffset
<1>1. stream \in Seq(Messages) /\ d \in 0..Len(stream) /\ Len(stream) \in Nat /\ d < Len(stream)
  BY DEF Sound, Framed, done
<1>2. d \in 0..(Len(stream) - 1) /\ d \in Nat /\ d \in 0..Len(stream)
  BY <1>1
<1>3. /\ data \in Seq(Characters) /\ base >= 0 /\ \A z \in 1..Len(data) : data[z] = Whole[base + z]
  BY DEF Held
<1>4. SentBy(d) \in Seq(Characters) /\ Whole \in Seq(Characters) /\ Len(SentBy(d)) <= Len(Whole)
      /\ (~pipelined => Behind(d + 1) = Len(SentBy(d)))
  BY <1>1, <1>2, SentIs
<1>5. arrived \in Nat /\ arrived <= Len(SentBy(d)) /\ arrived <= Len(Whole) /\ Len(Whole) \in Nat
  <2>1. arrived \in 0..Len(SentBy(done))
    BY DEF Sound
  <2>2. Len(SentBy(d)) \in Nat /\ Len(Whole) \in Nat
    BY <1>4
  <2> QED BY <1>4, <2>1, <2>2
<1>6. m_offset = Len(data) /\ m_offset \in Nat /\ base = arrived - m_offset /\ base \in Nat
      /\ f \in Nat /\ f < m_offset /\ base + f = Behind(d)
  BY <1>3, <1>5 DEF m_offset, base, Framed
<1>7. s \in Seq(Characters) /\ Len(s) = m_offset - f /\ \A z \in 1..(m_offset - f) : s[z] = data[f + z]
  BY <1>3, <1>6 DEF Rest
<1> HIDE DEF d, s, f
<1>8. Len(s) >= 1 /\ Behind(d) + Len(s) = arrived /\ Behind(d) \in Nat
  <2> DEFINE p == m_offset
             q == Behind(d)
             b == base
             l == Len(s)
  <2>1. /\ p \in Nat /\ b = arrived - p /\ b \in Nat /\ f \in Nat /\ f < p /\ b + f = q /\ arrived \in Nat
        /\ l = p - f
    BY <1>5, <1>6, <1>7
  <2> HIDE DEF p, q, b, l
  <2>2. l >= 1 /\ q + l = arrived /\ q \in Nat
    BY <2>1
  <2> QED BY <2>2 DEF q, l
<1>9. stream[d + 1] = m
  BY DEF d
<1>10. /\ Encode(m) \in Seq(Characters) /\ e >= 2 /\ IsMessage(m)
       /\ Behind(d + 1) = Behind(d) + e
       /\ \A z \in 1..e : Whole[Behind(d) + z] = Encode(m)[z]
       /\ Whole[Behind(d + 1) - 1] = CR
  BY <1>1, <1>2, <1>9, MessageAt DEF Behind, Whole
<1>11. e \in Nat
  BY <1>10
<1>12. Reads(s, 0, Encode(m))
  <2>1. ASSUME NEW z \in 1..e, 0 + z <= Len(s) PROVE s[0 + z] = Encode(m)[z]
    <3>1. z \in 1..(m_offset - f) /\ 0 + z = z /\ f + z \in 1..Len(data)
          /\ base + (f + z) = Behind(d) + z
      BY <1>6, <1>7, <1>11, <2>1
    <3>2. s[z] = data[f + z]
      BY <1>7, <3>1
    <3>3. data[f + z] = Whole[base + (f + z)]
      BY <1>3, <3>1
    <3>4. Whole[Behind(d) + z] = Encode(m)[z]
      BY <1>10
    <3> QED BY <3>1, <3>2, <3>3, <3>4
  <2> QED BY <2>1 DEF Reads
<1>13. m.type = "Nil" => Len(s) <= Len(Encode(m))
  <2>1. ASSUME m.type = "Nil" PROVE Len(s) <= e
    <3>1. d + 1 \in DOMAIN stream
      BY <1>1, <1>2
    <3>2. ~pipelined
      BY <1>9, <2>1, <3>1 DEF Sound
    <3>3. arrived <= Behind(d + 1)
      BY <1>4, <1>5, <3>2
    <3> QED BY <1>7, <1>6, <1>8, <1>10, <1>11, <1>5, <3>3
  <2> QED BY <2>1
<1>14. Parsed(s, m, parse(s, stale))
  BY <1>7, <1>8, <1>10, <1>12, <1>13, MessageParsed
<1>15. Len(s) \in Cuts(m) => torn
  <2>1. ASSUME Len(s) \in Cuts(m) PROVE torn
    <3>1. d + 1 \in DOMAIN stream /\ m \in Messages
      BY <1>1, <1>2, <1>9
    <3>2. arrived - Start(d + 1) = Len(s)
      <4>1. Start(d + 1) = Behind(d)
        BY <1>2, StartIs
      <4>2. Len(s) \in Nat
        BY <1>7
      <4> QED BY <1>5, <1>8, <4>1, <4>2
    <3>3. CutsOf[stream[d + 1]] = Cuts(m)
      BY <1>9, <3>1 DEF CutsOf
    <3>4. TornAt(arrived)
      BY <2>1, <3>1, <3>2, <3>3 DEF TornAt
    <3> QED BY <3>4 DEF Sound
  <2> QED BY <2>1
<1> QED BY <1>2, <1>5, <1>6, <1>7, <1>8, <1>10, <1>11, <1>14, <1>15 DEF d, s, f

\* What parse makes of a framed text keeps the invariant: a whole message is
\* found, a part of one is waited for, and what is taken for something else
\* leads astray or to the end.
LEMMA ParseFramed ==
    ASSUME StreamInv, Framed, NEW stale, Parse(stale)
    PROVE  StreamInv'
<1> DEFINE d == done
           m == stream[done + 1]
           e == Len(Encode(m))
           s == Rest
           r == parse(Rest, stale)
           l == Len(s)
           p == m_offset
           f == parsedOffset
           a == Behind(done)
           b == Behind(done + 1)
           t == arrived
           w == Len(Whole)
<1>1. Sound /\ Held
  BY DEF StreamInv
<1>2. /\ reader = "parse" /\ Found(r)
      /\ stream' = stream /\ pipelined' = pipelined /\ arrived' = arrived /\ torn' = torn
  BY DEF Parse, Rest
<1>3. /\ l = p - f /\ l >= 1 /\ p \in Nat /\ f \in Nat /\ t \in Nat
      /\ d \in 0..(Len(stream) - 1) /\ e \in Nat /\ e >= 2
      /\ a + l = t /\ a \in Nat /\ b = a + e /\ t <= w /\ w \in Nat
      /\ Whole[b - 1] = CR
      /\ Parsed(s, m, r)
      /\ l \in Cuts(m) => torn
  BY <1>1, <1>2, NextParsed
<1>4. Len(stream) \in Nat /\ d \in Nat /\ d < Len(stream) /\ m \in Messages
      /\ stream \in Seq(Messages) /\ parsed \in Seq(ToSet(parsed)) /\ m = stream[d + 1]
      /\ torn \in BOOLEAN
  <2>1. stream \in Seq(Messages) /\ parsed \in Seq(ToSet(parsed)) /\ torn \in BOOLEAN
    BY <1>1 DEF Sound
  <2>2. Len(stream) \in Nat /\ d \in Nat /\ d < Len(stream) /\ d + 1 \in 1..Len(stream)
    BY <1>3, <2>1
  <2>3. m \in Messages
    <3> HIDE DEF d
    <3> QED BY <2>1, <2>2 DEF d
  <2> QED BY <2>1, <2>2, <2>3
<1>5. /\ f <= p /\ (arrived - p) + f = a
      /\ \A k \in DOMAIN parsed : parsed[k] = Meanings[stream[k]]
  BY DEF Framed, base
<1>6. /\ \A k : Behind(k)' = Behind(k)
      /\ Whole' = Whole
  BY <1>2, Unmoved
<1>7. Meanings[m] = Meaning(m) /\ Meaning(m).state = "ok" /\ Meaning(m).len = e
  BY <1>4 DEF Meanings, Meaning
<1>8. Parsed(s, m, r)
  BY <1>3
<1>9. /\ l >= e => r = Meaning(m)
      /\ l < e =>
           \/ r.state = "incomplete"
           \/ r.state = "error" /\ l \in Cuts(m)
           \/ r.state = "ok" /\ r.len = l + 1 /\ l \in Cuts(m)
           \/ r.state = "ok" /\ r.len = l /\ l = e - 2 /\ l \in Cuts(m)
  BY <1>8 DEF Parsed
<1> HIDE DEF r, s
<1>10. \/ /\ r.state = "ok" /\ f + r.len = p
          /\ parsed' = Append(parsed, r)
          /\ data' = <<>> /\ m_capacity' = ChunkSize /\ parsedOffset' = 0 /\ reader' = "read"
       \/ /\ r.state = "ok" /\ f + r.len # p
          /\ parsed' = Append(parsed, r)
          /\ parsedOffset' = f + r.len
          /\ reader' = IF parsedOffset' > p THEN "lost" ELSE "parse"
          /\ data' = data /\ m_capacity' = m_capacity
       \/ /\ r.state # "ok"
          /\ reader' = IF r.state = "incomplete" THEN "read" ELSE "closed"
          /\ parsed' = parsed /\ parsedOffset' = f /\ data' = data /\ m_capacity' = m_capacity
  BY <1>2 DEF Found, NextBatch
<1>11. Sound'
  <2>1. parsed' = parsed \/ (parsed' = Append(parsed, r) /\ done < Len(stream))
    BY <1>4, <1>10
  <2>2. (data' = data /\ m_capacity' = m_capacity) \/ (data' = <<>> /\ m_capacity' = ChunkSize)
    BY <1>10
  <2> QED BY <1>1, <1>2, <2>1, <2>2, KindsHold
<1>12. Held'
  <2>1. CASE data' = data
    <3>1. m_offset' = m_offset /\ base' = base
      BY <1>2, <2>1 DEF m_offset, base
    <3> QED BY <1>1, <1>6, <2>1, <3>1 DEF Held
  <2>2. CASE data' = <<>>
    <3>1. m_offset' = 0
      BY <2>2 DEF m_offset
    <3>2. base' >= 0
      BY <1>2, <1>3, <3>1 DEF base
    <3> QED BY <2>2, <3>2 DEF Held
  <2> QED BY <1>10, <2>1, <2>2
<1> SUFFICES Framed' \/ Astray' \/ Ended'
  BY <1>11, <1>12 DEF StreamInv
<1>13. ASSUME parsed' = Append(parsed, r) PROVE done' = d + 1
  <2>1. Append(parsed, r) \in Seq(ToSet(parsed) \union {r}) /\ Len(Append(parsed, r)) = Len(parsed) + 1
    <3>1. ToSet(parsed) \subseteq ToSet(parsed) \union {r} /\ r \in ToSet(parsed) \union {r}
      OBVIOUS
    <3>2. parsed \in Seq(ToSet(parsed) \union {r})
      BY <1>4, <3>1, SeqMonotone
    <3> QED BY <3>1, <3>2
  <2> QED BY <1>13, <2>1 DEF done
<1>14. CASE l >= e
  <2>1. r = Meaning(m) /\ r.state = "ok" /\ r.len = e
    BY <1>7, <1>9, <1>14
  <2>2. parsed' = Append(parsed, r)
    BY <1>10, <2>1
  <2>3. done' = d + 1
    BY <1>13, <2>2
  <2>4. \A k \in DOMAIN parsed' : parsed'[k] = Meanings[stream'[k]]
    <3> DEFINE S == ToSet(parsed) \union {r}
    <3>1. parsed \in Seq(S) /\ r \in S
      <4>1. ToSet(parsed) \subseteq S /\ r \in S
        OBVIOUS
      <4> HIDE DEF S
      <4> QED BY <1>4, <4>1, SeqMonotone
    <3> HIDE DEF S
    <3>2. DOMAIN parsed' = 1..(d + 1) /\ parsed'[d + 1] = r /\ \A k \in 1..d : parsed'[k] = parsed[k]
      BY <2>2, <3>1 DEF done
    <3>3. \A k \in 1..d : k \in DOMAIN parsed
      BY <3>1 DEF done
    <3>4. ASSUME NEW k \in 1..(d + 1) PROVE parsed'[k] = Meanings[stream[k]]
      <4>1. CASE k = d + 1
        BY <1>4, <1>7, <2>1, <3>2, <4>1
      <4>2. CASE k \in 1..d
        BY <1>5, <3>2, <3>3, <4>2
      <4> QED BY <1>4, <4>1, <4>2
    <3> QED BY <1>2, <3>2, <3>4
  <2>5. Behind(done)' = b
    BY <1>6, <2>3
  <2>6. CASE f + r.len = p
    <3>1. data' = <<>> /\ parsedOffset' = 0 /\ reader' = "read"
      BY <1>10, <2>1, <2>6
    <3>2. m_offset' = 0 /\ base' = arrived
      <4>1. m_offset' = 0
        BY <3>1 DEF m_offset
      <4> QED BY <1>2, <1>3, <4>1 DEF base
    <3>3. arrived = b
      BY <1>3, <2>1, <2>6
    <3>4. ASSUME done' < Len(stream') PROVE arrived' < Behind(done + 1)'
      <4>1. d + 1 \in 0..(Len(stream) - 1)
        BY <1>2, <1>4, <2>3, <3>4
      <4> DEFINE c == d + 1
      <4>2. c \in 0..(Len(stream) - 1)
        BY <4>1
      <4> HIDE DEF c
      <4>3. Len(Encode(stream[c + 1])) >= 2 /\ Encode(stream[c + 1]) \in Seq(Characters)
            /\ Behind(c + 1) = Behind(c) + Len(Encode(stream[c + 1]))
        BY <1>4, <4>2, MessageAt DEF Behind
      <4>4. b = Behind(c) /\ b \in Nat
        BY <1>3 DEF c
      <4>5. Behind(c + 1) > b
        BY <4>3, <4>4
      <4>6. Behind(done + 1)' = Behind(c + 1)
        BY <1>6, <2>3 DEF c
      <4> QED BY <1>2, <3>3, <4>4, <4>5, <4>6
    <3>5. base' + parsedOffset' = Behind(done)' /\ parsedOffset' \in 0..m_offset'
      BY <1>3, <2>5, <3>1, <3>2, <3>3
    <3> QED BY <2>4, <3>1, <3>4, <3>5 DEF Framed
  <2>7. CASE f + r.len # p
    <3>1. parsedOffset' = f + e /\ f + e < p /\ data' = data
      <4>1. parsedOffset' = f + r.len /\ data' = data
        BY <1>10, <2>1, <2>7
      <4>2. l = p - f /\ f + e # p /\ l >= e /\ p \in Nat /\ f \in Nat /\ e \in Nat
        BY <1>3, <1>14, <2>1, <2>7
      <4> HIDE DEF l, p, f, e
      <4>3. f + e < p
        BY <4>2
      <4> QED BY <2>1, <4>1, <4>3
    <3>2. reader' = "parse" /\ m_offset' = m_offset /\ base' = base
      <4>1. m_offset' = m_offset /\ base' = base
        BY <1>2, <3>1 DEF m_offset, base
      <4>2. ~(parsedOffset' > p)
        BY <1>3, <3>1
      <4> QED BY <1>10, <2>1, <2>7, <4>1, <4>2
    <3>3. base' + parsedOffset' = Behind(done)' /\ parsedOffset' \in 0..m_offset' /\ parsedOffset' < m_offset'
      <4>1. base' = t - p /\ (t - p) + f = a /\ b = a + e /\ Behind(done)' = b
            /\ parsedOffset' = f + e /\ m_offset' = p /\ f + e < p
            /\ a \in Nat /\ p \in Nat /\ f \in Nat /\ e \in Nat /\ t \in Nat
        BY <1>3, <1>5, <2>5, <3>1, <3>2 DEF base
      <4> HIDE DEF t, p, f, a, b, e
      <4>2. (t - p) + (f + e) = b /\ f + e \in 0..p
        BY <4>1
      <4> QED BY <4>1, <4>2
    <3>4. done' < Len(stream')
      <4>1. ASSUME d + 1 = Len(stream) PROVE FALSE
        <5>1. b = w
          BY <4>1 DEF Behind, Whole
        <5> QED BY <1>3, <3>1, <5>1
      <4> QED BY <1>2, <1>4, <2>3, <4>1
    <3> QED BY <2>4, <3>2, <3>3, <3>4 DEF Framed
  <2> QED BY <2>6, <2>7
<1>15. CASE l < e /\ r.state = "incomplete"
  <2>1. /\ reader' = "read" /\ parsed' = parsed /\ parsedOffset' = f /\ data' = data
    BY <1>10, <1>15
  <2>2. m_offset' = m_offset /\ base' = base /\ done' = done
    BY <1>2, <2>1 DEF m_offset, base, done
  <2>3. arrived' < Behind(done + 1)'
    <3>1. Behind(done + 1)' = b
      BY <1>6, <2>2
    <3> QED BY <1>2, <1>3, <1>15, <3>1
  <2>4. base' + parsedOffset' = Behind(done)' /\ parsedOffset' \in 0..m_offset'
    <3>1. Behind(done)' = a
      BY <1>6, <2>2
    <3> QED BY <1>3, <1>5, <2>1, <2>2, <3>1 DEF base
  <2>5. \A k \in DOMAIN parsed' : parsed'[k] = Meanings[stream'[k]]
    BY <1>2, <1>5, <2>1
  <2> QED BY <2>1, <2>3, <2>4, <2>5 DEF Framed
<1>16. CASE l < e /\ r.state = "error" /\ l \in Cuts(m)
  <2>1. torn' /\ reader' = "closed" /\ parsedOffset' = f /\ data' = data
    BY <1>2, <1>3, <1>10, <1>16
  <2>2. parsedOffset' \in 0..m_offset'
    BY <1>3, <1>5, <2>1 DEF m_offset
  <2> QED BY <2>1, <2>2 DEF Ended
<1>17. CASE l < e /\ r.state = "ok" /\ r.len = l + 1 /\ l \in Cuts(m)
  <2>1. f + r.len = p + 1 /\ f + r.len # p
    BY <1>3, <1>17
  <2>2. torn' /\ reader' = "lost" /\ parsedOffset' = p + 1 /\ data' = data
    <3>1. parsedOffset' = p + 1 /\ data' = data /\ reader' = IF parsedOffset' > p THEN "lost" ELSE "parse"
      BY <1>10, <1>17, <2>1
    <3> QED BY <1>2, <1>3, <1>17, <3>1
  <2>3. m_offset' = p
    BY <2>2 DEF m_offset
  <2> QED BY <2>2, <2>3 DEF Ended
<1>18. CASE l < e /\ r.state = "ok" /\ r.len = l /\ l = e - 2 /\ l \in Cuts(m)
  <2>1. f + r.len = p
    BY <1>3, <1>18
  <2>2. torn' /\ reader' = "read" /\ parsedOffset' = 0 /\ data' = <<>> /\ parsed' = Append(parsed, r)
    BY <1>2, <1>3, <1>10, <1>18, <2>1
  <2>3. m_offset' = 0 /\ base' = arrived
    <3>1. m_offset' = 0
      BY <2>2 DEF m_offset
    <3> QED BY <1>2, <1>3, <3>1 DEF base
  <2>4. done' = d + 1 /\ done' >= 1
    BY <1>4, <1>13, <2>2
  <2>5. Behind(done)' = b
    BY <1>6, <2>4
  <2>6. base' = Behind(done)' - 2
    BY <1>3, <1>18, <2>3, <2>5
  <2> QED BY <2>2, <2>3, <2>4, <2>6 DEF Astray
<1>19. l >= e \/ l < e
  BY <1>3
<1> QED BY <1>9, <1>14, <1>15, <1>16, <1>17, <1>18, <1>19

\* A text that begins inside a line is an error: the connection is closed.
LEMMA ParseAstray ==
    ASSUME StreamInv, Astray, NEW stale, Parse(stale)
    PROVE  StreamInv'
<1> DEFINE r == parse(Rest, stale)
<1>1. Sound /\ Held
  BY DEF StreamInv
<1>2. /\ reader = "parse" /\ Found(r)
      /\ stream' = stream /\ pipelined' = pipelined /\ arrived' = arrived /\ torn' = torn
  BY DEF Parse, Rest
<1>3. torn /\ done >= 1 /\ base = Behind(done) - 2 /\ parsedOffset = 0 /\ m_offset > 0
  BY <1>2 DEF Astray
<1>4. stream \in Seq(Messages) /\ done \in 1..Len(stream)
  BY <1>1, <1>3 DEF Sound, done
<1>5. /\ data \in Seq(Characters) /\ base >= 0 /\ \A z \in 1..Len(data) : data[z] = Whole[base + z]
      /\ m_offset = Len(data) /\ m_offset \in Nat
  BY <1>1 DEF Held, m_offset
<1>6. Rest \in Seq(Characters) /\ Len(Rest) >= 1 /\ Rest[1] = data[1]
  <2>1. Rest = SubSeq(data, 1, m_offset)
    BY <1>3 DEF Rest
  <2> QED BY <1>3, <1>5, <2>1
<1>7. data[1] = CR
  <2> DEFINE n == done - 1
  <2>1. n \in 0..(Len(stream) - 1) /\ n + 1 = done
    BY <1>4
  <2> HIDE DEF n
  <2>2. Whole[Behind(n + 1) - 1] = CR
    BY <1>4, <2>1, MessageAt DEF Whole, Behind
  <2>3. Behind(done) \in Nat
    <3>1. done \in 0..Len(stream)
      BY <1>4
    <3>2. Beginning(done) \in Seq(Characters)
      BY <1>4, <3>1, BeginningIs
    <3> QED BY <3>2 DEF Behind
  <2>4. base + 1 = Behind(n + 1) - 1
    BY <1>3, <2>1, <2>3
  <2>5. data[1] = Whole[base + 1]
    BY <1>3, <1>5
  <2> QED BY <2>2, <2>4, <2>5
<1>8. r.state = "error"
  BY <1>6, <1>7, StartsWithCR
<1> HIDE DEF r
<1>9. reader' = "closed" /\ parsed' = parsed /\ parsedOffset' = parsedOffset /\ data' = data
      /\ m_capacity' = m_capacity
  BY <1>2, <1>8 DEF Found
<1>10. Sound'
  BY <1>1, <1>2, <1>9, KindsHold
<1>11. m_offset' = m_offset /\ base' = base /\ Whole' = Whole
  <2>1. Whole' = Whole
    BY <1>2, Unmoved
  <2> QED BY <1>2, <1>9, <2>1 DEF m_offset, base
<1>12. Held'
  BY <1>1, <1>9, <1>11 DEF Held
<1>13. Ended'
  <2>1. parsedOffset' \in 0..m_offset'
    BY <1>3, <1>5, <1>9, <1>11
  <2> QED BY <1>2, <1>3, <1>9, <2>1 DEF Ended
<1> QED BY <1>10, <1>12, <1>13 DEF StreamInv

\* Every step keeps the invariant.
LEMMA StreamStep == StreamInv /\ [StreamNext]_streamVars => StreamInv'
<1> SUFFICES ASSUME StreamInv, [StreamNext]_streamVars PROVE StreamInv'
  OBVIOUS
<1>1. ASSUME NEW n \in 1..(Len(Sent) - arrived), Receive(n) PROVE StreamInv'
  BY <1>1, ReceiveHolds
<1>2. ASSUME NEW stale \in Stale, Parse(stale) PROVE StreamInv'
  <2>1. CASE Framed
    BY <1>2, <2>1, ParseFramed
  <2>2. CASE Astray
    BY <1>2, <2>2, ParseAstray
  <2>3. ~Ended
    BY <1>2 DEF Parse, Ended
  <2> QED BY <2>1, <2>2, <2>3 DEF StreamInv
<1>3. ASSUME UNCHANGED streamVars PROVE StreamInv'
  <2>1. /\ stream' = stream /\ pipelined' = pipelined /\ arrived' = arrived /\ data' = data
        /\ m_capacity' = m_capacity /\ parsedOffset' = parsedOffset /\ parsed' = parsed
        /\ reader' = reader /\ torn' = torn
    BY <1>3 DEF streamVars
  <2>2. /\ \A k : Behind(k)' = Behind(k) /\ SentBy(k)' = SentBy(k) /\ TornAt(k)' = TornAt(k)
        /\ Whole' = Whole
    BY <2>1, Unmoved
  <2>3. done' = done /\ m_offset' = m_offset /\ base' = base
    BY <2>1 DEF done, m_offset, base
  <2>4. Sound'
    <3>1. Sound
      BY DEF StreamInv
    <3>2. SentBy(done)' = SentBy(done) /\ TornAt(arrived)' = TornAt(arrived)
      BY <2>1, <2>2, <2>3
    <3> QED BY <2>1, <2>3, <3>1, <3>2 DEF Sound
  <2>5. Held'
    BY <2>1, <2>2, <2>3 DEF StreamInv, Held
  <2>6. CASE Framed
    <3>1. Behind(done)' = Behind(done) /\ Behind(done + 1)' = Behind(done + 1)
      BY <2>2, <2>3
    <3>2. Framed'
      BY <2>1, <2>3, <2>6, <3>1 DEF Framed
    <3> QED BY <2>4, <2>5, <3>2 DEF StreamInv
  <2>7. CASE Astray
    <3>1. Behind(done)' = Behind(done)
      BY <2>2, <2>3
    <3>2. Astray'
      BY <2>1, <2>3, <2>7, <3>1 DEF Astray
    <3> QED BY <2>4, <2>5, <3>2 DEF StreamInv
  <2>8. CASE Ended
    <3>1. Ended'
      BY <2>1, <2>3, <2>8 DEF Ended
    <3> QED BY <2>4, <2>5, <3>1 DEF StreamInv
  <2> QED BY <2>6, <2>7, <2>8 DEF StreamInv
<1> QED BY <1>1, <1>2, <1>3 DEF StreamNext

\* The invariant holds in every state.
THEOREM StreamIsFramed == StreamSpec => []StreamInv
<1> QED BY InitHolds, StreamStep, PTL DEF StreamSpec

\* continueToParseRecvBuffer and its callers: however the reads cut the stream,
\* the messages come out one by one, as they were sent.
THEOREM MessagesAreFramed == StreamSpec => []Framing
<1>1. StreamInv => Framing
  <2> SUFFICES ASSUME StreamInv, ~torn
               PROVE  /\ reader \notin {"closed", "lost"}
                      /\ \A k \in DOMAIN parsed : parsed[k] = Meanings[stream[k]]
    BY DEF Framing
  <2>1. Framed
    BY DEF StreamInv, Astray, Ended
  <2> QED BY <2>1 DEF Framed
<1> QED BY <1>1, StreamIsFramed, PTL

\* IOBuffer loses nothing that was read, however often it grows, and never offers
\* a read an empty space.
THEOREM BufferLosesNothing == StreamSpec => []NothingLost
<1>1. StreamInv => NothingLost
  <2> SUFFICES ASSUME StreamInv PROVE NothingLost
    OBVIOUS
  <2>1. Sound /\ Held
    BY DEF StreamInv
  <2>2. /\ stream \in Seq(Messages) /\ done \in 0..Len(stream) /\ Len(stream) \in Nat
        /\ Len(stream) <= MaxMessages /\ Len(parsed) \in Nat
    BY <2>1 DEF Sound, done
  <2>3. SentBy(done) \in Seq(Characters) /\ Whole \in Seq(Characters)
        /\ Len(SentBy(done)) <= Len(Whole) /\ \A z \in 1..Len(SentBy(done)) : Whole[z] = SentBy(done)[z]
    BY <2>2, SentIs
  <2>4. Sent = SentBy(done)
    BY DEF Sent, SentBy, Whole, done
  <2>5. /\ data \in Seq(Characters) /\ base >= 0 /\ \A z \in 1..Len(data) : data[z] = Whole[base + z]
        /\ m_offset = Len(data) /\ m_offset \in Nat /\ base = arrived - m_offset
        /\ arrived \in 0..Len(Sent) /\ arrived \in Nat /\ Len(Sent) \in Nat /\ base \in Nat
        /\ m_capacity \in Nat /\ m_capacity % ChunkSize = 0 /\ m_offset <= m_capacity
    BY <2>1, <2>3, <2>4 DEF Sound, Held, m_offset, base
  <2>6. stream \in BoundedSeq(Messages, MaxMessages)
    <3>1. stream \in [1..Len(stream) -> Messages] /\ Len(stream) \in 0..MaxMessages
      BY <2>2, BoundAssumption
    <3> QED BY <3>1 DEF BoundedSeq, SeqOf
  <2>7. parsedOffset \in 0..(m_offset + 1) /\ reader \in {"read", "parse", "closed", "lost"}
    <3>1. CASE Framed
      BY <2>5, <3>1 DEF Framed
    <3>2. CASE Astray
      BY <2>5, <3>2 DEF Astray
    <3>3. CASE Ended
      BY <2>5, <3>3 DEF Ended
    <3> QED BY <3>1, <3>2, <3>3 DEF StreamInv
  <2>8. StreamTypeOK
    <3>1. arrived \in 0..Len(Beginning(Len(stream)))
      <4>1. Len(Whole) \in Nat
        BY <2>3
      <4>2. arrived \in 0..Len(Whole)
        BY <2>3, <2>4, <2>5, <4>1
      <4> QED BY <4>2 DEF Whole
    <3>2. Len(parsed) <= Len(stream) /\ torn \in BOOLEAN
      BY <2>1 DEF Sound, done
    <3> QED BY <2>5, <2>6, <2>7, <3>1, <3>2 DEF StreamTypeOK
  <2>9. data = SubSeq(Sent, arrived - m_offset + 1, arrived)
    <3> DEFINE w == Sent
               b == base
               l == m_offset
               t == SubSeq(w, b + 1, arrived)
    <3>1. w \in Seq(Characters) /\ b \in Nat /\ l \in Nat /\ b + l = arrived /\ arrived <= Len(w)
          /\ arrived \in Nat /\ Len(w) \in Nat
      BY <2>3, <2>4, <2>5
    <3>2. \A z \in 1..l : data[z] = w[b + z]
      <4> SUFFICES ASSUME NEW z \in 1..l PROVE data[z] = w[b + z]
        OBVIOUS
      <4>1. data[z] = Whole[base + z]
        BY <2>5
      <4>2. base + z \in 1..Len(SentBy(done))
        BY <2>4, <2>5
      <4>3. Whole[base + z] = SentBy(done)[base + z]
        BY <2>3, <4>2
      <4> QED BY <2>4, <4>1, <4>3
    <3> HIDE DEF w, b, l
    <3>3. t \in Seq(Characters) /\ Len(t) = l /\ \A z \in 1..l : t[z] = w[b + z]
      BY <3>1
    <3> HIDE DEF t
    <3>4. Len(data) = l /\ data \in Seq(Characters)
      BY <2>5 DEF l
    <3>5. data = t
      BY <3>2, <3>3, <3>4, SeqEqual
    <3>6. arrived - m_offset + 1 = b + 1
      BY <2>5 DEF b
    <3> QED BY <3>5, <3>6 DEF t, w
  <2>10. Grown > m_offset
    <3>1. ChunkSize \in Nat /\ Reserve \in Nat /\ Reserve >= 1 /\ ChunkSize >= 1
      BY ReserveAssumption
    <3> QED BY <2>5, <3>1 DEF Grown
  <2> QED BY <2>8, <2>9, <2>10 DEF NothingLost
<1> QED BY <1>1, StreamIsFramed, PTL

\* When all that was sent has been read, every message has been found: parse
\* waits for nothing that will not come.
THEOREM AllIsParsed == StreamSpec => []AllParsed
<1>1. StreamInv => AllParsed
  <2> SUFFICES ASSUME StreamInv, ~torn, reader = "read", arrived = Len(Sent)
               PROVE  Len(parsed) = Len(stream)
    BY DEF AllParsed
  <2>1. Framed /\ Sound
    BY DEF StreamInv, Astray, Ended
  <2>2. stream \in Seq(Messages) /\ done \in 0..Len(stream) /\ Len(stream) \in Nat /\ done = Len(parsed)
    BY <2>1 DEF Sound, done
  <2>3. ASSUME done < Len(stream) PROVE FALSE
    <3>1. arrived < Behind(done + 1)
      BY <2>1, <2>3 DEF Framed
    <3>2. Behind(done + 1) <= Len(SentBy(done)) /\ SentBy(done) \in Seq(Characters)
      BY <2>2, <2>3, SentIs
    <3>3. Sent = SentBy(done)
      BY DEF Sent, SentBy, Whole, done
    <3>4. Behind(done + 1) \in Nat
      <4> DEFINE n == done + 1
      <4>1. n \in 0..Len(stream)
        BY <2>2, <2>3
      <4> HIDE DEF n
      <4>2. Beginning(n) \in Seq(Characters)
        BY <2>2, <4>1, BeginningIs
      <4> QED BY <4>2 DEF n, Behind
    <3>5. Len(SentBy(done)) \in Nat
      BY <3>2
    <3> QED BY <3>1, <3>2, <3>3, <3>4, <3>5
  <2> QED BY <2>2, <2>3
<1> QED BY <1>1, StreamIsFramed, PTL
=============================================================================
