------------------------- MODULE ArtifactStoreProofs -------------------------
(***************************************************************************)
(* Every backend of the artifact store implements ImmutableStore, for any  *)
(* number of concurrent puts, keys and contents.                           *)
(***************************************************************************)
EXTENDS ArtifactStore, FiniteSetTheorems, TLAPS

\* The store as found satisfies the invariant.
LEMMA InitIInv == Init => IInv
BY ContentsAssumption
   DEF Init, IInv, TypeOK, Steps, StagedIsComplete, SucceedingIsStored,
       InflightWasSent, NoPartialObject, MemoryIsAtomic

\* Every step of every backend preserves the invariant.
LEMMA NextIInv == IInv /\ [Next]_vars => IInv'
<1> SUFFICES ASSUME IInv, [Next]_vars PROVE IInv'
  OBVIOUS
<1> USE ContentsAssumption
<1> USE DEF IInv, TypeOK, Steps, StagedIsComplete, SucceedingIsStored,
            InflightWasSent, NoPartialObject, MemoryIsAtomic, Key, Bytes, Goto, Return
<1>1. ASSUME NEW p \in Puts, put_verified(p), UNCHANGED backend PROVE IInv'
  BY <1>1 DEF put_verified
<1>2. ASSUME NEW p \in Puts, InsertInMemory(p), UNCHANGED backend PROVE IInv'
  <2>1. /\ pc[p] = "insert"
        /\ pc' = [pc EXCEPT ![p] = "done"]
        /\ UNCHANGED <<backend, want, staging, inflight>>
    BY <1>2 DEF InsertInMemory
  <2>2. \/ object' = object /\ object[want[p].key] = want[p].bytes
           /\ result' = [result EXCEPT ![p] = "ok"]
        \/ object' = object /\ result' = [result EXCEPT ![p] = "failed"]
        \/ /\ object[want[p].key] = None
           /\ object' = [object EXCEPT ![want[p].key] = want[p].bytes]
           /\ result' = [result EXCEPT ![p] = "ok"]
    BY <1>2 DEF InsertInMemory
  <2>3. TypeOK'
    BY <2>1, <2>2
  <2>4. SucceedingIsStored'
    BY <2>1, <2>2
  <2>5. StagedIsComplete' /\ InflightWasSent' /\ NoPartialObject' /\ MemoryIsAtomic'
    BY <2>1, <2>2
  <2> QED
    BY <2>3, <2>4, <2>5
<1>3. ASSUME NEW p \in Puts, Preflight(p), UNCHANGED backend PROVE IInv'
  <2>1. TypeOK'
    BY <1>3 DEF Preflight
  <2>2. StagedIsComplete'
    BY <1>3 DEF Preflight
  <2>3. SucceedingIsStored'
    BY <1>3 DEF Preflight
  <2>4. InflightWasSent' /\ NoPartialObject' /\ MemoryIsAtomic'
    BY <1>3 DEF Preflight
  <2> QED
    BY <2>1, <2>2, <2>3, <2>4
<1>4. ASSUME NEW p \in Puts, CreateStaging(p), UNCHANGED backend PROVE IInv'
  <2>1. TypeOK'
    BY <1>4 DEF CreateStaging
  <2>2. StagedIsComplete'
    BY <1>4 DEF CreateStaging
  <2>3. SucceedingIsStored'
    BY <1>4 DEF CreateStaging
  <2>4. InflightWasSent' /\ NoPartialObject' /\ MemoryIsAtomic'
    BY <1>4 DEF CreateStaging
  <2> QED
    BY <2>1, <2>2, <2>3, <2>4
<1>5. ASSUME NEW p \in Puts, WriteStaging(p), UNCHANGED backend PROVE IInv'
  <2>1. TypeOK'
    BY <1>5 DEF WriteStaging
  <2>2. StagedIsComplete'
    BY <1>5 DEF WriteStaging
  <2>3. SucceedingIsStored' /\ InflightWasSent' /\ NoPartialObject' /\ MemoryIsAtomic'
    BY <1>5 DEF WriteStaging
  <2> QED
    BY <2>1, <2>2, <2>3
<1>6. ASSUME NEW p \in Puts, Promote(p), UNCHANGED backend PROVE IInv'
  <2>1. TypeOK'
    <3>1. pc' \in [Puts -> Steps]
      BY <1>6 DEF Promote
    <3>2. object' \in [Keys -> Contents \cup {None, Foreign, Partial}]
      BY <1>6 DEF Promote
    <3> QED
      BY <1>6, <3>1, <3>2 DEF Promote
  <2>2. StagedIsComplete'
    BY <1>6 DEF Promote
  <2>3. SucceedingIsStored'
    BY <1>6 DEF Promote
  <2>4. InflightWasSent' /\ NoPartialObject' /\ MemoryIsAtomic'
    BY <1>6 DEF Promote
  <2> QED
    BY <2>1, <2>2, <2>3, <2>4
<1>7. ASSUME NEW p \in Puts, CompareWinner(p), UNCHANGED backend PROVE IInv'
  BY <1>7 DEF CompareWinner
<1>8. ASSUME NEW p \in Puts, Cleanup(p), UNCHANGED backend PROVE IInv'
  <2>1. /\ pc[p] \in {"cleanup_ok", "cleanup_failed"}
        /\ pc' = [pc EXCEPT ![p] = "done"]
        /\ UNCHANGED <<backend, want, object, inflight>>
        /\ \/ result' = [result EXCEPT ![p] = "failed"]
           \/ /\ pc[p] = "cleanup_ok"
              /\ result' = [result EXCEPT ![p] = "ok"]
        /\ staging' \in {staging, [staging EXCEPT ![p] = None]}
    BY <1>8 DEF Cleanup
  <2>2. TypeOK'
    BY <2>1
  <2>3. StagedIsComplete'
    BY <2>1
  <2>4. SucceedingIsStored' /\ InflightWasSent' /\ NoPartialObject' /\ MemoryIsAtomic'
    BY <2>1
  <2> QED
    BY <2>2, <2>3, <2>4
<1>9. ASSUME NEW p \in Puts, SendPut(p), UNCHANGED backend PROVE IInv'
  <2>1. TypeOK'
    <3>1. pc' \in [Puts -> Steps] /\ result' \in [Puts -> {"none", "ok", "failed"}]
      BY <1>9 DEF SendPut
    <3>2. object' \in [Keys -> Contents \cup {None, Foreign, Partial}]
      BY <1>9 DEF SendPut
    <3> QED
      BY <1>9, <3>1, <3>2 DEF SendPut
  <2>2. StagedIsComplete' /\ InflightWasSent' /\ NoPartialObject'
    BY <1>9 DEF SendPut
  <2>3. SucceedingIsStored'
    BY <1>9 DEF SendPut
  <2>4. MemoryIsAtomic'
    BY <1>9 DEF SendPut
  <2> QED
    BY <2>1, <2>2, <2>3, <2>4
<1>10. ASSUME NEW p \in Puts, ArriveLate(p), UNCHANGED backend PROVE IInv'
  BY <1>10 DEF ArriveLate
<1>11. ASSUME NEW p \in Puts, VerifyObject(p), UNCHANGED backend PROVE IInv'
  <2>1. TypeOK' /\ StagedIsComplete'
    BY <1>11 DEF VerifyObject
  <2>2. SucceedingIsStored'
    BY <1>11 DEF VerifyObject
  <2>3. InflightWasSent' /\ NoPartialObject' /\ MemoryIsAtomic'
    BY <1>11 DEF VerifyObject
  <2> QED
    BY <2>1, <2>2, <2>3
<1>12. ASSUME NEW p \in Puts, Drop(p), UNCHANGED backend PROVE IInv'
  <2>1. TypeOK'
    BY <1>12 DEF Drop
  <2>2. StagedIsComplete'
    BY <1>12 DEF Drop
  <2>3. SucceedingIsStored'
    BY <1>12 DEF Drop
  <2>4. InflightWasSent' /\ NoPartialObject' /\ MemoryIsAtomic'
    BY <1>12 DEF Drop
  <2> QED
    BY <2>1, <2>2, <2>3, <2>4
<1>13. CASE UNCHANGED vars
  BY <1>13 DEF vars
<1> QED
  BY <1>1, <1>2, <1>3, <1>4, <1>5, <1>6, <1>7, <1>8, <1>9, <1>10, <1>11,
     <1>12, <1>13 DEF Next, Step

\* The invariant holds in every reachable state.
THEOREM Invariance == Spec => []IInv
<1> QED
  BY InitIInv, NextIInv, PTL DEF Spec

\* No reader ever finds an incompletely written object.
THEOREM ObjectsAreComplete == Spec => []NoPartialObject
<1>1. IInv => NoPartialObject
  BY DEF IInv
<1> QED
  BY <1>1, Invariance, PTL

\* The refinement mapping leaves other calls alone.
LEMMA StatusStep ==
    ASSUME IInv, NEW p \in Puts, NEW step \in Steps,
           pc' = [pc EXCEPT ![p] = step],
           \/ result' = result
           \/ step = "done" /\ \E r : result' = [result EXCEPT ![p] = r]
    PROVE  status' = [status EXCEPT ![p] =
                         CASE step = "idle" -> "idle"
                           [] step = "done" -> result'[p]
                           [] OTHER -> "pending"]
BY DEF IInv, TypeOK, status

\* Initial states map to initial states.
LEMMA InitRefines == Init => Store!StoreInit
BY DEF Init, Store!StoreInit, Store!Calls, status

\* Every step of a backend is a step of the write-once store, or none.
LEMMA NextRefines == IInv /\ [Next]_vars => [Store!StoreNext]_Store!storeVars
<1> SUFFICES ASSUME IInv, [Next]_vars
             PROVE  Store!StoreNext \/ UNCHANGED Store!storeVars
  OBVIOUS
<1>1. ASSUME NEW p \in Puts, NEW step \in Steps \ {"idle", "done"},
             pc[p] \notin {"idle", "done"},
             pc' = [pc EXCEPT ![p] = step], result' = result,
             UNCHANGED <<object, want>>
      PROVE  UNCHANGED Store!storeVars
  <2>1. status[p] = "pending" /\ status \in [Puts -> {"idle", "pending", "ok", "failed", "none"}]
    BY <1>1 DEF IInv, TypeOK, status
  <2>2. status' = [status EXCEPT ![p] = "pending"]
    BY <1>1, StatusStep
  <2> QED
    BY <1>1, <2>1, <2>2 DEF Store!storeVars
<1>2. ASSUME NEW p \in Puts, pc[p] \notin {"idle", "done"},
             pc' = [pc EXCEPT ![p] = "done"],
             result' = [result EXCEPT ![p] = "ok"],
             object[Key(p)] \in {None, Bytes(p)},
             object' = [object EXCEPT ![Key(p)] = Bytes(p)],
             UNCHANGED want
      PROVE  Store!Succeed(p)
  <2>1. status[p] = "pending"
    BY <1>2 DEF status
  <2>2. status' = [status EXCEPT ![p] = "ok"]
    BY <1>2, StatusStep DEF Steps, IInv, TypeOK
  <2> QED
    BY <1>2, <2>1, <2>2 DEF Store!Succeed, Key, Bytes
<1>3. ASSUME NEW p \in Puts, pc[p] \notin {"idle", "done"},
             pc' = [pc EXCEPT ![p] = "done"],
             result' = [result EXCEPT ![p] = "failed"],
             \/ UNCHANGED object
             \/ /\ object[Key(p)] = None
                /\ object' = [object EXCEPT ![Key(p)] = Bytes(p)],
             UNCHANGED want
      PROVE  Store!Fail(p)
  <2>1. status[p] = "pending"
    BY <1>3 DEF status
  <2>2. status' = [status EXCEPT ![p] = "failed"]
    BY <1>3, StatusStep DEF Steps, IInv, TypeOK
  <2> QED
    BY <1>3, <2>1, <2>2 DEF Store!Fail, Key, Bytes
<1>4. ASSUME NEW p \in Puts, ArriveLate(p)
      PROVE  Store!Appear(p) \/ UNCHANGED Store!storeVars
  <2>1. status' = status
    BY <1>4 DEF ArriveLate, status
  <2>2. object[Key(p)] = None => status[p] \in {"pending", "failed"}
    BY <1>4, ContentsAssumption
       DEF ArriveLate, status, IInv, TypeOK, SucceedingIsStored,
           InflightWasSent, Key, Bytes
  <2> QED
    BY <1>4, <2>1, <2>2
       DEF ArriveLate, Store!Appear, Store!storeVars, Key, Bytes
<1>5. ASSUME NEW p \in Puts, Promote(p)
      PROVE  Store!Appear(p) \/ UNCHANGED Store!storeVars
  <2>1. CASE object' = [object EXCEPT ![Key(p)] = staging[p]] /\ object[Key(p)] = None
             /\ Goto(p, "cleanup_ok")
    <3>1. status[p] = "pending" /\ status' = [status EXCEPT ![p] = "pending"]
      BY <1>5, <2>1, StatusStep DEF Promote, Goto, Steps, status
    <3>2. status' = status
      BY <3>1 DEF status
    <3>3. staging[p] = Bytes(p)
      BY <1>5 DEF Promote, IInv, StagedIsComplete
    <3> QED
      BY <1>5, <2>1, <3>1, <3>2, <3>3 DEF Promote, Store!Appear, Key, Bytes
  <2>2. CASE UNCHANGED object
    BY <1>1, <1>5, <2>2 DEF Promote, Goto, Steps
  <2> QED
    BY <1>5, <2>1, <2>2 DEF Promote
<1>6. ASSUME NEW p \in Puts, put_verified(p)
      PROVE  Store!Call(p)
  <2>1. PICK step \in {"insert", "preflight", "send"} : pc' = [pc EXCEPT ![p] = step]
    BY <1>6 DEF put_verified, Goto, IInv, TypeOK
  <2>2. status' = [status EXCEPT ![p] = "pending"]
    BY <1>6, <2>1, StatusStep DEF put_verified, Goto, Steps
  <2> QED
    BY <1>6, <2>2 DEF put_verified, Store!Call, status
<1>7. ASSUME NEW p \in Puts, object[Key(p)] = Bytes(p), UNCHANGED object
      PROVE  object' = [object EXCEPT ![Key(p)] = Bytes(p)]
  <2>1. object \in [Keys -> Contents \cup {None, Foreign, Partial}]
    BY DEF IInv, TypeOK
  <2> QED
    BY <1>7, <2>1
<1>8. ASSUME NEW p \in Puts, InsertInMemory(p)
      PROVE  Store!Succeed(p) \/ Store!Fail(p)
  <2>1. pc[p] = "insert" /\ UNCHANGED want
    BY <1>8 DEF InsertInMemory
  <2>2. \/ /\ Return(p, "ok")
           /\ \/ UNCHANGED object /\ object[Key(p)] = Bytes(p)
              \/ /\ object[Key(p)] = None
                 /\ object' = [object EXCEPT ![Key(p)] = Bytes(p)]
        \/ Return(p, "failed") /\ UNCHANGED object
    BY <1>8 DEF InsertInMemory
  <2>3. Return(p, "ok") => /\ object[Key(p)] \in {None, Bytes(p)}
                           /\ object' = [object EXCEPT ![Key(p)] = Bytes(p)]
    <3>1. CASE UNCHANGED object /\ object[Key(p)] = Bytes(p)
      BY <1>7, <3>1
    <3>2. Return(p, "failed") => ~Return(p, "ok")
      BY DEF Return, IInv, TypeOK
    <3> QED
      BY <2>2, <3>1, <3>2
  <2> QED
    BY <1>2, <1>3, <2>1, <2>2, <2>3 DEF Return
<1>9. ASSUME NEW p \in Puts, Preflight(p) \/ VerifyObject(p)
      PROVE  Store!StoreNext \/ UNCHANGED Store!storeVars
  <2>1. \/ Return(p, "ok") /\ object[Key(p)] = Bytes(p)
        \/ Return(p, "failed")
        \/ Goto(p, "stage")
    BY <1>9 DEF Preflight, VerifyObject
  <2>2. pc[p] \notin {"idle", "done"} /\ UNCHANGED <<object, want>>
    BY <1>9 DEF Preflight, VerifyObject
  <2>3. CASE Return(p, "ok") /\ object[Key(p)] = Bytes(p)
    <3>1. object' = [object EXCEPT ![Key(p)] = Bytes(p)]
      BY <1>7, <2>2, <2>3
    <3> QED
      BY <1>2, <2>2, <2>3, <3>1 DEF Return, Store!StoreNext
  <2>4. CASE Return(p, "failed")
    BY <1>3, <2>2, <2>4 DEF Return, Store!StoreNext
  <2>5. CASE Goto(p, "stage")
    BY <1>1, <2>2, <2>5 DEF Goto, Steps
  <2> QED
    BY <2>1, <2>3, <2>4, <2>5
<1>10. ASSUME NEW p \in Puts,
              CreateStaging(p) \/ WriteStaging(p) \/ CompareWinner(p)
       PROVE  UNCHANGED Store!storeVars
  <2>1. /\ pc[p] \notin {"idle", "done"} /\ UNCHANGED <<object, want>>
        /\ \E step \in {"write", "promote", "cleanup_ok", "cleanup_failed"} : Goto(p, step)
    BY <1>10 DEF CreateStaging, WriteStaging, CompareWinner
  <2> QED
    BY <1>1, <2>1 DEF Goto, Steps
<1>11. ASSUME NEW p \in Puts, Cleanup(p)
       PROVE  Store!StoreNext
  <2>1. /\ pc[p] \notin {"idle", "done"} /\ UNCHANGED <<object, want>>
        /\ \/ Return(p, "ok") /\ pc[p] = "cleanup_ok"
           \/ Return(p, "failed")
    BY <1>11 DEF Cleanup
  <2>2. pc[p] = "cleanup_ok" => object[Key(p)] = Bytes(p)
    BY DEF IInv, SucceedingIsStored
  <2>3. CASE Return(p, "ok") /\ pc[p] = "cleanup_ok"
    <3>1. object' = [object EXCEPT ![Key(p)] = Bytes(p)]
      BY <1>7, <2>1, <2>2, <2>3
    <3> QED
      BY <1>2, <2>1, <2>2, <2>3, <3>1 DEF Return, Store!StoreNext
  <2>4. CASE Return(p, "failed")
    BY <1>3, <2>1, <2>4 DEF Return, Store!StoreNext
  <2> QED
    BY <2>1, <2>3, <2>4
<1>12. ASSUME NEW p \in Puts, SendPut(p)
       PROVE  Store!StoreNext \/ UNCHANGED Store!storeVars
  BY <1>1, <1>2, <1>12 DEF SendPut, Return, Goto, Steps, Store!StoreNext
<1>13. ASSUME NEW p \in Puts, Drop(p)
       PROVE  Store!StoreNext
  <2>1. /\ pc[p] \notin {"idle", "done"} /\ Return(p, "failed") /\ UNCHANGED want
        /\ \/ UNCHANGED object
           \/ /\ object[Key(p)] = None
              /\ object' = [object EXCEPT ![Key(p)] = Bytes(p)]
    BY <1>13 DEF Drop, IInv, StagedIsComplete
  <2> QED
    BY <1>3, <2>1 DEF Return, Store!StoreNext
<1>14. CASE UNCHANGED vars
  BY <1>14 DEF vars, Store!storeVars, status
<1> QED
  BY <1>4, <1>5, <1>6, <1>8, <1>9, <1>10, <1>11, <1>12, <1>13, <1>14
     DEF Next, Step, Store!StoreNext

\* Each backend implements the write-once store.
THEOREM Refinement == Spec => ImplementsImmutableStore
<1> QED
  BY InitRefines, NextRefines, Invariance, PTL
     DEF Spec, ImplementsImmutableStore, Store!StoreSpec

\* A caller told "ok" finds its own bytes under its key.
THEOREM SuccessIsTrue == Spec => []SuccessMeansStored
<1>1. IInv => SuccessMeansStored
  BY DEF IInv, TypeOK, SucceedingIsStored, SuccessMeansStored,
         Store!SuccessMeansStored, status, Key, Bytes
<1> QED
  BY <1>1, Invariance, PTL

\* No object is ever replaced.
THEOREM Immutability == Spec => ObjectsAreImmutable
<1>1. IInv /\ [Store!StoreNext]_Store!storeVars
      => [\A k \in Keys : object[k] # None => object'[k] = object[k]]_Store!storeVars
  BY DEF IInv, TypeOK, Store!StoreNext, Store!Call, Store!Succeed, Store!Appear,
         Store!Fail, Store!storeVars
<1> QED
  BY <1>1, NextRefines, Invariance, PTL
     DEF Spec, ObjectsAreImmutable, Store!ObjectsAreImmutable

-----------------------------------------------------------------------------
(* The capacity of the memory backend.  Nothing is assumed finite: that    *)
(* the map holds finitely many bytes is part of the invariant.             *)

MemoryFits ==
    backend = "memory" => IsFiniteSet(StoredBytes) /\ RetainedBytes <= max_bytes

\* One object takes as many bytes as its length.
LEMMA ObjectBytes ==
    ASSUME NEW k, NEW n \in Nat
    PROVE  IsFiniteSet({k} \X (1..n)) /\ Cardinality({k} \X (1..n)) = n
<1>1. IsFiniteSet({k}) /\ Cardinality({k}) = 1
  BY FS_Singleton
<1>2. IsFiniteSet(1..n) /\ Cardinality(1..n) = n
  BY FS_Interval
<1>3. /\ IsFiniteSet({k} \X (1..n))
      /\ Cardinality({k} \X (1..n)) = Cardinality({k}) * Cardinality(1..n)
  BY <1>1, <1>2, FS_Product
<1> QED
  BY <1>1, <1>2, <1>3

\* An object stored under a free key adds its length to the bytes retained.
LEMMA InsertCounts ==
    ASSUME IInv, NEW k \in Keys, NEW b \in Contents, object[k] = None,
           object' = [object EXCEPT ![k] = b], IsFiniteSet(StoredBytes)
    PROVE  IsFiniteSet(StoredBytes)' /\ RetainedBytes' = RetainedBytes + Size[b]
<1> DEFINE new == {k} \X (1..Size[b])
<1>1. b # None /\ Size[b] \in Nat /\ object \in [Keys -> Contents \cup {None, Foreign, Partial}]
  BY SizeAssumption, ContentsAssumption DEF IInv, TypeOK
<1>2. \A l \in Keys : object'[l] = IF l = k THEN b ELSE object[l]
  BY <1>1
<1>3. StoredBytes' = StoredBytes \cup new
  <2>1. \A x : x \in StoredBytes' => x \in StoredBytes \cup new
    BY <1>1, <1>2 DEF StoredBytes
  <2>2. \A x : x \in StoredBytes => x \in StoredBytes'
    BY <1>1, <1>2 DEF StoredBytes
  <2>3. \A x : x \in new => x \in StoredBytes'
    BY <1>1, <1>2 DEF StoredBytes
  <2> QED
    BY <2>1, <2>2, <2>3
<1>4. StoredBytes \cap new = {}
  BY <1>1 DEF StoredBytes
<1>5. IsFiniteSet(new) /\ Cardinality(new) = Size[b]
  BY <1>1, ObjectBytes
<1> HIDE DEF new
<1>6. /\ IsFiniteSet(StoredBytes \cup new)
      /\ Cardinality(StoredBytes \cup new)
            = Cardinality(StoredBytes) + Cardinality(new) - Cardinality(StoredBytes \cap new)
  BY <1>5, FS_Union
<1>7. Cardinality(StoredBytes) \in Nat
  BY FS_CardinalityType
<1>8. Cardinality(StoredBytes \cap new) = 0
  BY <1>4, FS_EmptySet
<1>9. Cardinality(StoredBytes \cup new) = Cardinality(StoredBytes) + Size[b]
  BY <1>1, <1>5, <1>6, <1>7, <1>8
<1> QED
  BY <1>3, <1>6, <1>9 DEF RetainedBytes

\* An empty map fits; afterwards only InsertInMemory writes to it, and it
\* writes when the bytes retained, the new ones included, fit.
THEOREM Capacity == Spec => []CapacityHolds
<1>1. Init => MemoryFits
  <2> SUFFICES ASSUME Init, backend = "memory"
               PROVE  IsFiniteSet(StoredBytes) /\ RetainedBytes <= max_bytes
    BY DEF MemoryFits
  <2>1. StoredBytes = {}
    BY DEF Init, StoredBytes
  <2> QED
    BY <2>1, FS_EmptySet, CapacityAssumption DEF RetainedBytes
<1>2. IInv /\ MemoryFits /\ [Next]_vars => MemoryFits'
  <2> SUFFICES ASSUME IInv, MemoryFits, [Next]_vars, backend' = "memory"
               PROVE  IsFiniteSet(StoredBytes)' /\ RetainedBytes' <= max_bytes
    BY DEF MemoryFits
  <2>1. backend = "memory" /\ IsFiniteSet(StoredBytes) /\ RetainedBytes <= max_bytes
    BY DEF MemoryFits, Next, vars
  <2>2. inflight = {} /\ \A p \in Puts : pc[p] \in {"idle", "insert", "done"}
    BY <2>1 DEF IInv, MemoryIsAtomic
  <2>3. CASE object' = object
    BY <2>1, <2>3 DEF StoredBytes, RetainedBytes
  <2>4. ASSUME NEW p \in Puts, InsertInMemory(p), object' # object
        PROVE  IsFiniteSet(StoredBytes)' /\ RetainedBytes' <= max_bytes
    <3>1. /\ object[Key(p)] = None
          /\ RetainedBytes + Size[Bytes(p)] <= max_bytes
          /\ object' = [object EXCEPT ![Key(p)] = Bytes(p)]
      BY <2>4 DEF InsertInMemory
    <3>2. Key(p) \in Keys /\ Bytes(p) \in Contents
      BY DEF IInv, TypeOK, Key, Bytes
    <3> QED
      BY <2>1, <3>1, <3>2, InsertCounts
  <2>5. ASSUME NEW p \in Puts, Step(p), ~InsertInMemory(p) PROVE object' = object
    BY <2>2, <2>5
       DEF Step, put_verified, Preflight, CreateStaging, WriteStaging, Promote,
           CompareWinner, Cleanup, SendPut, ArriveLate, VerifyObject, Drop
  <2> QED
    BY <2>3, <2>4, <2>5 DEF Next, vars
<1>3. MemoryFits => CapacityHolds
  BY DEF MemoryFits, CapacityHolds
<1> QED
  BY <1>1, <1>2, <1>3, Invariance, PTL DEF Spec

=============================================================================
