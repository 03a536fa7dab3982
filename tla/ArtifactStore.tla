---------------------------- MODULE ArtifactStore ----------------------------
(***************************************************************************)
(* put_verified of src/storage.rs on its three backends: process memory,   *)
(* a local directory, and an S3-compatible bucket.  Each call interleaves  *)
(* with the others at every await, may fail at every system call, and may  *)
(* be dropped with its caller.                                             *)
(*                                                                         *)
(* Length, digest, content type, cache policy and digest metadata of an    *)
(* object are one value, its content: two contents are equal when all of   *)
(* local_object_matches or s3_object_matches agree.                        *)
(***************************************************************************)
EXTENDS Integers, FiniteSets

CONSTANTS
    Puts, Keys, Contents, Foreign, None,
    Partial,   \* a file that was created and not completely written
    Size,      \* Size[b]: length of b, Foreign included
    max_bytes  \* capacity of the memory backend

ASSUME SizeAssumption == Size \in [Contents \cup {Foreign} -> Nat]
ASSUME ContentsAssumption ==
    /\ None \notin Contents \cup {Foreign, Partial}
    /\ Foreign \notin Contents
    /\ Partial \notin Contents \cup {Foreign}
ASSUME CapacityAssumption == max_bytes \in Nat

VARIABLES
    backend, \* the variant of the ArtifactStore enum, fixed by from_config
    pc,      \* where each call is
    want,    \* the key and bytes of each call
    result,  \* what each caller was told
    object,  \* key -> content a reader finds
    staging, \* call -> content of its temporary file
    inflight \* S3 PUT requests that were given up and may still arrive

vars == <<backend, pc, want, result, object, staging, inflight>>

Key(p) == want[p].key
Bytes(p) == want[p].bytes

\* Objects somebody else left under a key exist in a bucket or a directory;
\* the in-memory map starts empty.
Init ==
    /\ backend \in {"memory", "local", "s3"}
    /\ pc = [p \in Puts |-> "idle"]
    /\ want \in [Puts -> [key : Keys, bytes : Contents]]
    /\ result = [p \in Puts |-> "none"]
    /\ object \in [Keys -> IF backend = "memory" THEN {None} ELSE {None, Foreign}]
    /\ staging = [p \in Puts |-> None]
    /\ inflight = {}

Goto(p, step) ==
    /\ pc' = [pc EXCEPT ![p] = step]
    /\ UNCHANGED result

Return(p, r) ==
    /\ pc' = [pc EXCEPT ![p] = "done"]
    /\ result' = [result EXCEPT ![p] = r]

\* The digest syntax check, then the match on the backend.
put_verified(p) ==
    /\ pc[p] = "idle"
    /\ Goto(p, CASE backend = "memory" -> "insert"
                 [] backend = "local" -> "preflight"
                 [] backend = "s3" -> "send")
    /\ UNCHANGED <<want, object, staging, inflight>>

-----------------------------------------------------------------------------
(***************************************************************************)
(* Memory: one critical section under the write lock.                      *)
(***************************************************************************)
\* Every byte of every object in the map, by key and offset.
StoredBytes ==
    UNION {{k} \X (1..Size[object[k]]) : k \in {l \in Keys : object[l] # None}}

RetainedBytes == Cardinality(StoredBytes)

\* Mutant: the capacity is compared before the new object is counted.
InsertUncounted(p) ==
    /\ pc[p] = "insert"
    /\ \/ /\ object[Key(p)] = Bytes(p)
          /\ Return(p, "ok")
          /\ UNCHANGED object
       \/ /\ object[Key(p)] = None
          /\ RetainedBytes <= max_bytes
          /\ object' = [object EXCEPT ![Key(p)] = Bytes(p)]
          /\ Return(p, "ok")
       \/ /\ object[Key(p)] = None
          /\ RetainedBytes > max_bytes
          /\ Return(p, "failed")
          /\ UNCHANGED object
       \/ /\ object[Key(p)] \notin {None, Bytes(p)}
          /\ Return(p, "failed")
          /\ UNCHANGED object
    /\ UNCHANGED <<want, staging, inflight>>

InsertInMemory(p) ==
    /\ pc[p] = "insert"
    /\ \/ /\ object[Key(p)] = Bytes(p)
          /\ Return(p, "ok")
          /\ UNCHANGED object
       \/ /\ object[Key(p)] = None
          /\ RetainedBytes + Size[Bytes(p)] <= max_bytes
          /\ object' = [object EXCEPT ![Key(p)] = Bytes(p)]
          /\ Return(p, "ok")
       \/ /\ object[Key(p)] = None
          /\ RetainedBytes + Size[Bytes(p)] > max_bytes
          /\ Return(p, "failed")
          /\ UNCHANGED object
       \/ /\ object[Key(p)] \notin {None, Bytes(p)}
          /\ Return(p, "failed")
          /\ UNCHANGED object
    /\ UNCHANGED <<want, staging, inflight>>

-----------------------------------------------------------------------------
(***************************************************************************)
(* Local: preflight, stage, promote by hard link, clean up, sync.          *)
(***************************************************************************)
Preflight(p) ==
    /\ pc[p] = "preflight"
    /\ \/ /\ object[Key(p)] = None
          /\ Goto(p, "stage")
       \/ /\ object[Key(p)] = Bytes(p)
          /\ Return(p, "ok")
       \/ Return(p, "failed")  \* other content, or an I/O error
    /\ UNCHANGED <<want, object, staging, inflight>>

\* The staging file has a fresh name, so nobody else opens it.
CreateStaging(p) ==
    /\ pc[p] = "stage"
    /\ \/ /\ staging' = [staging EXCEPT ![p] = Partial]
          /\ Goto(p, "write")
       \/ /\ UNCHANGED staging
          /\ Goto(p, "cleanup_failed")
    /\ UNCHANGED <<want, object, inflight>>

\* Mutant: a short write is promoted like a complete one.
WriteUnchecked(p) ==
    /\ pc[p] = "write"
    /\ staging' \in {staging, [staging EXCEPT ![p] = Bytes(p)]}
    /\ Goto(p, "promote")
    /\ UNCHANGED <<want, object, inflight>>

\* write_all, flush and sync_all.
WriteStaging(p) ==
    /\ pc[p] = "write"
    /\ \/ /\ staging' = [staging EXCEPT ![p] = Bytes(p)]
          /\ Goto(p, "promote")
       \/ /\ UNCHANGED staging
          /\ Goto(p, "cleanup_failed")
    /\ UNCHANGED <<want, object, inflight>>

\* Mutant: rename, which replaces what is there.
PromoteByRename(p) ==
    /\ pc[p] = "promote"
    /\ object' = [object EXCEPT ![Key(p)] = staging[p]]
    /\ staging' = [staging EXCEPT ![p] = None]
    /\ Goto(p, "cleanup_ok")
    /\ UNCHANGED <<want, inflight>>

\* hard_link fails on an existing name.
Promote(p) ==
    /\ pc[p] = "promote"
    /\ \/ /\ object[Key(p)] = None
          /\ object' = [object EXCEPT ![Key(p)] = staging[p]]
          /\ Goto(p, "cleanup_ok")
       \/ /\ object[Key(p)] # None
          /\ UNCHANGED object
          /\ Goto(p, "compare")
       \/ /\ UNCHANGED object
          /\ Goto(p, "cleanup_failed")
    /\ UNCHANGED <<want, staging, inflight>>

CompareWinner(p) ==
    /\ pc[p] = "compare"
    /\ \/ /\ object[Key(p)] = Bytes(p)
          /\ Goto(p, "cleanup_ok")
       \/ Goto(p, "cleanup_failed")
    /\ UNCHANGED <<want, object, staging, inflight>>

\* remove_file, and after a success sync_directory.  Either may fail, which
\* turns a success into an error although the object is in place.
Cleanup(p) ==
    /\ pc[p] \in {"cleanup_ok", "cleanup_failed"}
    /\ \/ /\ staging' = [staging EXCEPT ![p] = None]
          /\ Return(p, IF pc[p] = "cleanup_ok" THEN "ok" ELSE "failed")
       \/ /\ staging' \in {staging, [staging EXCEPT ![p] = None]}
          /\ Return(p, "failed")
    /\ UNCHANGED <<want, object, inflight>>

-----------------------------------------------------------------------------
(***************************************************************************)
(* S3: a conditional PUT, and a verifying GET whenever it did not succeed. *)
(***************************************************************************)
SendPut(p) ==
    /\ pc[p] = "send"
    /\ \/ /\ object[Key(p)] = None
          /\ object' = [object EXCEPT ![Key(p)] = Bytes(p)]
          /\ Return(p, "ok")
          /\ UNCHANGED inflight
       \/ /\ object[Key(p)] # None  \* 412 Precondition Failed
          /\ Goto(p, "verify")
          /\ UNCHANGED <<object, inflight>>
       \/ /\ Goto(p, "verify")      \* timeout, rate limit, lost answer
          /\ inflight' = inflight \cup {p}
          /\ UNCHANGED object
    /\ UNCHANGED <<want, staging>>

\* A PUT whose answer was given up on reaches the bucket, or never does.
ArriveLate(p) ==
    /\ p \in inflight
    /\ inflight' = inflight \ {p}
    /\ \/ /\ object[Key(p)] = None
          /\ object' = [object EXCEPT ![Key(p)] = Bytes(p)]
       \/ UNCHANGED object
    /\ UNCHANGED <<pc, want, result, staging>>

VerifyObject(p) ==
    /\ pc[p] = "verify"
    /\ \/ /\ object[Key(p)] = Bytes(p)
          /\ Return(p, "ok")
       \/ Return(p, "failed")  \* absent, different, or the GET failed
    /\ UNCHANGED <<want, object, staging, inflight>>

-----------------------------------------------------------------------------
\* The caller's future is dropped, or the process dies: nothing is cleaned
\* up, and a request or link already issued may still take effect.
Drop(p) ==
    /\ pc[p] \notin {"idle", "done"}
    /\ Return(p, "failed")
    /\ \/ UNCHANGED <<object, inflight>>
       \/ /\ pc[p] = "send"
          /\ inflight' = inflight \cup {p}
          /\ UNCHANGED object
       \/ /\ pc[p] = "promote"
          /\ object[Key(p)] = None
          /\ object' = [object EXCEPT ![Key(p)] = staging[p]]
          /\ UNCHANGED inflight
    /\ UNCHANGED <<want, staging>>

Step(p) ==
    \/ put_verified(p)
    \/ InsertInMemory(p)
    \/ Preflight(p)
    \/ CreateStaging(p)
    \/ WriteStaging(p)
    \/ Promote(p)
    \/ CompareWinner(p)
    \/ Cleanup(p)
    \/ SendPut(p)
    \/ ArriveLate(p)
    \/ VerifyObject(p)
    \/ Drop(p)

Next == UNCHANGED backend /\ \E p \in Puts : Step(p)

Spec == Init /\ [][Next]_vars

-----------------------------------------------------------------------------
Steps == {"idle", "insert", "preflight", "stage", "write", "promote",
          "compare", "cleanup_ok", "cleanup_failed", "send", "verify", "done"}

\* The type of the state; the backend is fixed for the life of the process.
TypeOK ==
    /\ backend \in {"memory", "local", "s3"}
    /\ pc \in [Puts -> Steps]
    /\ want \in [Puts -> [key : Keys, bytes : Contents]]
    /\ result \in [Puts -> {"none", "ok", "failed"}]
    /\ object \in [Keys -> Contents \cup {None, Foreign, Partial}]
    /\ staging \in [Puts -> Contents \cup {None, Partial}]
    /\ inflight \subseteq Puts

\* A reader never finds a file that was not completely written, wherever the
\* writer stopped.
NoPartialObject == \A k \in Keys : object[k] # Partial

\* The in-memory store never retains more than its limit.
CapacityHolds == backend = "memory" => RetainedBytes <= max_bytes

\* What a local put relies on between its system calls: it only promotes a
\* complete file, and cleans up as a success only when its content is there.
StagedIsComplete ==
    \A p \in Puts : pc[p] = "promote" => staging[p] = Bytes(p)

SucceedingIsStored ==
    \A p \in Puts :
        /\ pc[p] = "cleanup_ok" \/ result[p] = "ok" => object[Key(p)] = Bytes(p)
        /\ pc[p] = "done" <=> result[p] # "none"

\* A PUT still on the wire belongs to a call that was made.
InflightWasSent == \A p \in inflight : pc[p] \in {"verify", "done"}

\* The memory backend does all its work in the one critical section.
MemoryIsAtomic ==
    backend = "memory" => /\ inflight = {}
                          /\ \A p \in Puts : pc[p] \in {"idle", "insert", "done"}

\* The invariant the refinement rests on, and the capacity with it.
IInv ==
    /\ TypeOK
    /\ StagedIsComplete
    /\ SucceedingIsStored
    /\ InflightWasSent
    /\ NoPartialObject
    /\ MemoryIsAtomic

\* The status of a call in the write-once store.
status ==
    [p \in Puts |-> CASE pc[p] = "idle" -> "idle"
                      [] pc[p] = "done" -> result[p]
                      [] OTHER -> "pending"]

Store == INSTANCE ImmutableStore

\* Each backend implements the write-once store the publish pipeline relies
\* on: no object is ever replaced, and success means the bytes are there.
ImplementsImmutableStore == Store!StoreSpec

\* A caller told "ok" finds its own bytes under the key for ever after.
SuccessMeansStored == Store!SuccessMeansStored

\* No retry, race or late request replaces an object that exists.
ObjectsAreImmutable == Store!ObjectsAreImmutable

=============================================================================
