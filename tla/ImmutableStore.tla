--------------------------- MODULE ImmutableStore ---------------------------
(***************************************************************************)
(* What every artifact backend promises the publish pipeline: an object is *)
(* written once, and a put that reports success left exactly its bytes     *)
(* under its key.  A put that fails, or that nobody waits for any more,    *)
(* may still have created the object.                                      *)
(***************************************************************************)
CONSTANTS
    Puts,     \* calls of put_verified
    Keys,     \* object keys
    Contents, \* what a caller may store
    Foreign,  \* content that no call of this server wrote
    None

VARIABLES
    object, \* key -> content
    want,   \* put -> the key and bytes it was called with
    status  \* put -> what its caller knows

storeVars == <<object, want, status>>

Calls == [key : Keys, bytes : Contents]

StoreInit ==
    /\ object \in [Keys -> {None, Foreign}]
    /\ want \in [Puts -> Calls]
    /\ status = [p \in Puts |-> "idle"]

Call(p) ==
    /\ status[p] = "idle"
    /\ status' = [status EXCEPT ![p] = "pending"]
    /\ UNCHANGED <<object, want>>

\* Report success; the object is there, or appears in this step.
Succeed(p) ==
    /\ status[p] = "pending"
    /\ object[want[p].key] \in {None, want[p].bytes}
    /\ object' = [object EXCEPT ![want[p].key] = want[p].bytes]
    /\ status' = [status EXCEPT ![p] = "ok"]
    /\ UNCHANGED want

\* The object appears although nobody has been told, or ever will be.
Appear(p) ==
    /\ status[p] \in {"pending", "failed"}
    /\ object[want[p].key] = None
    /\ object' = [object EXCEPT ![want[p].key] = want[p].bytes]
    /\ UNCHANGED <<want, status>>

\* Report a failure, or stop waiting; the object may appear all the same.
Fail(p) ==
    /\ status[p] = "pending"
    /\ status' = [status EXCEPT ![p] = "failed"]
    /\ \/ UNCHANGED object
       \/ /\ object[want[p].key] = None
          /\ object' = [object EXCEPT ![want[p].key] = want[p].bytes]
    /\ UNCHANGED want

StoreNext == \E p \in Puts : Call(p) \/ Succeed(p) \/ Appear(p) \/ Fail(p)

StoreSpec == StoreInit /\ [][StoreNext]_storeVars

-----------------------------------------------------------------------------
\* Success means that the caller's bytes are under the key, now and later.
SuccessMeansStored ==
    \A p \in Puts : status[p] = "ok" => object[want[p].key] = want[p].bytes

\* An object that exists is never replaced or removed.
ObjectsAreImmutable ==
    [][\A k \in Keys : object[k] # None => object'[k] = object[k]]_storeVars

=============================================================================
