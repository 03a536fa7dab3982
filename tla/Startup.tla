------------------------------ MODULE Startup ------------------------------
(***************************************************************************)
(* The processes of one deployment and how they come up: src/server.rs.    *)
(*                                                                         *)
(* A replica opens three connections in turn, each with its own deadline,  *)
(* retrying every two seconds; it migrates only under AUTO_MIGRATE=true,   *)
(* and serves on whatever schema there is otherwise.  The migrate job and  *)
(* the token commands migrate as well, so several processes may find the   *)
(* schema old at the same time.  The legacy migrations run in one          *)
(* transaction without a lock; the canonical ones hold an advisory lock    *)
(* that the others wait for.                                               *)
(***************************************************************************)
EXTENDS Integers

CONSTANTS
    Processes,   \* replicas, jobs and commands
    Deployments, \* what the processes may be: functions to Commands
    MaxWait,     \* DB_CONNECT_MAX_WAIT_SECS
    Backoff,     \* pause after a failed attempt
    LastStart,   \* bound: no process begins later than this
    MaxTime      \* bound on the clock

\* A replica with AUTO_MIGRATE=false, one with AUTO_MIGRATE=true, the job and
\* the two commands.
Replicas == {"serve", "automigrate"}
Commands == Replicas \cup {"migrate", "create", "revoke"}
Connecting == {"db", "write", "read"}
Ended == {"serving", "done", "failed"}

ASSUME StartupAssumption ==
    /\ Deployments \subseteq [Processes -> Commands]
    /\ MaxWait \in Nat /\ Backoff \in Nat \ {0}
    /\ LastStart \in Nat
    /\ MaxTime \in Nat /\ MaxTime >= LastStart + 3 * (MaxWait + Backoff - 1)

VARIABLES
    clock,   \* seconds
    command, \* process_command of each process
    schema,  \* which of the two migration batches are applied
    pc,      \* where each process is
    since,   \* when its present retry loop began
    wake,    \* when its next attempt is due
    plan     \* it found the legacy migrations applied

startupVars == <<clock, command, schema, pc, since, wake, plan>>

StartupInit ==
    /\ clock = 0
    /\ command \in Deployments
    /\ schema \in {{}, {"legacy", "canonical"}}
    /\ pc = [p \in Processes |-> "off"]
    /\ since = [p \in Processes |-> 0]
    /\ wake = [p \in Processes |-> 0]
    /\ plan = [p \in Processes |-> FALSE]

Goto(p, l) == pc' = [pc EXCEPT ![p] = l]

\* The token commands connect once.
Retries(p) == command[p] \in Replicas \cup {"migrate"}

\* Time passes; an attempt that is due is made first, and the steps of a
\* start that wait for nothing take none of the clock's units.
Tick ==
    /\ clock < MaxTime
    /\ \A p \in Processes :
          /\ pc[p] \in Connecting => wake[p] > clock
          /\ pc[p] \notin {"plan", "legacy", "canonical", "migrating", "bind"}
    /\ clock' = clock + 1
    /\ UNCHANGED <<command, schema, pc, since, wake, plan>>

\* A retry loop begins: started = Instant::now().
EnterLoop(p, l) ==
    /\ Goto(p, l)
    /\ since' = [since EXCEPT ![p] = clock]
    /\ wake' = [wake EXCEPT ![p] = clock]

\* It ends; its times no longer matter.
LeaveLoop(p, l) ==
    /\ Goto(p, l)
    /\ since' = [since EXCEPT ![p] = 0]
    /\ wake' = [wake EXCEPT ![p] = 0]

\* The process begins; the commands of main and run that need no database
\* (healthcheck, help, version) are not processes here.
run(p) ==
    /\ pc[p] = "off" /\ clock <= LastStart
    /\ EnterLoop(p, "db")
    /\ UNCHANGED <<clock, command, schema, plan>>

Migrates(p) == command[p] # "serve"

\* Where a successful connection leads.
Connected(p) ==
    CASE pc[p] = "db" /\ Retries(p) -> EnterLoop(p, "write")
      [] pc[p] = "db" /\ ~Retries(p) -> LeaveLoop(p, "plan")
      [] pc[p] = "write" /\ Migrates(p) -> LeaveLoop(p, "plan")
      [] pc[p] = "write" /\ ~Migrates(p) -> EnterLoop(p, "read")
      [] pc[p] = "read" -> LeaveLoop(p, "bind")

\* Mutant: a failed attempt restarts the deadline.
RetryForgetsStart(p) ==
    /\ Goto(p, pc[p])
    /\ since' = [since EXCEPT ![p] = clock]
    /\ wake' = [wake EXCEPT ![p] = clock + Backoff]

\* Err(error): give up once the deadline has passed, else sleep.
RetryOrGiveUp(p) ==
    IF ~Retries(p) \/ clock - since[p] >= MaxWait
    THEN LeaveLoop(p, "failed")
    ELSE wake' = [wake EXCEPT ![p] = clock + Backoff] /\ UNCHANGED <<pc, since>>

\* connect_with_retry, connect_registry_write_with_retry and
\* connect_registry_read_with_retry: one attempt,
\* on a database that may be down.
Attempt(p) ==
    /\ pc[p] \in Connecting /\ wake[p] <= clock
    /\ Connected(p) \/ RetryOrGiveUp(p)
    /\ UNCHANGED <<clock, command, schema, plan>>

\* Migrator::up reads which migrations are applied,
PlanLegacy(p) ==
    /\ pc[p] = "plan"
    /\ plan' = [plan EXCEPT ![p] = "legacy" \in schema]
    /\ Goto(p, "legacy")
    /\ UNCHANGED <<clock, command, schema, since, wake>>

\* and applies the others in one transaction, which fails on what another
\* process has created meanwhile.
ApplyLegacy(p) ==
    /\ pc[p] = "legacy"
    /\ \/ /\ plan[p] \/ "legacy" \notin schema
          /\ schema' = schema \cup {"legacy"}
          /\ Goto(p, IF Retries(p) THEN "canonical" ELSE "work")
       \/ /\ ~plan[p]
          /\ UNCHANGED schema
          /\ Goto(p, "failed")
    /\ plan' = [plan EXCEPT ![p] = FALSE]
    /\ UNCHANGED <<clock, command, since, wake>>

\* zed_orm_core::migrations::migrate takes its advisory lock, which the end of
\* the holder's session gives back,
LockCanonical(p) ==
    /\ pc[p] = "canonical"
    /\ \A o \in Processes : pc[o] # "migrating"
    /\ Goto(p, "migrating")
    /\ UNCHANGED <<clock, command, schema, since, wake, plan>>

\* and applies what is missing.
ApplyCanonical(p) ==
    /\ pc[p] = "migrating"
    /\ schema' = schema \cup {"canonical"}
    /\ IF command[p] = "migrate"
       THEN Goto(p, "done") /\ UNCHANGED <<since, wake>>
       ELSE EnterLoop(p, "read")
    /\ UNCHANGED <<clock, command, plan>>

\* The store is opened, the routers are merged, the listener is bound.
Serve(p) ==
    /\ pc[p] = "bind"
    /\ Goto(p, "serving") \/ Goto(p, "failed")
    /\ UNCHANGED <<clock, command, schema, since, wake, plan>>

\* The process is killed, or a statement of its migration fails.
Crash(p) ==
    /\ pc[p] \notin Ended \cup {"off"}
    /\ LeaveLoop(p, "failed")
    /\ plan' = [plan EXCEPT ![p] = FALSE]
    /\ UNCHANGED <<clock, command, schema>>

Starting(p) ==
    \/ Attempt(p) \/ PlanLegacy(p) \/ ApplyLegacy(p)
    \/ LockCanonical(p) \/ ApplyCanonical(p) \/ Serve(p)

=============================================================================
