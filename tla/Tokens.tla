------------------------------- MODULE Tokens -------------------------------
(***************************************************************************)
(* The life of a machine token: create_token and revoke_token of           *)
(* src/tokens.rs, run by hand beside the replicas, and require_token of    *)
(* src/auth.rs, which every package request begins with.                   *)
(*                                                                         *)
(* revoke_token reads the rows a name matches and then updates them one by *)
(* one, each update a statement of its own.  A request keeps the row it    *)
(* loaded; nothing looks at it again.                                      *)
(***************************************************************************)
EXTENDS Startup, FiniteSets

CONSTANTS
    TokenIds,  \* rows of the token table
    Names,     \* token names, not unique
    Lifetimes, \* --expires-in-days, None for no expiry
    Requests,  \* package requests
    None

ASSUME TokensAssumption ==
    /\ Lifetimes \subseteq (Nat \ {0}) \cup {None}
    /\ None \notin Nat

VARIABLES
    token,   \* the token table
    stamp,   \* the `now` a revocation writes
    report,  \* when it reported
    matches, \* rows it read and has not yet handled
    handled, \* rows it read and has handled
    cred,    \* the token a request presents
    acting,  \* where the request is
    loaded   \* when its row was loaded

cliVars == <<stamp, report, matches, handled>>
requestVars == <<cred, acting, loaded>>
vars == <<startupVars, token, cliVars, requestVars>>

Time == 0..MaxTime
TokenRow == [name : Names, expires : Nat \cup {None}, revoked : Time \cup {None}]

ASSUME NoRowAssumption == None \notin TokenRow

\* What an earlier create_token without --expires-in-days left.
IssuedRows == [name : Names, expires : {None}, revoked : {None}]

Init ==
    /\ StartupInit
    /\ token \in [TokenIds -> {None} \cup IssuedRows]
    /\ schema = {} => \A t \in TokenIds : token[t] = None
    /\ Cardinality({t \in TokenIds : token[t] = None})
          >= Cardinality({p \in Processes : command[p] = "create"})
    /\ stamp = [p \in Processes |-> 0]
    /\ report = [p \in Processes |-> None]
    /\ matches = [p \in Processes |-> {}]
    /\ handled = [p \in Processes |-> {}]
    /\ cred = [q \in Requests |-> None]
    /\ acting = [q \in Requests |-> "idle"]
    /\ loaded = [q \in Requests |-> 0]

Started(p) == Starting(p) /\ UNCHANGED <<token, cliVars, requestVars>>

\* create_token: the row is inserted under a fresh secret.
create_token(p) ==
    /\ pc[p] = "work" /\ command[p] = "create"
    /\ \E t \in TokenIds, n \in Names, life \in Lifetimes :
          /\ token[t] = None
          /\ token' = [token EXCEPT ![t] =
                 [name |-> n, revoked |-> None,
                  expires |-> IF life = None THEN None ELSE clock + life]]
    /\ Goto(p, "done")
    /\ UNCHANGED <<clock, command, schema, since, wake, plan, cliVars, requestVars>>

Named(n) == {t \in TokenIds : token[t] # None /\ token[t].name = n}

\* revoke_token: the query.  Each match is remembered with whether it was
\* revoked already.
FindMatches(p) ==
    /\ pc[p] = "work" /\ command[p] = "revoke"
    /\ \E n \in Names :
          /\ matches' = [matches EXCEPT ![p] =
                {[id |-> t, already |-> token[t].revoked # None] : t \in Named(n)}]
          /\ Goto(p, IF Named(n) = {} THEN "failed" ELSE "update")
    /\ stamp' = [stamp EXCEPT ![p] = clock]
    /\ UNCHANGED <<clock, command, schema, since, wake, plan, token, report, handled, requestVars>>

\* Mutant: every match is stamped again.
UpdateEveryMatch(p) ==
    \E m \in matches[p] :
       /\ token' = [token EXCEPT ![m.id].revoked = stamp[p]]
       /\ matches' = [matches EXCEPT ![p] = @ \ {m}]
       /\ handled' = [handled EXCEPT ![p] = @ \cup {m.id}]

\* One turn of the loop: a row that was not revoked when it was read is
\* stamped; `now` was taken once, after the query.
UpdateMatch(p) ==
    \E m \in matches[p] :
       /\ token' = IF m.already THEN token
                   ELSE [token EXCEPT ![m.id].revoked = stamp[p]]
       /\ matches' = [matches EXCEPT ![p] = @ \ {m}]
       /\ handled' = [handled EXCEPT ![p] = @ \cup {m.id}]

\* Mutant: the command reports after the first row.
RevokeFirst(p) ==
    /\ pc[p] = "update"
    /\ UpdateMatch(p)
    /\ Goto(p, "done")
    /\ report' = [report EXCEPT ![p] = clock]
    /\ UNCHANGED <<clock, command, schema, since, wake, plan, stamp, requestVars>>

revoke_token(p) ==
    /\ pc[p] = "update"
    /\ \/ UpdateMatch(p) /\ UNCHANGED <<pc, report>>
       \/ /\ matches[p] = {}
          /\ Goto(p, "done")
          /\ report' = [report EXCEPT ![p] = clock]
          /\ UNCHANGED <<token, matches, handled>>
    /\ UNCHANGED <<clock, command, schema, since, wake, plan, stamp, requestVars>>

Killed(p) ==
    /\ Crash(p)
    /\ matches' = [matches EXCEPT ![p] = {}]
    /\ handled' = [handled EXCEPT ![p] = {}]
    /\ stamp' = [stamp EXCEPT ![p] = 0]
    /\ UNCHANGED <<token, report, requestVars>>

\* Mutant: a token is still good at the instant it expires, and after.
ValidUnlessRevoked(t) == token[t] # None /\ token[t].revoked = None

\* The conditions of require_token.
Valid(t) ==
    /\ token[t] # None
    /\ token[t].revoked = None
    /\ token[t].expires = None \/ token[t].expires > clock

\* require_token at the head of a handler.  The row's facts are used for the
\* rest of the request; a row that is not there, on a replica that serves
\* before the table exists too, is refused.
require_token(q) ==
    /\ acting[q] = "idle"
    /\ \E p \in Processes : pc[p] = "serving"
    /\ \E t \in TokenIds :
          /\ cred' = [cred EXCEPT ![q] = t]
          /\ acting' = [acting EXCEPT ![q] =
                           IF Valid(t) THEN "authorized" ELSE "unauthorized"]
    /\ loaded' = [loaded EXCEPT ![q] = clock]
    /\ UNCHANGED <<startupVars, token, cliVars>>

\* The handler writes under the authority it was given.
Act(q) ==
    /\ acting[q] = "authorized"
    /\ acting' = [acting EXCEPT ![q] = "acted"]
    /\ UNCHANGED <<startupVars, token, cliVars, cred, loaded>>

Next ==
    \/ (Tick \/ \E p \in Processes : run(p))
          /\ UNCHANGED <<token, cliVars, requestVars>>
    \/ \E p \in Processes :
          \/ Started(p) \/ create_token(p) \/ FindMatches(p)
          \/ revoke_token(p) \/ Killed(p)
    \/ \E q \in Requests : require_token(q) \/ Act(q)

Progress(p) ==
    Started(p) \/ create_token(p) \/ FindMatches(p) \/ revoke_token(p)

Spec == Init /\ [][Next]_vars

\* The runtime polls a process that can go on, and clocks do not stop.
FairSpec ==
    /\ Spec
    /\ WF_vars(Tick /\ UNCHANGED <<token, cliVars, requestVars>>)
    /\ \A p \in Processes : WF_vars(Progress(p))

-----------------------------------------------------------------------------
\* A process that was started serves, finishes or fails; none hangs on a
\* database that stays away, nor on the lock another process migrates under,
\* even if that one is killed.
EveryStartEnds ==
    \A p \in Processes : pc[p] = "db" ~> pc[p] \in Ended

\* Authority outlives its token by one request, never longer.  A request that
\* holds a token a finished revoke_token matched had loaded it before that
\* command reported, and no request loaded a token past its expiry.
StaleAuthorityIsInFlight ==
    \A q \in Requests : acting[q] \in {"authorized", "acted"} =>
        /\ \A p \in Processes :
              cred[q] \in handled[p] /\ report[p] # None => loaded[q] <= report[p]
        /\ token[cred[q]].expires = None \/ token[cred[q]].expires > loaded[q]

\* Once revoke_token has reported, every row it matched is revoked, whatever
\* other commands, migrations and crashes there were, and no later request
\* is authorized by one.
RevokeIsEffective ==
    \A p \in Processes : report[p] # None =>
        \A t \in handled[p] \cup {m.id : m \in matches[p]} : token[t].revoked # None

\* A revocation is never taken back, and its time is kept, except by a
\* command that had read the row before the revocation.
RevocationTimeIsKept ==
    [][\A t \in TokenIds :
          token[t] # None /\ token[t].revoked # None =>
             /\ token'[t] # None /\ token'[t].revoked # None
             /\ \/ token'[t] = token[t]
                \/ \E p \in Processes : [id |-> t, already |-> FALSE] \in matches[p]]_vars

(***************************************************************************)
(* The inductive invariant: what a revocation and a request rely on        *)
(* between their statements.                                               *)
(***************************************************************************)

Labels == Connecting \cup Ended \cup {"off", "plan", "legacy", "canonical", "migrating", "bind",
                                  "work", "update"}
Match == [id : TokenIds, already : BOOLEAN]

TokensTypeOK ==
    /\ clock \in Time
    /\ pc \in [Processes -> Labels]
    /\ token \in [TokenIds -> TokenRow \cup {None}]
    /\ stamp \in [Processes -> Time]
    /\ report \in [Processes -> Time \cup {None}]
    /\ matches \in [Processes -> SUBSET Match]
    /\ handled \in [Processes -> SUBSET TokenIds]
    /\ cred \in [Requests -> TokenIds \cup {None}]
    /\ acting \in [Requests -> {"idle", "authorized", "unauthorized", "acted"}]
    /\ loaded \in [Requests -> Time]

\* A command has rows left to handle only while it updates, and has reported
\* only when it is done.
RevocationsAreOrderly ==
    \A p \in Processes : /\ matches[p] # {} => pc[p] = "update"
                         /\ report[p] # None => pc[p] = "done"

\* A match is a row that exists and, if it was read as revoked, still is; a
\* handled row is revoked.
MatchesAreRows ==
    \A p \in Processes :
        /\ \A m \in matches[p] : /\ token[m.id] # None
                                 /\ m.already => token[m.id].revoked # None
        /\ \A t \in handled[p] : token[t] # None /\ token[t].revoked # None

\* A request that was authorized presented a row, loaded it in the past and
\* before it expired, and before any command that revoked it had reported.
AuthorityWasLoaded ==
    \A q \in Requests : acting[q] \in {"authorized", "acted"} =>
        /\ cred[q] \in TokenIds /\ token[cred[q]] # None
        /\ loaded[q] <= clock
        /\ token[cred[q]].expires = None \/ token[cred[q]].expires > loaded[q]
        /\ \A p \in Processes :
              cred[q] \in handled[p] /\ report[p] # None => loaded[q] <= report[p]

IInv ==
    /\ TokensTypeOK
    /\ RevocationsAreOrderly
    /\ MatchesAreRows
    /\ AuthorityWasLoaded

=============================================================================
