---------------------------- MODULE AccessProofs ----------------------------
(***************************************************************************)
(* Who gets in, and what they are shown.                                   *)
(*                                                                         *)
(* The first half is about Tokens, for any number of processes, rows and   *)
(* requests: a revocation that was reported stays effective, and authority *)
(* outlives its token by the request that loaded it, never longer.         *)
(*                                                                         *)
(* The second half is about Account and GraphReads, for any number of      *)
(* calls, users and settings: rows and graphs go to those who had a role   *)
(* over them during the request, whatever changes between the queries.     *)
(***************************************************************************)
EXTENDS Tokens, GraphReads, SequenceTheorems, TLAPS


-----------------------------------------------------------------------------
(* What a step of each kind leaves alone.                                  *)

\* A rewrite of rows that takes back no revocation, removes no row and changes
\* no expiry.
RowsKept ==
    \A t \in TokenIds : token[t] # None =>
        /\ token'[t] # None
        /\ token'[t].expires = token[t].expires
        /\ token[t].revoked # None => token'[t].revoked # None

\* No time before now is the absent one.
LEMMA TimeIsNumber == \A n \in Time : n \in Nat /\ n # None
BY StartupAssumption, TokensAssumption DEF Time

\* The steps by which a process comes up concern that process alone, and no
\* command that is updating or has ended.
LEMMA StartingMoves ==
    ASSUME TokensTypeOK, NEW p \in Processes, Starting(p) \/ run(p)
    PROVE  /\ pc' \in [Processes -> Labels]
           /\ \A o \in Processes : o # p => pc'[o] = pc[o]
           /\ pc[p] \notin {"update", "done"}
           /\ clock' = clock
<1>1. pc \in [Processes -> Labels]
  BY DEF TokensTypeOK
<1>2. ASSUME run(p)
      PROVE  /\ pc[p] = "off" /\ clock' = clock
             /\ pc' = [pc EXCEPT ![p] = "db"]
  BY <1>2 DEF run, EnterLoop, Goto
<1>3. ASSUME Attempt(p)
      PROVE  /\ pc[p] \in Connecting /\ clock' = clock
             /\ \E l \in Labels : pc' = [pc EXCEPT ![p] = l]
  <2>1. pc[p] \in Connecting /\ clock' = clock
    BY <1>3 DEF Attempt
  <2>2. CASE Connected(p)
    <3>1. \E l \in {"write", "plan", "read", "bind"} : pc' = [pc EXCEPT ![p] = l]
      BY <2>1, <2>2 DEF Connected, EnterLoop, LeaveLoop, Goto, Connecting
    <3> QED
      BY <2>1, <3>1 DEF Labels, Connecting
  <2>3. CASE RetryOrGiveUp(p)
    <3>1. pc' = [pc EXCEPT ![p] = "failed"] \/ pc' = pc
      BY <2>3 DEF RetryOrGiveUp, LeaveLoop, Goto
    <3>2. pc = [pc EXCEPT ![p] = pc[p]] /\ pc[p] \in Labels
      BY <1>1
    <3> QED
      BY <2>1, <3>1, <3>2 DEF Labels, Ended
  <2> QED
    BY <1>3, <2>2, <2>3 DEF Attempt
<1>4. ASSUME PlanLegacy(p) \/ ApplyLegacy(p) \/ LockCanonical(p) \/ ApplyCanonical(p) \/ Serve(p)
      PROVE  /\ pc[p] \in {"plan", "legacy", "canonical", "migrating", "bind"} /\ clock' = clock
             /\ \E l \in Labels : pc' = [pc EXCEPT ![p] = l]
  <2>1. /\ pc[p] \in {"plan", "legacy", "canonical", "migrating", "bind"} /\ clock' = clock
        /\ \E l \in {"legacy", "canonical", "migrating", "work", "failed", "done", "read", "serving"} :
              pc' = [pc EXCEPT ![p] = l]
    BY <1>4 DEF PlanLegacy, ApplyLegacy, LockCanonical, ApplyCanonical, Serve, EnterLoop, Goto
  <2> QED
    BY <2>1 DEF Labels, Ended, Connecting
<1>5. /\ pc[p] \in Connecting \cup {"off", "plan", "legacy", "canonical", "migrating", "bind"}
      /\ clock' = clock
      /\ \E l \in Labels : pc' = [pc EXCEPT ![p] = l]
  BY <1>2, <1>3, <1>4 DEF Starting, Labels, Connecting
<1> QED
  BY <1>1, <1>5 DEF Connecting

\* Whatever leaves the commands and the requests alone, and no row worse off,
\* keeps what requests rely on.
LEMMA AuthorityKept ==
    ASSUME IInv, clock' \in Time, clock' >= clock, RowsKept,
           UNCHANGED <<handled, report, requestVars>>
    PROVE  AuthorityWasLoaded'
<1>1. UNCHANGED <<cred, acting, loaded>>
  BY DEF requestVars
<1>2. clock \in Nat /\ clock' \in Nat /\ \A q \in Requests : loaded[q] \in Nat
  BY TimeIsNumber DEF IInv, TokensTypeOK
<1>3. \A q \in Requests : loaded[q] <= clock => loaded[q] <= clock'
  BY <1>2
<1> QED
  BY <1>1, <1>3 DEF IInv, AuthorityWasLoaded, RowsKept

\* Nothing is known of any row yet.
LEMMA Initially == Init => IInv
<1> SUFFICES ASSUME Init PROVE IInv
  OBVIOUS
<1>1. 0 \in Time
  BY StartupAssumption DEF Time
<1>2. token \in [TokenIds -> TokenRow \cup {None}]
  BY DEF Init, IssuedRows, TokenRow
<1>3. TokensTypeOK
  BY <1>1, <1>2 DEF Init, StartupInit, TokensTypeOK, Labels
<1>4. RevocationsAreOrderly /\ MatchesAreRows /\ AuthorityWasLoaded
  BY DEF Init, StartupInit, RevocationsAreOrderly, MatchesAreRows, AuthorityWasLoaded
<1> QED
  BY <1>3, <1>4 DEF IInv

\* Time passes and processes come up; the tables stay as they are.
LEMMA IInv_Start ==
    ASSUME IInv, Tick \/ \E p \in Processes : run(p) \/ Starting(p),
           UNCHANGED <<token, cliVars, requestVars>>
    PROVE  IInv' /\ token' = token
<1>1. UNCHANGED <<token, stamp, report, matches, handled, cred, acting, loaded>>
  BY DEF cliVars, requestVars
<1>2. /\ pc' \in [Processes -> Labels]
      /\ \A p \in Processes : pc[p] \in {"update", "done"} => pc'[p] = pc[p]
      /\ clock' \in Time /\ clock' >= clock
  <2>1. CASE Tick
    <3>1. clock < MaxTime /\ clock' = clock + 1 /\ pc' = pc
      BY <2>1 DEF Tick
    <3> QED
      BY <3>1, StartupAssumption DEF IInv, TokensTypeOK, Time
  <2>2. ASSUME NEW p \in Processes, run(p) \/ Starting(p)
        PROVE  /\ pc' \in [Processes -> Labels]
               /\ \A o \in Processes : pc[o] \in {"update", "done"} => pc'[o] = pc[o]
               /\ clock' = clock
    <3>1. TokensTypeOK
      BY DEF IInv
    <3>2. /\ pc' \in [Processes -> Labels]
          /\ \A o \in Processes : o # p => pc'[o] = pc[o]
          /\ pc[p] \notin {"update", "done"}
          /\ clock' = clock
      BY <2>2, <3>1, StartingMoves
    <3> QED
      BY <3>2
  <2> QED
    BY <2>1, <2>2, TimeIsNumber DEF IInv, TokensTypeOK
<1>3. TokensTypeOK'
  BY <1>1, <1>2 DEF IInv, TokensTypeOK
<1>4. RevocationsAreOrderly' /\ MatchesAreRows'
  BY <1>1, <1>2 DEF IInv, RevocationsAreOrderly, MatchesAreRows
<1>5. AuthorityWasLoaded'
  BY <1>1, <1>2, AuthorityKept DEF RowsKept, requestVars
<1> QED
  BY <1>1, <1>3, <1>4, <1>5 DEF IInv

\* A created row was no row before: nobody matched it, nobody presented it.
LEMMA IInv_create_token ==
    ASSUME IInv, NEW p \in Processes, create_token(p)
    PROVE  IInv' /\ \A t \in TokenIds : token[t] # None => token'[t] = token[t]
<1>1. PICK t \in TokenIds, n \in Names, life \in Lifetimes :
          /\ token[t] = None
          /\ token' = [token EXCEPT ![t] =
                 [name |-> n, revoked |-> None,
                  expires |-> IF life = None THEN None ELSE clock + life]]
  BY DEF create_token
<1>2. /\ UNCHANGED <<clock, stamp, report, matches, handled, cred, acting, loaded>>
      /\ pc[p] = "work" /\ pc' = [pc EXCEPT ![p] = "done"]
  BY DEF create_token, Goto, cliVars, requestVars
<1>3. [name |-> n, revoked |-> None,
       expires |-> IF life = None THEN None ELSE clock + life] \in TokenRow
  BY TokensAssumption, TimeIsNumber DEF TokenRow, IInv, TokensTypeOK
<1>4. \A s \in TokenIds : token[s] # None => token'[s] = token[s]
  BY <1>1 DEF IInv, TokensTypeOK
<1>5. token' \in [TokenIds -> TokenRow \cup {None}]
  BY <1>1, <1>3 DEF IInv, TokensTypeOK
<1>6. TokensTypeOK'
  BY <1>2, <1>5 DEF IInv, TokensTypeOK, Labels, Ended
<1>7. RevocationsAreOrderly'
  BY <1>2 DEF IInv, TokensTypeOK, RevocationsAreOrderly
<1>8. MatchesAreRows'
  <2>1. /\ \A o \in Processes : \A m \in matches[o] : m.id \in TokenIds
        /\ \A o \in Processes : handled[o] \subseteq TokenIds
    BY DEF IInv, TokensTypeOK, Match
  <2> QED
    BY <1>2, <1>4, <2>1 DEF IInv, MatchesAreRows
<1>9. AuthorityWasLoaded'
  BY <1>2, <1>4, TimeIsNumber, AuthorityKept DEF RowsKept, requestVars, IInv, TokensTypeOK
<1> QED
  BY <1>4, <1>6, <1>7, <1>8, <1>9 DEF IInv

\* The query of a revocation: its matches are rows as they are now.
LEMMA IInv_FindMatches ==
    ASSUME IInv, NEW p \in Processes, FindMatches(p)
    PROVE  IInv' /\ token' = token
<1>1. PICK n \in Names :
          /\ matches' = [matches EXCEPT ![p] =
                {[id |-> t, already |-> token[t].revoked # None] : t \in Named(n)}]
          /\ Goto(p, IF Named(n) = {} THEN "failed" ELSE "update")
  BY DEF FindMatches
<1>2. /\ UNCHANGED <<clock, token, report, handled, cred, acting, loaded>>
      /\ pc[p] = "work" /\ stamp' = [stamp EXCEPT ![p] = clock]
  BY DEF FindMatches, requestVars
<1>3. /\ \A m \in matches'[p] : /\ m \in Match /\ token[m.id] # None
                                /\ m.already => token[m.id].revoked # None
      /\ matches'[p] # {} => Named(n) # {}
      /\ \A o \in Processes : o # p => matches'[o] = matches[o]
  <2>1. /\ matches'[p] = {[id |-> t, already |-> token[t].revoked # None] : t \in Named(n)}
        /\ \A o \in Processes : o # p => matches'[o] = matches[o]
    BY <1>1 DEF IInv, TokensTypeOK
  <2>2. ASSUME NEW m \in matches'[p]
        PROVE  /\ m \in Match /\ token[m.id] # None /\ Named(n) # {}
               /\ m.already => token[m.id].revoked # None
    <3>1. PICK t \in Named(n) : m = [id |-> t, already |-> token[t].revoked # None]
      BY <2>1, <2>2
    <3>2. t \in TokenIds /\ token[t] # None
      BY DEF Named
    <3>3. m.id = t /\ m.already = (token[t].revoked # None)
      BY <3>1
    <3>4. m \in Match
      BY <3>1, <3>2 DEF Match
    <3> QED
      BY <3>2, <3>3, <3>4
  <2> QED
    BY <2>1, <2>2
<1>4. matches' \in [Processes -> SUBSET Match]
  BY <1>1, <1>3 DEF IInv, TokensTypeOK
<1>5. pc' \in [Processes -> Labels] /\ (Named(n) # {} => pc'[p] = "update")
      /\ \A o \in Processes : o # p => pc'[o] = pc[o]
  BY <1>1 DEF Goto, IInv, TokensTypeOK, Labels, Ended
<1>6. TokensTypeOK'
  BY <1>2, <1>4, <1>5 DEF IInv, TokensTypeOK
<1>7. RevocationsAreOrderly'
  BY <1>2, <1>3, <1>5 DEF IInv, RevocationsAreOrderly
<1>8. MatchesAreRows'
  BY <1>2, <1>3 DEF IInv, MatchesAreRows
<1>9. AuthorityWasLoaded'
  BY <1>2 DEF IInv, AuthorityWasLoaded
<1> QED
  BY <1>2, <1>6, <1>7, <1>8, <1>9 DEF IInv

\* One row is stamped, or was found revoked: either way it is revoked now.
LEMMA IInv_UpdateMatch ==
    ASSUME IInv, NEW p \in Processes, pc[p] = "update", UpdateMatch(p),
           UNCHANGED <<clock, pc, stamp, report, requestVars>>
    PROVE  /\ IInv'
           /\ \E s \in TokenIds :
                 /\ \A t \in TokenIds : t # s => token'[t] = token[t]
                 /\ token'[s] # None /\ token'[s].revoked # None
                 /\ token'[s] = token[s] \/ [id |-> s, already |-> FALSE] \in matches[p]
<1>1. PICK m \in matches[p] :
       /\ token' = IF m.already THEN token
                   ELSE [token EXCEPT ![m.id].revoked = stamp[p]]
       /\ matches' = [matches EXCEPT ![p] = @ \ {m}]
       /\ handled' = [handled EXCEPT ![p] = @ \cup {m.id}]
  BY DEF UpdateMatch
<1>2. UNCHANGED <<clock, pc, stamp, report, cred, acting, loaded>>
  BY DEF requestVars
<1>3. m \in Match /\ m.id \in TokenIds /\ m.already \in BOOLEAN
  <2>1. m \in Match
    BY DEF IInv, TokensTypeOK
  <2> QED
    BY <2>1 DEF Match
<1>4. token[m.id] \in TokenRow /\ token[m.id] # None
  BY <1>3 DEF IInv, TokensTypeOK, MatchesAreRows
<1>5. stamp[p] \in Time /\ stamp[p] # None
  BY TimeIsNumber DEF IInv, TokensTypeOK
<1>6. /\ token' \in [TokenIds -> TokenRow \cup {None}]
      /\ \A t \in TokenIds : t # m.id => token'[t] = token[t]
      /\ token'[m.id] # None /\ token'[m.id].revoked # None
      /\ token'[m.id].expires = token[m.id].expires
      /\ m.already => token' = token
  <2>1. CASE m.already
    BY <1>1, <1>4, <2>1 DEF IInv, TokensTypeOK, MatchesAreRows
  <2>2. CASE ~m.already
    <3> DEFINE r == [token[m.id] EXCEPT !.revoked = stamp[p]]
    <3>1. r \in TokenRow /\ r.revoked = stamp[p] /\ r.expires = token[m.id].expires
      BY <1>4, <1>5 DEF TokenRow
    <3>2. token' = [token EXCEPT ![m.id] = r]
      BY <1>1, <2>2
    <3>3. r # None
      BY <3>1, NoRowAssumption
    <3> HIDE DEF r
    <3> QED
      BY <1>3, <1>5, <2>2, <3>1, <3>2, <3>3 DEF IInv, TokensTypeOK
  <2> QED
    BY <2>1, <2>2
<1>7. RowsKept
  BY <1>6 DEF RowsKept
<1>8. /\ matches'[p] = matches[p] \ {m} /\ handled'[p] = handled[p] \cup {m.id}
      /\ \A o \in Processes : o # p => matches'[o] = matches[o] /\ handled'[o] = handled[o]
      /\ matches' \in [Processes -> SUBSET Match]
      /\ handled' \in [Processes -> SUBSET TokenIds]
  <2>1. /\ matches \in [Processes -> SUBSET Match]
        /\ handled \in [Processes -> SUBSET TokenIds]
    BY DEF IInv, TokensTypeOK
  <2> QED
    BY <1>1, <1>3, <2>1
<1>9. TokensTypeOK'
  BY <1>2, <1>6, <1>8 DEF IInv, TokensTypeOK
<1>10. RevocationsAreOrderly'
  BY <1>2, <1>8 DEF IInv, RevocationsAreOrderly
<1>11. MatchesAreRows'
  <2>1. \A o \in Processes : /\ \A n \in matches[o] : n.id \in TokenIds
                             /\ handled[o] \subseteq TokenIds
    BY DEF IInv, TokensTypeOK, Match
  <2>2. \A o \in Processes : \A n \in matches'[o] :
           token'[n.id] # None /\ (n.already => token'[n.id].revoked # None)
    BY <1>7, <1>8, <2>1 DEF IInv, MatchesAreRows, RowsKept
  <2>3. \A o \in Processes : \A t \in handled'[o] : token'[t] # None /\ token'[t].revoked # None
    BY <1>6, <1>7, <1>8, <2>1 DEF IInv, MatchesAreRows, RowsKept
  <2> QED
    BY <2>2, <2>3 DEF MatchesAreRows
<1>12. AuthorityWasLoaded'
  <2>1. report[p] = None
    BY DEF IInv, RevocationsAreOrderly
  <2> QED
    BY <1>2, <1>7, <1>8, <2>1 DEF IInv, AuthorityWasLoaded, RowsKept
<1>13. token'[m.id] = token[m.id] \/ [id |-> m.id, already |-> FALSE] \in matches[p]
  <2>1. m = [id |-> m.id, already |-> m.already]
    BY <1>3 DEF Match
  <2> QED
    BY <1>3, <1>6, <2>1
<1> QED
  BY <1>3, <1>6, <1>9, <1>10, <1>11, <1>12, <1>13 DEF IInv

\* The report is made when nothing is left to handle, and not before any
\* request that still holds one of the rows loaded it.
LEMMA IInv_Report ==
    ASSUME IInv, NEW p \in Processes, pc[p] = "update", matches[p] = {}, Goto(p, "done"),
           report' = [report EXCEPT ![p] = clock],
           UNCHANGED <<clock, token, matches, handled, stamp, requestVars>>
    PROVE  IInv'
<1>1. /\ UNCHANGED <<clock, token, matches, handled, stamp, cred, acting, loaded>>
      /\ pc' = [pc EXCEPT ![p] = "done"]
  BY DEF requestVars, Goto
<1>2. /\ report'[p] = clock /\ pc'[p] = "done"
      /\ \A o \in Processes : o # p => report'[o] = report[o] /\ pc'[o] = pc[o]
  BY <1>1 DEF IInv, TokensTypeOK
<1>3. TokensTypeOK'
  BY <1>1 DEF IInv, TokensTypeOK, Labels, Ended
<1>4. RevocationsAreOrderly' /\ MatchesAreRows'
  BY <1>1, <1>2 DEF IInv, RevocationsAreOrderly, MatchesAreRows
<1>5. AuthorityWasLoaded'
  BY <1>1, <1>2 DEF IInv, AuthorityWasLoaded
<1> QED
  BY <1>3, <1>4, <1>5 DEF IInv

\* A killed command forgets what it was doing; a command that has reported
\* can no longer be killed.
LEMMA IInv_Killed ==
    ASSUME IInv, NEW p \in Processes, Killed(p)
    PROVE  IInv' /\ token' = token
<1>1. /\ pc[p] \notin Ended /\ pc' = [pc EXCEPT ![p] = "failed"]
      /\ matches' = [matches EXCEPT ![p] = {}]
      /\ handled' = [handled EXCEPT ![p] = {}]
      /\ stamp' = [stamp EXCEPT ![p] = 0]
      /\ UNCHANGED <<clock, token, report, cred, acting, loaded>>
  BY DEF Killed, Crash, LeaveLoop, Goto, requestVars
<1>2. report[p] = None
  BY <1>1 DEF IInv, RevocationsAreOrderly, Ended
<1>3. /\ matches'[p] = {} /\ handled'[p] = {}
      /\ \A o \in Processes : o # p => /\ matches'[o] = matches[o]
                                       /\ handled'[o] = handled[o]
                                       /\ pc'[o] = pc[o]
  BY <1>1 DEF IInv, TokensTypeOK
<1>4. 0 \in Time
  BY StartupAssumption DEF Time
<1>5. TokensTypeOK'
  BY <1>1, <1>4 DEF IInv, TokensTypeOK, Labels, Ended
<1>6. RevocationsAreOrderly' /\ MatchesAreRows'
  BY <1>1, <1>2, <1>3 DEF IInv, RevocationsAreOrderly, MatchesAreRows
<1>7. AuthorityWasLoaded'
  BY <1>1, <1>2, <1>3 DEF IInv, AuthorityWasLoaded
<1> QED
  BY <1>1, <1>5, <1>6, <1>7 DEF IInv

\* require_token authorizes by a row nobody has handled: it is not revoked.
LEMMA IInv_Request ==
    ASSUME IInv, NEW q \in Requests, require_token(q) \/ Act(q)
    PROVE  IInv' /\ token' = token
<1>1. UNCHANGED <<clock, pc, token, stamp, report, matches, handled>>
  BY DEF require_token, Act, startupVars, cliVars
<1>2. RevocationsAreOrderly' /\ MatchesAreRows'
  BY <1>1 DEF IInv, RevocationsAreOrderly, MatchesAreRows
<1>3. CASE Act(q)
  <2>1. acting[q] = "authorized" /\ acting' = [acting EXCEPT ![q] = "acted"] /\ UNCHANGED <<cred, loaded>>
    BY <1>3 DEF Act
  <2>2. TokensTypeOK' /\ AuthorityWasLoaded'
    BY <1>1, <2>1 DEF IInv, TokensTypeOK, AuthorityWasLoaded
  <2> QED
    BY <1>1, <1>2, <2>2 DEF IInv
<1>4. CASE require_token(q)
  <2>1. PICK t \in TokenIds :
          /\ cred' = [cred EXCEPT ![q] = t]
          /\ acting' = [acting EXCEPT ![q] =
                           IF Valid(t) THEN "authorized" ELSE "unauthorized"]
    BY <1>4 DEF require_token
  <2>2. loaded' = [loaded EXCEPT ![q] = clock]
    BY <1>4 DEF require_token
  <2>3. TokensTypeOK'
    BY <1>1, <2>1, <2>2 DEF IInv, TokensTypeOK
  <2>4. /\ cred'[q] = t /\ loaded'[q] = clock /\ (acting'[q] # "unauthorized" => Valid(t))
        /\ \A o \in Requests : o # q => /\ cred'[o] = cred[o] /\ loaded'[o] = loaded[o]
                                        /\ acting'[o] = acting[o]
    BY <2>1, <2>2 DEF IInv, TokensTypeOK
  <2>5. clock <= clock
    BY TimeIsNumber DEF IInv, TokensTypeOK
  <2>6. Valid(t) => /\ token[t] # None /\ (token[t].expires = None \/ token[t].expires > clock)
                    /\ \A p \in Processes : t \notin handled[p]
    BY DEF Valid, IInv, MatchesAreRows
  <2>7. AuthorityWasLoaded'
    BY <1>1, <2>4, <2>5, <2>6 DEF IInv, AuthorityWasLoaded
  <2> QED
    BY <1>1, <1>2, <2>3, <2>7 DEF IInv
<1> QED
  BY <1>3, <1>4

-----------------------------------------------------------------------------
(* The theorems.                                                           *)

\* What a step may do to a revoked row: nothing, or stamp it again for a
\* command that read it before.
Stamps ==
    \A t \in TokenIds :
       token[t] # None /\ token[t].revoked # None =>
          /\ token'[t] # None /\ token'[t].revoked # None
          /\ \/ token'[t] = token[t]
             \/ \E p \in Processes : [id |-> t, already |-> FALSE] \in matches[p]

\* Every step keeps the inductive invariant and every revocation.
LEMMA IInv_Step ==
    ASSUME IInv, [Next]_vars
    PROVE  IInv' /\ Stamps
<1>1. CASE UNCHANGED vars
  <2>1. UNCHANGED <<clock, pc, token, stamp, report, matches, handled, cred, acting, loaded>>
    BY <1>1 DEF vars, startupVars, cliVars, requestVars
  <2> QED
    BY <2>1 DEF IInv, TokensTypeOK, RevocationsAreOrderly, MatchesAreRows, AuthorityWasLoaded, Stamps
<1>2. ASSUME token' = token PROVE Stamps
  BY <1>2 DEF Stamps
<1>3. ASSUME NEW p \in Processes, revoke_token(p) PROVE IInv' /\ Stamps
  <2>1. pc[p] = "update" /\ UNCHANGED <<clock, stamp, requestVars>>
    BY <1>3 DEF revoke_token
  <2>2. CASE UpdateMatch(p) /\ UNCHANGED <<pc, report>>
    BY <2>1, <2>2, IInv_UpdateMatch DEF Stamps
  <2>3. CASE /\ matches[p] = {} /\ Goto(p, "done")
             /\ report' = [report EXCEPT ![p] = clock] /\ UNCHANGED <<token, matches, handled>>
    BY <1>2, <2>1, <2>3, IInv_Report
  <2> QED
    BY <1>3, <2>2, <2>3 DEF revoke_token
<1>4. ASSUME NEW p \in Processes, create_token(p) PROVE IInv' /\ Stamps
  BY <1>4, IInv_create_token DEF Stamps
<1>5. ASSUME NEW p \in Processes, Started(p) \/ FindMatches(p) \/ Killed(p) PROVE IInv' /\ Stamps
  BY <1>2, <1>5, IInv_Start, IInv_FindMatches, IInv_Killed DEF Started
<1>6. CASE (Tick \/ \E p \in Processes : run(p)) /\ UNCHANGED <<token, cliVars, requestVars>>
  BY <1>2, <1>6, IInv_Start
<1>7. ASSUME NEW q \in Requests, require_token(q) \/ Act(q) PROVE IInv' /\ Stamps
  BY <1>2, <1>7, IInv_Request
<1> QED
  BY <1>1, <1>3, <1>4, <1>5, <1>6, <1>7 DEF Next

\* What commands and requests rely on between their statements holds
\* throughout, for any number of them.
THEOREM Invariance == Spec => []IInv
<1>1. IInv /\ [Next]_vars => IInv'
  BY IInv_Step
<1> QED
  BY <1>1, Initially, PTL DEF Spec

\* Once revoke_token has reported, every row it matched is revoked and stays
\* so, whatever other commands, migrations and crashes there were.
THEOREM RevokedForGood == Spec => []RevokeIsEffective
<1>1. IInv => RevokeIsEffective
  BY DEF IInv, RevocationsAreOrderly, MatchesAreRows, RevokeIsEffective
<1> QED
  BY <1>1, Invariance, PTL

\* A request holds the authority of a revoked or expired row only if
\* require_token loaded it before the report, and before the expiry.
THEOREM AuthorityIsInFlight == Spec => []StaleAuthorityIsInFlight
<1>1. IInv => StaleAuthorityIsInFlight
  BY DEF IInv, AuthorityWasLoaded, StaleAuthorityIsInFlight
<1> QED
  BY <1>1, Invariance, PTL

\* No step takes a revocation back, and its time is rewritten only by a
\* command that had read the row before it was revoked.
THEOREM RevocationTime == Spec => RevocationTimeIsKept
<1>1. IInv /\ [Next]_vars =>
        [\A t \in TokenIds :
            token[t] # None /\ token[t].revoked # None =>
               /\ token'[t] # None /\ token'[t].revoked # None
               /\ \/ token'[t] = token[t]
                  \/ \E p \in Processes : [id |-> t, already |-> FALSE] \in matches[p]]_vars
  BY IInv_Step DEF Stamps
<1> QED
  BY <1>1, Invariance, PTL DEF Spec, RevocationTimeIsKept


-----------------------------------------------------------------------------
(* The account API and the dependency graphs: the order of the queries.    *)


\* The handlers read in this order: the row first, then the roles, and none
\* that reads roles writes.
LEMMA ReadsOrder ==
    ASSUME NEW op \in DOMAIN Reads
    PROVE  /\ Reads[op] \in Seq(ReadSteps)
           /\ \A i \in 1..Len(Reads[op]) :
                 /\ Reads[op][i] = "package" => i = 1
                 /\ Reads[op][i] \in {"orgs", "org_role", "project_role", "lists", "show"}
                       => "write" \notin Range(Reads[op])
                 /\ op = "update_package_settings" /\ Reads[op][i] = "write" => i > 1
                 /\ op = "package_settings" /\ Reads[op][i] # "package" => i > 1
                 /\ Reads[op][i] = "project_role" =>
                       op \in {"home", "org_dashboard", "project_settings", "package_settings"}
                 /\ Reads[op][i] = "lists" => op \in {"home", "search", "org_dashboard"}
                 /\ Reads[op][i] = "show" => op \in {"project_settings", "package_settings"}
                 /\ op = "org_dashboard" /\ i = 2 => Reads[op][i] = "org_role"
                 /\ op = "org_dashboard" /\ i > 2 => Reads[op][i] \notin {"orgs", "org_role"}
                 /\ op = "org_dashboard" /\ Reads[op][i] = "lists" => i > 2
<1>1. op \in {"me", "update_user_settings", "home", "search", "create_org", "org_dashboard",
              "invite_org_member", "create_project", "project_settings",
              "invite_project_member", "create_package", "package_settings",
              "update_package_settings", "make_package_public", "add_package_license",
              "register_package_upload"}
  BY DEF Reads
<1> DEFINE Orderly(steps) ==
              /\ steps \in Seq(ReadSteps)
              /\ \A i \in 1..Len(steps) :
                 /\ steps[i] = "package" => i = 1
                 /\ steps[i] \in {"orgs", "org_role", "project_role", "lists", "show"}
                       => "write" \notin Range(steps)
                 /\ op = "update_package_settings" /\ steps[i] = "write" => i > 1
                 /\ op = "package_settings" /\ steps[i] # "package" => i > 1
                 /\ steps[i] = "project_role" =>
                       op \in {"home", "org_dashboard", "project_settings", "package_settings"}
                 /\ steps[i] = "lists" => op \in {"home", "search", "org_dashboard"}
                 /\ steps[i] = "show" => op \in {"project_settings", "package_settings"}
                 /\ op = "org_dashboard" /\ i = 2 => steps[i] = "org_role"
                 /\ op = "org_dashboard" /\ i > 2 => steps[i] \notin {"orgs", "org_role"}
                 /\ op = "org_dashboard" /\ steps[i] = "lists" => i > 2
<1>2. CASE op = "me"
  <2>1. Reads[op] = <<>>
    BY <1>2 DEF Reads
  <2>2. Orderly(<<>>)
    BY <1>2 DEF ReadSteps
  <2> QED
    BY <2>1, <2>2
<1>3. CASE op \in {"update_user_settings", "create_org", "invite_org_member", "create_project",
                   "invite_project_member", "make_package_public", "add_package_license"}
  <2>1. Reads[op] = <<"write">>
    BY <1>3 DEF Reads
  <2>2. Orderly(<<"write">>)
    BY <1>3 DEF ReadSteps
  <2> QED
    BY <2>1, <2>2
<1>4. CASE op = "home"
  <2>1. Reads[op] = <<"orgs", "project_role", "lists">>
    BY <1>4 DEF Reads
  <2>2. Orderly(<<"orgs", "project_role", "lists">>)
    BY <1>4 DEF ReadSteps, Range
  <2> QED
    BY <2>1, <2>2
<1>5. CASE op = "search"
  <2>1. Reads[op] = <<"orgs", "lists">>
    BY <1>5 DEF Reads
  <2>2. Orderly(<<"orgs", "lists">>)
    BY <1>5 DEF ReadSteps, Range
  <2> QED
    BY <2>1, <2>2
<1>6. CASE op = "org_dashboard"
  <2>1. Reads[op] = <<"org", "org_role", "project_role", "lists">>
    BY <1>6 DEF Reads
  <2>2. Orderly(<<"org", "org_role", "project_role", "lists">>)
    BY <1>6 DEF ReadSteps, Range
  <2> QED
    BY <2>1, <2>2
<1>7. CASE op = "project_settings"
  <2>1. Reads[op] = <<"org", "project", "org_role", "project_role", "show">>
    BY <1>7 DEF Reads
  <2>2. Orderly(<<"org", "project", "org_role", "project_role", "show">>)
    BY <1>7 DEF ReadSteps, Range
  <2> QED
    BY <2>1, <2>2
<1>8. CASE op = "create_package"
  <2>1. Reads[op] = <<"check", "write">>
    BY <1>8 DEF Reads
  <2>2. Orderly(<<"check", "write">>)
    BY <1>8 DEF ReadSteps
  <2> QED
    BY <2>1, <2>2
<1>9. CASE op = "package_settings"
  <2>1. Reads[op] = <<"package", "org_role", "project_role", "show">>
    BY <1>9 DEF Reads
  <2>2. Orderly(<<"package", "org_role", "project_role", "show">>)
    BY <1>9 DEF ReadSteps, Range
  <2> QED
    BY <2>1, <2>2
<1>10. CASE op = "update_package_settings"
  <2>1. Reads[op] = <<"package", "write">>
    BY <1>10 DEF Reads
  <2>2. Orderly(<<"package", "write">>)
    BY <1>10 DEF ReadSteps
  <2> QED
    BY <2>1, <2>2
<1>11. CASE op = "register_package_upload"
  <2>1. Reads[op] = <<"package", "check", "write">>
    BY <1>11 DEF Reads
  <2>2. Orderly(<<"package", "check", "write">>)
    BY <1>11 DEF ReadSteps
  <2> QED
    BY <2>1, <2>2
<1> QED
  BY <1>1, <1>2, <1>3, <1>4, <1>5, <1>6, <1>7, <1>8, <1>9, <1>10, <1>11

\* Taking the first of the steps that remain.
LEMMA SuffixSteps ==
    ASSUME NEW S, NEW s \in Seq(S), NEW i \in 1..Len(s) + 1
    PROVE  /\ SubSeq(s, i, Len(s)) \in Seq(S)
           /\ SubSeq(s, i, Len(s)) # <<>> => i <= Len(s)
           /\ i <= Len(s) => /\ SubSeq(s, i, Len(s)) # <<>>
                             /\ Head(SubSeq(s, i, Len(s))) = s[i]
                             /\ Tail(SubSeq(s, i, Len(s))) = SubSeq(s, i + 1, Len(s))
           /\ Range(SubSeq(s, i, Len(s))) \subseteq Range(s)
<1>1. /\ SubSeq(s, i, Len(s)) \in Seq(S)
      /\ Len(SubSeq(s, i, Len(s))) = IF i <= Len(s) THEN Len(s) - i + 1 ELSE 0
  OBVIOUS
<1>2. SubSeq(s, i, Len(s)) # <<>> <=> i <= Len(s)
  <2> DEFINE t == SubSeq(s, i, Len(s))
  <2>1. t \in Seq(S) /\ (Len(t) # 0 <=> i <= Len(s))
    BY <1>1
  <2> HIDE DEF t
  <2>2. t = <<>> <=> Len(t) = 0
    BY <2>1, EmptySeq
  <2> QED
    BY <2>1, <2>2 DEF t
<1>3. i <= Len(s) => /\ Head(SubSeq(s, i, Len(s))) = s[i]
                     /\ Tail(SubSeq(s, i, Len(s))) = SubSeq(s, i + 1, Len(s))
  OBVIOUS
<1>4. Range(SubSeq(s, i, Len(s))) \subseteq Range(s)
  BY DEF Range
<1> QED
  BY <1>1, <1>2, <1>3, <1>4

-----------------------------------------------------------------------------
(* One call.                                                               *)

\* A step that replaces the record of one call and leaves memberships alone.
LEMMA OneCall ==
    ASSUME CallsInv, NEW q \in Calls, NEW r, Good(r, orgRole, projRole),
           req' = [req EXCEPT ![q] = r], TablesOK', UNCHANGED <<orgRole, projRole>>
    PROVE  CallsInv'
<1>1. req \in [Calls -> Call] /\ r \in Call
  BY DEF CallsInv, Good
<1>2. req' \in [Calls -> Call]
  BY <1>1
<1>3. \A p \in Calls : Good(req'[p], orgRole, projRole)
  BY <1>1 DEF CallsInv
<1>4. \A p \in Calls : Good(req[p], orgRole, projRole)'
  BY <1>3 DEF Good, Current, HeldBy
<1> QED
  BY <1>2, <1>4 DEF CallsInv

\* Nothing but the calls changed.
LEMMA TablesKept ==
    ASSUME TablesOK, UNCHANGED <<orgRole, projRole, package, shared>>
    PROVE  TablesOK' /\ UNCHANGED <<orgRole, projRole>>
BY DEF TablesOK, PackageRow, AllRoles

\* An idle record is a record of a call.
LEMMA IdleIsCall == Idle \in Call
<1>1. <<>> \in Seq(ReadSteps)
  BY EmptySeq
<1> QED
  BY <1>1 DEF Idle, Call, AllRoles, Creds

\* What is left of a call after its answer.
LEMMA OverIsGood ==
    ASSUME NEW r \in Call, r.pc = "done", r.op = Nothing, r.role = Nothing, r.row = Nothing
    PROVE  Good(r, orgRole, projRole)
BY DEF Good, Over, Current

\* The two ways a call is over: refused, whatever the handler had read, or
\* with its write done.
LEMMA OverRecords ==
    ASSUME NEW code \in Nat
    PROVE  /\ Good([Idle EXCEPT !.pc = "done", !.answer = code], orgRole, projRole)
           /\ [Idle EXCEPT !.pc = "done", !.answer = code, !.wrote = TRUE] \in Call
           /\ Over([Idle EXCEPT !.pc = "done", !.answer = code, !.wrote = TRUE])
<1>1. [Idle EXCEPT !.pc = "done", !.answer = code] \in Call
  BY IdleIsCall DEF Idle, Call
<1>2. Good([Idle EXCEPT !.pc = "done", !.answer = code], orgRole, projRole)
  BY <1>1, OverIsGood DEF Idle
<1>3. [Idle EXCEPT !.pc = "done", !.answer = code, !.wrote = TRUE] \in Call
  BY IdleIsCall DEF Idle, Call
<1> QED
  BY <1>2, <1>3 DEF Idle, Over

\* A refusal.
LEMMA Refusal ==
    ASSUME CallsInv, NEW q \in Calls, NEW code \in Nat, Answer(q, code),
           UNCHANGED <<orgRole, projRole, package, shared>>
    PROVE  CallsInv'
<1>1. TablesOK' /\ UNCHANGED <<orgRole, projRole>>
  BY TablesKept DEF CallsInv
<1> DEFINE r == [Idle EXCEPT !.pc = "done", !.answer = code]
<1>2. Good(r, orgRole, projRole)
  BY OverRecords
<1>3. req' = [req EXCEPT ![q] = r]
  BY DEF Answer
<1> HIDE DEF r
<1> QED
  BY <1>1, <1>2, <1>3, OneCall

\* A call at one of its reads.
LEMMA AtStep ==
    ASSUME CallsInv, NEW q \in Calls, NEW step, At(q, step)
    PROVE  /\ Working(req[q]) /\ req[q].pc = "run" /\ req[q] \in Call
           /\ Reads[req[q].op] \in Seq(ReadSteps)
           /\ \E i \in 1..Len(Reads[req[q].op]) :
                 /\ Remaining(req[q], i)
                 /\ Reads[req[q].op][i] = step
                 /\ Tail(req[q].todo) = SubSeq(Reads[req[q].op], i + 1, Len(Reads[req[q].op]))
                 /\ Tail(req[q].todo) \in Seq(ReadSteps)
<1> DEFINE r == req[q]
           s == Reads[r.op]
<1>1. r.pc = "run" /\ r.todo # <<>> /\ Head(r.todo) = step
  BY DEF At
<1>2. r \in Call /\ (Over(r) \/ Working(r) \/ HasShown(r) \/ Graphing(r))
  BY DEF CallsInv, Good
<1>3. Working(r)
  BY <1>1, <1>2 DEF Over, HasShown, Graphing, GraphSteps
<1>4. s \in Seq(ReadSteps)
  BY <1>3, ReadsOrder DEF Working
<1>5. PICK i \in 1..Len(s) + 1 : Remaining(r, i)
  BY <1>3 DEF Working
<1> HIDE DEF s
<1>6. r.todo = SubSeq(s, i, Len(s))
  BY <1>5 DEF Remaining, s
<1>7. i <= Len(s) /\ i + 1 \in 1..Len(s) + 1
  BY <1>1, <1>4, <1>6, SuffixSteps
<1>8. /\ Head(r.todo) = s[i] /\ Tail(r.todo) = SubSeq(s, i + 1, Len(s))
  BY <1>4, <1>6, <1>7, SuffixSteps
<1>9. Tail(r.todo) \in Seq(ReadSteps)
  BY <1>4, <1>7, <1>8, SuffixSteps
<1>10. \E j \in 1..Len(s) :
           /\ Remaining(r, j) /\ s[j] = step
           /\ Tail(r.todo) = SubSeq(s, j + 1, Len(s)) /\ Tail(r.todo) \in Seq(ReadSteps)
  <2>1. i \in 1..Len(s)
    BY <1>4, <1>7
  <2> QED
    BY <1>1, <1>5, <1>8, <1>9, <2>1
<1> QED
  BY <1>1, <1>2, <1>3, <1>4, <1>10 DEF s

\* The record of a call with one more field replaced.
LEMMA MoreFields ==
    ASSUME NEW o \in Call
    PROVE  /\ \A x \in AllRoles : [o EXCEPT !.role = x] \in Call
           /\ \A x \in Seq(ReadSteps) : [o EXCEPT !.todo = x] \in Call
           /\ \A x \in PackageRow \cup GraphRow \cup {Nothing} : [o EXCEPT !.row = x] \in Call
           /\ \A x \in Nat : [o EXCEPT !.pc = "done", !.answer = x] \in Call
<1>1. \A x \in AllRoles : [o EXCEPT !.role = x] \in Call
  BY DEF Call
<1>2. \A x \in Seq(ReadSteps) : [o EXCEPT !.todo = x] \in Call
  BY DEF Call
<1>3. \A x \in PackageRow \cup GraphRow \cup {Nothing} : [o EXCEPT !.row = x] \in Call
  BY DEF Call
<1>4. \A x \in Nat : [o EXCEPT !.pc = "done", !.answer = x] \in Call
  BY DEF Call
<1> QED
  BY <1>1, <1>2, <1>3, <1>4

\* A read that moves on to the next step: it may have put the row, or a role
\* that is held now, into the record.
LEMMA Advance ==
    ASSUME CallsInv, NEW q \in Calls, NEW step, At(q, step), step # "write",
           NEW row, NEW org, NEW proj,
           After(q, [req[q] EXCEPT !.row = row, !.org = org, !.proj = proj]),
           [req[q] EXCEPT !.row = row, !.org = org, !.proj = proj] \in Call,
           row = req[q].row \/ step = "package",
           step = "package" /\ req[q].op = "package_settings" => row \in [in_project : BOOLEAN],
           step = "package" /\ req[q].op = "update_package_settings"
              => row \in [settings : [Fields -> Texts]],
           org = req[q].org \/ (step \in {"orgs", "org_role"} /\ org = orgRole[req[q].user]),
           step = "org_role" /\ req[q].op = "org_dashboard" => org # Nothing,
           \/ proj = req[q].proj
           \/ proj = Nothing /\ step = "project_role"
           \/ /\ step = "project_role" /\ proj = projRole[req[q].user]
              /\ req[q].op = "package_settings" => req[q].row.in_project,
           ReadOnly, UNCHANGED shared
    PROVE  CallsInv'
<1> DEFINE o == req[q]
           s == Reads[o.op]
           r == [[o EXCEPT !.row = row, !.org = org, !.proj = proj] EXCEPT !.todo = Tail(@)]
<1>1. TablesOK /\ TablesOK' /\ UNCHANGED <<orgRole, projRole>>
  BY TablesKept DEF CallsInv, ReadOnly
<1>2. /\ Working(o) /\ o.pc = "run" /\ o \in Call /\ s \in Seq(ReadSteps)
      /\ \E i \in 1..Len(s) : /\ Remaining(o, i) /\ s[i] = step
                              /\ Tail(o.todo) = SubSeq(s, i + 1, Len(s))
                              /\ Tail(o.todo) \in Seq(ReadSteps)
  BY AtStep
<1>3. PICK i \in 1..Len(s) : /\ Remaining(o, i) /\ s[i] = step
                             /\ Tail(o.todo) = SubSeq(s, i + 1, Len(s))
                             /\ Tail(o.todo) \in Seq(ReadSteps)
  BY <1>2
<1>4. /\ o.op \in DOMAIN Reads /\ o.user \in Users /\ o.cred = "account" /\ o.role = Nothing
      /\ ~o.wrote /\ o.patch \in Patches
  BY <1>2 DEF Working
<1>5. /\ s[i] = "package" => i = 1
      /\ s[i] \in {"orgs", "org_role", "project_role", "lists", "show"} => "write" \notin Range(s)
      /\ o.op = "package_settings" /\ s[i] # "package" => i > 1
      /\ o.op = "update_package_settings" /\ s[i] = "write" => i > 1
      /\ o.op = "org_dashboard" /\ i = 2 => s[i] = "org_role"
      /\ o.op = "org_dashboard" /\ i > 2 => s[i] \notin {"orgs", "org_role"}
  BY <1>4, ReadsOrder
<1>6. /\ r.op = o.op /\ r.user = o.user /\ r.cred = o.cred /\ r.patch = o.patch /\ r.pc = o.pc
      /\ r.role = o.role /\ r.wrote = o.wrote /\ r.held = o.held /\ r.answer = o.answer
      /\ r.row = row /\ r.org = org /\ r.proj = proj /\ r.todo = Tail(o.todo)
      /\ r \in Call
  <2> DEFINE m == [o EXCEPT !.row = row, !.org = org, !.proj = proj]
  <2>1. /\ m \in Call /\ m.op = o.op /\ m.user = o.user /\ m.cred = o.cred /\ m.patch = o.patch
        /\ m.pc = o.pc /\ m.role = o.role /\ m.wrote = o.wrote /\ m.held = o.held
        /\ m.answer = o.answer /\ m.row = row /\ m.org = org /\ m.proj = proj /\ m.todo = o.todo
    BY <1>2 DEF Call
  <2>2. r = [m EXCEPT !.todo = Tail(o.todo)]
    BY <2>1
  <2> HIDE DEF m, r
  <2>3. r \in Call
    BY <1>3, <2>1, <2>2, MoreFields
  <2>4. /\ r.op = m.op /\ r.user = m.user /\ r.cred = m.cred /\ r.patch = m.patch
        /\ r.pc = m.pc /\ r.role = m.role /\ r.wrote = m.wrote /\ r.held = m.held
        /\ r.answer = m.answer /\ r.row = m.row /\ r.org = m.org /\ r.proj = m.proj
        /\ r.todo = Tail(o.todo)
    BY <2>1, <2>2 DEF Call
  <2> QED
    BY <2>1, <2>3, <2>4
<1>7. req' = [req EXCEPT ![q] = r]
  BY DEF After
<1>8. Current(o, orgRole, projRole)
  BY DEF CallsInv, Good
<1> HIDE DEF r, o
<1>9. Current(r, orgRole, projRole)
  BY <1>6, <1>8 DEF Current
<1>10. step \in {"orgs", "org_role", "project_role"} =>
          HeldBy(o.user, orgRole, projRole) \subseteq o.held
  BY <1>2, <1>3, <1>4, <1>5, <1>8 DEF Current
<1>11. org # Nothing => [scope |-> "org", role |-> org] \in o.held
  <2>1. CASE org = o.org
    BY <1>2, <2>1 DEF Working
  <2>2. CASE step \in {"orgs", "org_role"} /\ org = orgRole[o.user]
    BY <1>10, <2>2 DEF HeldBy
  <2> QED
    BY <2>1, <2>2 DEF o
<1>12. proj # Nothing => /\ [scope |-> "project", role |-> proj] \in o.held
                         /\ o.op = "package_settings" => row.in_project
  <2>1. CASE proj = o.proj
    <3>1. step = "package" => o.proj = Nothing
      BY <1>3, <1>5 DEF Remaining
    <3>2. proj # Nothing => row = o.row
      BY <2>1, <3>1 DEF o
    <3> QED
      BY <1>2, <2>1, <3>2 DEF Working
  <2>2. CASE /\ step = "project_role" /\ proj = projRole[o.user]
             /\ o.op = "package_settings" => o.row.in_project
    <3>1. row = o.row
      BY <2>2 DEF o
    <3>2. HeldBy(o.user, orgRole, projRole) \subseteq o.held
      BY <1>10, <2>2
    <3>3. proj # Nothing => [scope |-> "project", role |-> proj] \in o.held
      BY <2>2, <3>2 DEF HeldBy
    <3> QED
      BY <2>2, <3>1, <3>3
  <2> QED
    BY <2>1, <2>2 DEF o
<1>13. Remaining(r, i + 1) /\ i + 1 \in 1..Len(Reads[r.op]) + 1
  <2>1. r.todo = SubSeq(Reads[r.op], i + 1, Len(Reads[r.op])) /\ i + 1 \in 1..Len(Reads[r.op]) + 1
    <3>1. Len(s) \in Nat /\ Reads[r.op] = s
      BY <1>2, <1>6
    <3> HIDE DEF s
    <3>2. r.todo = SubSeq(s, i + 1, Len(s))
      BY <1>3, <1>6
    <3>3. i + 1 \in 1..Len(s) + 1
      BY <3>1
    <3> QED
      BY <3>1, <3>2, <3>3
  <2>2. r.op = "package_settings" => row \in [in_project : BOOLEAN]
    BY <1>2, <1>3, <1>5, <1>6 DEF Remaining, o
  <2>3. r.op = "update_package_settings" => row \in [settings : [Fields -> Texts]]
    <3>1. CASE i > 1
      BY <1>3, <1>5, <1>6, <3>1 DEF Remaining, o
    <3>2. CASE i = 1
      <4>1. r.op = "update_package_settings" => step = "package"
        BY <1>3, <1>6, <3>2 DEF Reads
      <4> QED
        BY <1>6, <4>1 DEF o
    <3> QED
      BY <3>1, <3>2
  <2>4. i + 1 # 1
    BY <1>2, <1>3
  <2>5. i + 1 > 2 /\ r.op = "org_dashboard" => org # Nothing
    <3>1. SUFFICES ASSUME i + 1 > 2, o.op = "org_dashboard" PROVE org # Nothing
      BY <1>6
    <3>2. CASE i = 2
      BY <1>3, <1>5, <3>1, <3>2 DEF o
    <3>3. CASE i > 2
      <4>1. o.org # Nothing
        BY <1>3, <3>1, <3>3 DEF Remaining
      <4>2. step \notin {"orgs", "org_role"}
        BY <1>3, <1>5, <3>1, <3>3
      <4> QED
        BY <4>1, <4>2 DEF o
    <3>4. Len(s) \in Nat
      BY <1>2
    <3> QED
      BY <3>1, <3>2, <3>3, <3>4
  <2> QED
    BY <1>6, <2>1, <2>2, <2>3, <2>4, <2>5 DEF Remaining
<1>14. Working(r)
  BY <1>2, <1>4, <1>6, <1>11, <1>12, <1>13 DEF Working
<1>15. Good(r, orgRole, projRole)
  BY <1>6, <1>9, <1>14 DEF Good
<1> QED
  BY <1>1, <1>7, <1>15, OneCall

\* Fields written with what they hold.
LEMMA SameRecord ==
    ASSUME NEW o \in Call, NEW x
    PROVE  /\ [o EXCEPT !.row = o.row, !.org = o.org, !.proj = o.proj] = o
           /\ [o EXCEPT !.row = x, !.org = o.org, !.proj = o.proj] = [o EXCEPT !.row = x]
           /\ [o EXCEPT !.row = o.row, !.org = x, !.proj = o.proj] = [o EXCEPT !.org = x]
           /\ [o EXCEPT !.row = o.row, !.org = o.org, !.proj = x] = [o EXCEPT !.proj = x]
BY DEF Call

\* The record of a call with one field replaced.
LEMMA FieldType ==
    ASSUME NEW o \in Call
    PROVE  /\ \A x \in AllRoles : /\ [o EXCEPT !.org = x] \in Call
                                  /\ [o EXCEPT !.proj = x] \in Call
           /\ \A x \in [in_project : BOOLEAN] \cup [settings : [Fields -> Texts]] :
                 [o EXCEPT !.row = x] \in Call
BY DEF Call

\* A call at another step is a call.
LEMMA StepType ==
    ASSUME NEW o \in Call, NEW x \in {"project", "run"} \cup GraphSteps
    PROVE  [o EXCEPT !.pc = x] \in Call
<1>1. x \in {"idle", "auth", "project", "run", "done"} \cup GraphSteps
  OBVIOUS
<1> QED
  BY <1>1 DEF Call

\* Reads that only look something up, and the checks of the input.
LEMMA CallsInv_find_row ==
    ASSUME CallsInv, NEW q \in Calls, UNCHANGED shared,
           find_row(q, "org") \/ find_row(q, "project") \/ check_input(q)
    PROVE  CallsInv'
<1>1. ReadOnly /\ \E step \in {"org", "project", "check"} : At(q, step)
  BY DEF find_row, check_input
<1>2. PICK step \in {"org", "project", "check"} : At(q, step)
  BY <1>1
<1>3. CASE Answer(q, 404) \/ Answer(q, 400)
  BY <1>1, <1>3, Refusal DEF ReadOnly
<1>4. CASE After(q, req[q])
  <2> DEFINE o == req[q]
  <2>1. o \in Call
    BY DEF CallsInv
  <2>2. [o EXCEPT !.row = o.row, !.org = o.org, !.proj = o.proj] = o
    BY <2>1, SameRecord, ZenonT(40)
  <2>3. /\ After(q, [o EXCEPT !.row = o.row, !.org = o.org, !.proj = o.proj])
        /\ [o EXCEPT !.row = o.row, !.org = o.org, !.proj = o.proj] \in Call
    BY <1>4, <2>1, <2>2
  <2>4. step \notin {"write", "package", "org_role"}
    BY <1>2
  <2> QED
    BY <1>1, <1>2, <2>3, <2>4, Advance, ZenonT(40)
<1> QED
  BY <1>3, <1>4 DEF find_row, check_input

\* The row a handler goes on to use is read.
LEMMA CallsInv_find_package ==
    ASSUME CallsInv, NEW q \in Calls, UNCHANGED shared, find_package(q)
    PROVE  CallsInv'
<1> DEFINE o == req[q]
           x == IF o.op = "package_settings" THEN [in_project |-> package.in_project]
                ELSE [settings |-> package.settings]
<1>1. ReadOnly /\ At(q, "package") /\ o \in Call
  BY DEF find_package, CallsInv
<1>2. CASE Answer(q, 404)
  BY <1>1, <1>2, Refusal DEF ReadOnly
<1>3. CASE package # Nothing /\ After(q, [o EXCEPT !.row = x])
  <2>1. package \in PackageRow
    BY <1>3 DEF CallsInv, TablesOK
  <2>2. /\ o.op = "package_settings" => x \in [in_project : BOOLEAN]
        /\ o.op # "package_settings" => x \in [settings : [Fields -> Texts]]
    BY <2>1 DEF PackageRow
  <2>3. [o EXCEPT !.row = x] \in Call
    BY <1>1, <2>2, FieldType, ZenonT(40)
  <2> HIDE DEF x
  <2>4. [o EXCEPT !.row = x, !.org = o.org, !.proj = o.proj] = [o EXCEPT !.row = x]
    BY <1>1, SameRecord, ZenonT(40)
  <2>5. /\ After(q, [o EXCEPT !.row = x, !.org = o.org, !.proj = o.proj])
        /\ [o EXCEPT !.row = x, !.org = o.org, !.proj = o.proj] \in Call
    BY <1>3, <2>3, <2>4
  <2> QED
    BY <1>1, <2>2, <2>5, Advance
<1> QED
  BY <1>2, <1>3 DEF find_package

\* The organization's role is read.
LEMMA CallsInv_org_role ==
    ASSUME CallsInv, NEW q \in Calls, UNCHANGED shared,
           org_role_for_user(q) \/ orgs_for_user(q)
    PROVE  CallsInv'
<1> DEFINE o == req[q]
           x == orgRole[o.user]
<1>1. ReadOnly /\ (At(q, "org_role") \/ At(q, "orgs")) /\ o \in Call
  BY DEF org_role_for_user, orgs_for_user, CallsInv
<1>2. CASE Answer(q, 404)
  BY <1>1, <1>2, Refusal DEF ReadOnly
<1>3. CASE ~Answer(q, 404)
  <2>1. o.user \in Users
    BY <1>1, AtStep DEF Working
  <2>8. /\ After(q, [o EXCEPT !.org = x])
        /\ At(q, "org_role") /\ o.op = "org_dashboard" => x # Nothing
    BY <1>3 DEF org_role_for_user, orgs_for_user, At
  <2>2. x \in AllRoles
    BY <2>1 DEF CallsInv, TablesOK
  <2>3. [o EXCEPT !.org = x] \in Call
    BY <1>1, <2>2, FieldType
  <2> HIDE DEF x
  <2>4. [o EXCEPT !.row = o.row, !.org = x, !.proj = o.proj] = [o EXCEPT !.org = x]
    BY <1>1, SameRecord, ZenonT(40)
  <2>5. /\ After(q, [o EXCEPT !.row = o.row, !.org = x, !.proj = o.proj])
        /\ [o EXCEPT !.row = o.row, !.org = x, !.proj = o.proj] \in Call
    BY <2>3, <2>4, <2>8
  <2>6. PICK step \in {"org_role", "orgs"} : At(q, step)
    BY <1>1
  <2>7. x = orgRole[req[q].user]
    BY DEF x
  <2> QED
    BY <1>1, <2>5, <2>6, <2>7, <2>8, Advance
<1> QED
  BY <1>2, <1>3

\* The project's role is read, of the project the row names.
LEMMA CallsInv_project_role ==
    ASSUME CallsInv, NEW q \in Calls, UNCHANGED shared, project_role_for_user(q)
    PROVE  CallsInv'
<1> DEFINE o == req[q]
<1>1. ReadOnly /\ At(q, "project_role") /\ o \in Call
  BY DEF project_role_for_user, CallsInv
<1>2. o.user \in Users
  BY <1>1, AtStep DEF Working
<1>3. PICK x \in AllRoles :
        /\ After(q, [o EXCEPT !.proj = x])
        /\ \/ x = Nothing
           \/ /\ x = projRole[o.user]
              /\ o.op = "package_settings" => o.row.in_project
  <2> DEFINE mine == CASE o.op \in {"home", "org_dashboard"} -> o.org # Nothing
                       [] o.op = "project_settings" -> TRUE
                       [] OTHER -> o.row.in_project
             x == IF mine THEN projRole[o.user] ELSE Nothing
  <2>1. After(q, [o EXCEPT !.proj = x])
    BY DEF project_role_for_user
  <2>2. x = Nothing \/ (mine /\ x = projRole[o.user])
    OBVIOUS
  <2>3. mine /\ o.op = "package_settings" => o.row.in_project
    OBVIOUS
  <2>4. x \in AllRoles
    BY <1>2, <2>2 DEF CallsInv, TablesOK, AllRoles
  <2> HIDE DEF mine, x
  <2> QED
    BY <2>1, <2>2, <2>3, <2>4
<1>4. [o EXCEPT !.proj = x] \in Call
  BY <1>1, FieldType, ZenonT(40)
<1>5. [o EXCEPT !.row = o.row, !.org = o.org, !.proj = x] = [o EXCEPT !.proj = x]
  BY <1>1, SameRecord, ZenonT(40)
<1>6. /\ After(q, [o EXCEPT !.row = o.row, !.org = o.org, !.proj = x])
      /\ [o EXCEPT !.row = o.row, !.org = o.org, !.proj = x] \in Call
  BY <1>3, <1>4, <1>5
<1>7. PICK step \in {"project_role"} : At(q, step)
  BY <1>1
<1>8. step \notin {"write", "package", "org_role"} /\ step = "project_role"
  BY <1>7
<1> QED
  BY <1>1, <1>3, <1>6, <1>7, <1>8, Advance, ZenonT(40)

\* A handler that waits for its next query.
LEMMA Moved ==
    ASSUME CallsInv, NEW q \in Calls, Working(req[q]), NEW p \in {"project", "run"},
           req' = [req EXCEPT ![q].pc = p], UNCHANGED <<orgRole, projRole, package, shared>>
    PROVE  CallsInv'
<1> DEFINE o == req[q]
           r == [o EXCEPT !.pc = p]
<1>1. o \in Call /\ Current(o, orgRole, projRole) /\ req \in [Calls -> Call]
  BY DEF CallsInv, Good
<1>2. r \in Call
  BY <1>1, StepType
<1>3. /\ r.op = o.op /\ r.user = o.user /\ r.cred = o.cred /\ r.patch = o.patch /\ r.pc = p
      /\ r.role = o.role /\ r.wrote = o.wrote /\ r.held = o.held /\ r.answer = o.answer
      /\ r.row = o.row /\ r.org = o.org /\ r.proj = o.proj /\ r.todo = o.todo
  BY <1>1 DEF Call
<1>4. req' = [req EXCEPT ![q] = r]
  BY <1>1
<1> HIDE DEF r, o
<1>5. Working(r)
  BY <1>3 DEF Working, Remaining, o
<1>6. Current(r, orgRole, projRole)
  BY <1>1, <1>3 DEF Current, Working, o
<1>7. Good(r, orgRole, projRole)
  BY <1>2, <1>5, <1>6 DEF Good
<1>8. TablesOK' /\ UNCHANGED <<orgRole, projRole>>
  BY TablesKept DEF CallsInv
<1> QED
  BY <1>4, <1>7, <1>8, OneCall

\* Which calls can be where.
LEMMA WhereCallsAre ==
    ASSUME CallsInv, NEW q \in Calls
    PROVE  /\ req[q].pc \in {"auth", "project", "run"} => Working(req[q])
           /\ req[q].pc \in GraphSteps => Graphing(req[q])
<1>1. Over(req[q]) \/ Working(req[q]) \/ HasShown(req[q]) \/ Graphing(req[q])
  BY DEF CallsInv, Good
<1> QED
  BY <1>1 DEF Over, Working, HasShown, Graphing, GraphSteps

\* The memberships of a user are pairs of a scope and a role.
LEMMA HeldByType ==
    ASSUME TablesOK, NEW u \in Users
    PROVE  HeldBy(u, orgRole, projRole) \subseteq [scope : {"org", "project"}, role : AllRoles]
BY DEF TablesOK, HeldBy

\* Authentication and the projection of the user.
LEMMA CallsInv_authenticated ==
    ASSUME CallsInv, NEW q \in Calls, UNCHANGED shared,
           authenticated(q) \/ authenticated_and_projected(q) \/ DataPlaneFails(q)
    PROVE  CallsInv'
<1>1. UNCHANGED <<orgRole, projRole, package, shared>>
  BY DEF authenticated, authenticated_and_projected, DataPlaneFails, ReadOnly
<1>2. CASE \E code \in {200, 401, 403, 500, 503} : Answer(q, code)
  BY <1>1, <1>2, Refusal
<1>3. CASE /\ req[q].pc \in {"auth", "project"}
           /\ \E p \in {"project", "run"} : req' = [req EXCEPT ![q].pc = p]
  BY <1>1, <1>3, Moved, WhereCallsAre
<1> QED
  BY <1>2, <1>3 DEF authenticated, authenticated_and_projected, DataPlaneFails

\* A request arrives: nothing is read yet.
LEMMA CallsInv_Arrive ==
    ASSUME CallsInv, NEW q \in Calls, UNCHANGED shared, Arrive(q)
    PROVE  CallsInv'
<1>1. PICK op \in Ops[q] \cap DOMAIN Reads, u \in Users, patch \in Patches :
         req' = [req EXCEPT ![q] = [Idle EXCEPT !.op = op, !.user = u,
                        !.patch = patch, !.pc = "auth", !.todo = Reads[op],
                        !.held = IF "write" \in Range(Reads[op]) THEN {}
                                 ELSE HeldBy(u, orgRole, projRole)]]
  BY DEF Arrive
<1> DEFINE held == IF "write" \in Range(Reads[op]) THEN {} ELSE HeldBy(u, orgRole, projRole)
           r == [Idle EXCEPT !.op = op, !.user = u, !.patch = patch, !.pc = "auth",
                             !.todo = Reads[op], !.held = held]
<1>2. req' = [req EXCEPT ![q] = r]
  BY <1>1
<1>3. held \subseteq [scope : {"org", "project"}, role : AllRoles]
  BY HeldByType DEF CallsInv
<1>4. Reads[op] \in Seq(ReadSteps)
  BY ReadsOrder
<1>5. "write" \notin Range(Reads[op]) => HeldBy(u, orgRole, projRole) \subseteq held
  OBVIOUS
<1> HIDE DEF held
<1>6. r \in Call
  BY <1>3, <1>4, IdleIsCall DEF Call
<1>7. /\ r.op = op /\ r.user = u /\ r.cred = "account" /\ r.patch = patch /\ r.pc = "auth"
      /\ r.role = Nothing /\ ~r.wrote /\ r.held = held
      /\ r.org = Nothing /\ r.proj = Nothing /\ r.todo = Reads[op]
  BY DEF Idle
<1> HIDE DEF r
<1>8. \E i \in 1..Len(Reads[r.op]) + 1 : Remaining(r, i)
  <2> DEFINE s == Reads[op]
  <2>1. s \in Seq(ReadSteps) /\ Reads[r.op] = s /\ r.todo = s
    BY <1>4, <1>7
  <2> HIDE DEF s
  <2>2. s = SubSeq(s, 1, Len(s)) /\ 1 \in 1..Len(s) + 1 /\ ~(1 > 1)
    BY <2>1
  <2>3. Remaining(r, 1)
    BY <1>7, <2>1, <2>2 DEF Remaining
  <2> QED
    BY <2>1, <2>2, <2>3
<1>9. Working(r)
  BY <1>7, <1>8 DEF Working
<1>10. Current(r, orgRole, projRole)
  BY <1>5, <1>7 DEF Current
<1>11. Good(r, orgRole, projRole)
  BY <1>6, <1>9, <1>10 DEF Good
<1>12. TablesOK' /\ UNCHANGED <<orgRole, projRole>>
  BY TablesKept DEF CallsInv, Arrive, ReadOnly
<1> QED
  BY <1>2, <1>11, <1>12, OneCall

\* The stronger of two roles is one of them.
LEMMA StrongestIsOne ==
    ASSUME NEW org, NEW proj
    PROVE  /\ strongest_role(org, proj) \in {org, proj}
           /\ strongest_role(org, proj) = Nothing => org = Nothing /\ proj = Nothing
BY DEF strongest_role

\* The record of a call that has shown rows.
LEMMA ShownRole ==
    ASSUME NEW o \in Call, NEW role \in AllRoles
    PROVE  [o EXCEPT !.pc = "done", !.answer = 200, !.todo = <<>>, !.role = role] \in Call
<1> DEFINE m == [o EXCEPT !.pc = "done", !.answer = 200]
           n == [m EXCEPT !.todo = <<>>]
<1>1. m \in Call
  <2>1. 200 \in Nat
    OBVIOUS
  <2> QED
    BY <2>1, MoreFields, ZenonT(40)
<1> HIDE DEF m
<1>2. n \in Call
  BY <1>1, MoreFields, EmptySeq
<1> HIDE DEF n
<1>3. [n EXCEPT !.role = role] \in Call
  BY <1>2, MoreFields
<1> QED
  BY <1>3 DEF m, n

\* The record of a call that has listed rows.
LEMMA ShownRow ==
    ASSUME NEW o \in Call, NEW row \in PackageRow \cup {Nothing}, NEW role \in AllRoles
    PROVE  [o EXCEPT !.pc = "done", !.answer = 200, !.todo = <<>>,
                     !.row = row, !.role = role] \in Call
<1> DEFINE m == [o EXCEPT !.pc = "done", !.answer = 200]
           n == [m EXCEPT !.todo = <<>>]
           p == [n EXCEPT !.row = row]
<1>1. m \in Call
  <2>1. 200 \in Nat
    OBVIOUS
  <2> QED
    BY <2>1, MoreFields, ZenonT(40)
<1> HIDE DEF m
<1>2. n \in Call
  BY <1>1, MoreFields, EmptySeq
<1> HIDE DEF n
<1>3. p \in Call
  BY <1>2, MoreFields
<1> HIDE DEF p
<1>4. [p EXCEPT !.role = role] \in Call
  BY <1>3, MoreFields
<1> QED
  BY <1>4 DEF m, n, p

\* Rows are shown: to a user whose role was read while it was held.
LEMMA CallsInv_Show ==
    ASSUME CallsInv, NEW q \in Calls, UNCHANGED shared, ShowLists(q) \/ ShowSettings(q)
    PROVE  CallsInv'
<1> DEFINE o == req[q]
           best == strongest_role(o.org, o.proj)
<1>1. /\ o \in Call /\ req \in [Calls -> Call]
      /\ UNCHANGED <<orgRole, projRole, package, shared>>
  BY DEF CallsInv, ShowLists, ShowSettings, ReadOnly
<1>2. CASE Answer(q, 404)
  BY <1>1, <1>2, Refusal
<1>3. CASE ~Answer(q, 404)
  <2>1. PICK r, row, role :
           /\ req' = [req EXCEPT ![q] = r]
           /\ row \in {o.row, Nothing, package} /\ role \in {best, Nothing}
           /\ role \in AllRoles => r \in Call
           /\ r.op = o.op /\ r.pc = "done" /\ r.wrote = o.wrote /\ r.held = o.held
           /\ r.row = row /\ r.role = role
           /\ \/ At(q, "show") /\ row = o.row /\ role = best /\ best # Nothing
              \/ /\ At(q, "lists")
                 /\ \/ role = Nothing /\ row = Nothing /\ o.org = Nothing /\ o.op # "org_dashboard"
                    \/ role = best /\ (o.org # Nothing \/ o.op = "org_dashboard")
    <3>1. package \in PackageRow \cup {Nothing}
      BY DEF CallsInv, TablesOK
    <3> HIDE DEF best
    <3>2. CASE ShowLists(q)
      <4> DEFINE listed == o.op = "org_dashboard" \/ o.org # Nothing
                 row == IF listed THEN package ELSE Nothing
                 role == IF listed THEN best ELSE Nothing
                 r == [o EXCEPT !.pc = "done", !.answer = 200, !.todo = <<>>,
                                !.row = row, !.role = role]
      <4>1. req' = [req EXCEPT ![q] = r] /\ At(q, "lists")
        BY <1>1, <3>2 DEF ShowLists, best
      <4>2. /\ row \in PackageRow \cup {Nothing} /\ row \in {Nothing, package}
            /\ role \in {best, Nothing}
            /\ \/ role = Nothing /\ row = Nothing /\ o.org = Nothing /\ o.op # "org_dashboard"
               \/ role = best /\ (o.org # Nothing \/ o.op = "org_dashboard")
        BY <3>1
      <4> HIDE DEF row, role
      <4>3. ASSUME role \in AllRoles PROVE r \in Call
        BY <1>1, <4>2, <4>3, ShownRow, ZenonT(40)
      <4>4. /\ r.op = o.op /\ r.pc = "done" /\ r.wrote = o.wrote /\ r.held = o.held
            /\ r.row = row /\ r.role = role
        BY <1>1 DEF Call
      <4> HIDE DEF r
      <4> QED
        BY <4>1, <4>2, <4>3, <4>4
    <3>3. CASE ShowSettings(q)
      <4> DEFINE r == [o EXCEPT !.pc = "done", !.answer = 200, !.todo = <<>>, !.role = best]
      <4>1. req' = [req EXCEPT ![q] = r] /\ At(q, "show") /\ best # Nothing
        BY <1>1, <1>3, <3>3 DEF ShowSettings, best
      <4>2. best \in AllRoles => r \in Call
        BY <1>1, ShownRole
      <4>3. /\ r.op = o.op /\ r.pc = "done" /\ r.wrote = o.wrote /\ r.held = o.held
            /\ r.row = o.row /\ r.role = best
        BY <1>1 DEF Call
      <4> HIDE DEF r
      <4> QED
        BY <4>1, <4>2, <4>3
    <3> QED
      BY <3>2, <3>3
  <2>2. PICK step \in {"show", "lists"} : At(q, step)
    BY <2>1
  <2>3. Working(o) /\ o.op \in DOMAIN Reads
    BY <2>2, AtStep DEF Working
  <2>4. /\ step = "lists" => o.op \in {"home", "search", "org_dashboard"}
        /\ step = "show" => o.op \in {"project_settings", "package_settings"}
        /\ step = "lists" /\ o.op = "org_dashboard" => o.org # Nothing
    <3>1. PICK i \in 1..Len(Reads[o.op]) : Reads[o.op][i] = step /\ Remaining(o, i)
      BY <2>2, AtStep
    <3>2. step = "lists" /\ o.op = "org_dashboard" => i > 2
      BY <2>3, <3>1, ReadsOrder
    <3>3. /\ step = "lists" => o.op \in {"home", "search", "org_dashboard"}
          /\ step = "show" => o.op \in {"project_settings", "package_settings"}
      BY <2>3, <3>1, ReadsOrder
    <3> QED
      BY <3>1, <3>2, <3>3 DEF Remaining
  <2>5. o.op = "package_settings" => row = o.row
    BY <2>1, <2>2, <2>4 DEF At
  <2>6. role \in AllRoles
    BY <1>1, <2>1, StrongestIsOne DEF Call, AllRoles
  <2>7. r \in Call
    BY <2>1, <2>6
  <2>8. /\ r.op = o.op /\ r.pc = "done" /\ r.wrote = o.wrote /\ r.held = o.held
         /\ r.row = row /\ r.role = role
    BY <2>1
  <2>13. step = "lists" =>
           \/ role = Nothing /\ row = Nothing /\ o.op # "org_dashboard"
           \/ role = best /\ o.org # Nothing
    BY <2>1, <2>2, <2>4 DEF At
  <2>14. step = "show" => role = best /\ best # Nothing
    BY <2>1, <2>2 DEF At
  <2>9. Shows(r) => Covered(r, role)
    <3>1. SUFFICES ASSUME Shows(r) PROVE Covered(r, role)
      OBVIOUS
    <3>2. role = best /\ role # Nothing /\ (step = "lists" => o.org # Nothing)
      <4>1. CASE step = "show"
        BY <2>14, <4>1
      <4>2. CASE step = "lists"
        <5>1. ~(role = Nothing /\ row = Nothing /\ o.op # "org_dashboard")
          BY <2>4, <2>8, <3>1, <4>2 DEF Shows
        <5> QED
          BY <2>13, <4>2, <5>1, StrongestIsOne
      <4> QED
        BY <4>1, <4>2
    <3>3. \E h \in o.held :
             /\ h.role = role
             /\ h.scope = "org" \/ r.op # "package_settings" \/ r.row.in_project
      <4>1. CASE role = o.org
        <5>1. [scope |-> "org", role |-> role] \in o.held
          BY <2>3, <3>2, <4>1 DEF Working
        <5> QED
          BY <5>1
      <4>2. CASE role = o.proj
        <5>1. [scope |-> "project", role |-> role] \in o.held
          BY <2>3, <3>2, <4>2 DEF Working
        <5>2. o.op = "package_settings" => o.row.in_project
          BY <2>3, <3>2, <4>2 DEF Working
        <5>3. r.op # "package_settings" \/ r.row.in_project
          BY <2>5, <2>8, <5>2
        <5> QED
          BY <5>1, <5>3
      <4> QED
        BY <3>2, <4>1, <4>2, StrongestIsOne
    <3>4. r.op \in ListOps => \E h \in o.held : h.scope = "org"
      <4>1. r.op \in ListOps => step = "lists"
        BY <2>2, <2>4, <2>8 DEF ListOps
      <4>2. o.org # Nothing => [scope |-> "org", role |-> o.org] \in o.held
        BY <2>3 DEF Working
      <4> QED
        BY <3>2, <4>1, <4>2
    <3> QED
      BY <2>8, <3>2, <3>3, <3>4 DEF Covered
  <2>10. HasShown(r)
    BY <2>3, <2>8, <2>9 DEF HasShown, Working
  <2>11. Good(r, orgRole, projRole)
    BY <2>7, <2>8, <2>10 DEF Good, Current
  <2>12. TablesOK' /\ UNCHANGED <<orgRole, projRole>>
    BY <1>1, TablesKept DEF CallsInv
  <2> QED
    BY <2>1, <2>11, <2>12, OneCall
<1> QED
  BY <1>2, <1>3

-----------------------------------------------------------------------------
(* Memberships change.                                                     *)

\* What a call relies on survives when its user is seen to hold more roles.
LEMMA MoreHeld ==
    ASSUME NEW o \in Call, Over(o) \/ Working(o) \/ HasShown(o) \/ Graphing(o),
           NEW more \in SUBSET [scope : {"org", "project"}, role : AllRoles],
           NEW t, t = [o EXCEPT !.held = @ \cup more]
    PROVE  /\ t \in Call
           /\ Over(t) \/ Working(t) \/ HasShown(t) \/ Graphing(t)
           /\ t.user = o.user /\ more \subseteq t.held
<1> DEFINE r == [o EXCEPT !.held = @ \cup more]
<1>1. r \in Call
  BY DEF Call
<1>2. /\ r.op = o.op /\ r.user = o.user /\ r.cred = o.cred /\ r.patch = o.patch /\ r.pc = o.pc
      /\ r.role = o.role /\ r.wrote = o.wrote /\ r.held = o.held \cup more /\ r.answer = o.answer
      /\ r.row = o.row /\ r.org = o.org /\ r.proj = o.proj /\ r.todo = o.todo
  BY DEF Call
<1> HIDE DEF r
<1>3. Over(r) \/ Working(r) \/ HasShown(r) \/ Graphing(r)
  <2>1. CASE Over(o)
    BY <1>2, <2>1 DEF Over
  <2>2. CASE Working(o)
    BY <1>2, <2>2 DEF Working, Remaining
  <2>3. CASE HasShown(o)
    <3>1. Shows(r) => Shows(o)
      BY <1>2 DEF Shows
    <3>2. Covered(o, o.role) => Covered(r, r.role)
      BY <1>2 DEF Covered
    <3> QED
      BY <1>2, <2>3, <3>1, <3>2 DEF HasShown
  <2>4. CASE Graphing(o)
    BY <1>2, <2>4 DEF Graphing, HasAuthority
  <2> QED
    BY <2>1, <2>2, <2>3, <2>4
<1> QED
  BY <1>1, <1>2, <1>3 DEF r

\* The requests have seen the memberships of the next state.
LEMMA Watched ==
    ASSUME NEW t \in [Calls -> Call],
           \A p \in Calls : Over(t[p]) \/ Working(t[p]) \/ HasShown(t[p]) \/ Graphing(t[p]),
           TablesOK', req' = Watch(t)
    PROVE  CallsInv'
<1>1. SUFFICES ASSUME NEW p \in Calls
              PROVE  req'[p] \in Call /\ Good(req'[p], orgRole', projRole')
  <2>1. req' \in [Calls -> Call]
    <3>1. req' = [p \in Calls |-> req'[p]]
      BY DEF Watch
    <3> QED
      BY <1>1, <3>1
  <2>2. (\A p \in Calls : Good(req[p], orgRole, projRole))'
    BY <1>1 DEF Good, Current, HeldBy
  <2> QED
    BY <2>1, <2>2 DEF CallsInv
<1> DEFINE o == t[p]
           more == HeldBy(o.user, orgRole', projRole')
<1>2. /\ o \in Call
      /\ Over(o) \/ Working(o) \/ HasShown(o) \/ Graphing(o)
  OBVIOUS
<1>3. CASE o.pc \in {"idle", "done"} \/ o.cred # "account" \/ "write" \in Range(o.todo)
  <2>1. req'[p] = o
    BY <1>3 DEF Watch
  <2>2. Current(o, orgRole', projRole')
    <3>1. CASE o.pc \in {"idle", "done"} \/ o.cred # "account"
      BY <3>1 DEF Current
    <3>2. CASE o.pc \notin {"idle", "done"} /\ "write" \in Range(o.todo)
      <4>1. Working(o)
        <5>1. Graphing(o) => o.todo = <<>>
          BY DEF Graphing
        <5>2. o.todo # <<>>
          BY <3>2 DEF Range
        <5> QED
          BY <1>2, <3>2, <5>1, <5>2 DEF Over, HasShown
      <4>2. PICK i \in 1..Len(Reads[o.op]) + 1 : o.todo = SubSeq(Reads[o.op], i, Len(Reads[o.op]))
        BY <4>1 DEF Working, Remaining
      <4>3. o.op \in DOMAIN Reads /\ Reads[o.op] \in Seq(ReadSteps)
        BY <4>1, ReadsOrder DEF Working
      <4>4. Range(o.todo) \subseteq Range(Reads[o.op])
        BY <4>2, <4>3, SuffixSteps
      <4> QED
        BY <3>2, <4>3, <4>4 DEF Current
    <3> QED
      BY <1>3, <3>1, <3>2
  <2> QED
    BY <1>2, <2>1, <2>2 DEF Good
<1>4. CASE ~(o.pc \in {"idle", "done"} \/ o.cred # "account" \/ "write" \in Range(o.todo))
  <2>1. req'[p] = [o EXCEPT !.held = @ \cup more]
    BY <1>4 DEF Watch
  <2>2. o.user \in Users
    BY <1>2, <1>4 DEF Over, Working, HasShown, Graphing
  <2>3. more \in SUBSET [scope : {"org", "project"}, role : AllRoles]
    BY <2>2 DEF TablesOK, HeldBy
  <2> DEFINE r == req'[p]
  <2> HIDE DEF r, o
  <2>4. /\ r \in Call
        /\ Over(r) \/ Working(r) \/ HasShown(r) \/ Graphing(r)
        /\ r.user = o.user /\ more \subseteq r.held
    <3> HIDE DEF more
    <3> QED
      BY <1>2, <2>1, <2>3, MoreHeld DEF r
  <2>5. Good(r, orgRole', projRole')
    BY <2>4 DEF Good, Current
  <2> QED
    BY <2>4, <2>5 DEF r
<1> QED
  BY <1>3, <1>4

\* What a write makes of the tables.
LEMMA WrittenTables ==
    ASSUME CallsInv, NEW q \in Calls, At(q, "write"), Written(q), UNCHANGED shared
    PROVE  TablesOK'
<1> DEFINE o == req[q]
<1>1. TablesOK /\ o \in Call
  BY DEF CallsInv
<1>2. Working(o) /\ o.user \in Users
  BY AtStep DEF Working
<1>3. CASE o.op = "create_org"
  <2>1. orgRole' = [orgRole EXCEPT ![o.user] = "owner"] /\ UNCHANGED <<projRole, package>>
    BY <1>3 DEF Written
  <2>2. orgRole' \in [Users -> AllRoles]
    BY <1>1, <2>1 DEF TablesOK, AllRoles
  <2> QED
    BY <1>1, <2>1, <2>2 DEF TablesOK, PackageRow, AllRoles
<1>4. CASE o.op = "create_package"
  <2>1. package' \in PrivateRows /\ UNCHANGED <<orgRole, projRole>>
    BY <1>4 DEF Written
  <2>2. package' \in PackageRow
    BY <2>1 DEF PrivateRows, PackageRow, Visibilities
  <2> QED
    BY <1>1, <2>1, <2>2 DEF TablesOK, PackageRow, AllRoles
<1>5. CASE o.op = "update_package_settings"
  <2>1. PICK inProject \in BOOLEAN :
           package' = [package EXCEPT !.settings = SettingsPatch(q), !.in_project = inProject]
    BY <1>5 DEF Written
  <2>2. package # Nothing /\ UNCHANGED <<orgRole, projRole>>
    BY <1>5 DEF Written
  <2>3. package \in PackageRow
    BY <1>1, <2>2 DEF TablesOK
  <2>4. o.row \in [settings : [Fields -> Texts]] /\ o.patch \in Patches
    <3>1. PICK i \in 1..Len(Reads[o.op]) : Remaining(o, i) /\ Reads[o.op][i] = "write"
      BY AtStep
    <3>2. i > 1
      BY <1>2, <1>5, <3>1, ReadsOrder DEF Working
    <3> QED
      BY <1>2, <1>5, <3>1, <3>2 DEF Remaining, Working
  <2>5. SettingsPatch(q) \in [Fields -> Texts]
    <3>1. ASSUME NEW f \in Fields, NamesField(q, f) PROVE o.patch[f] \in Texts
      <4>1. o.patch[f] \in Texts \cup {Nothing, Empty} /\ (o.patch[f] = Empty => f = "config")
        BY <2>4 DEF Patches
      <4> QED
        BY <3>1, <4>1 DEF NamesField
    <3>2. \A f \in Fields : o.row.settings[f] \in Texts
      BY <2>4
    <3> QED
      BY <3>1, <3>2 DEF SettingsPatch
  <2> DEFINE x == SettingsPatch(q)
  <2> HIDE DEF x
  <2>6. package' \in PackageRow
    BY <2>1, <2>3, <2>5 DEF PackageRow, x
  <2> QED
    BY <1>1, <2>2, <2>6 DEF TablesOK, PackageRow, AllRoles
<1>6. CASE o.op = "make_package_public"
  <2>1. /\ package # Nothing /\ package' = [package EXCEPT !.visibility = "public"]
        /\ UNCHANGED <<orgRole, projRole>>
    BY <1>6 DEF Written
  <2>2. package' \in PackageRow
    BY <1>1, <2>1 DEF TablesOK, PackageRow, Visibilities
  <2> QED
    BY <1>1, <2>1, <2>2 DEF TablesOK, PackageRow, AllRoles
<1>7. CASE o.op \notin {"create_org", "create_package", "update_package_settings",
                        "make_package_public"}
  <2>1. UNCHANGED <<orgRole, projRole, package>>
    BY <1>7 DEF Written
  <2> QED
    BY <1>1, <2>1, TablesKept
<1> QED
  BY <1>3, <1>4, <1>5, <1>6, <1>7

\* A write that commits, whether its handler is still there or not.
LEMMA Committed ==
    ASSUME CallsInv, NEW q \in Calls, NEW code \in Nat, At(q, "write"), Written(q),
           req' = Watch([req EXCEPT ![q] = [Idle EXCEPT !.pc = "done", !.answer = code,
                                                        !.wrote = TRUE]]),
           UNCHANGED shared
    PROVE  CallsInv'
<1> DEFINE over == [Idle EXCEPT !.pc = "done", !.answer = code, !.wrote = TRUE]
           t == [req EXCEPT ![q] = over]
<1>1. over \in Call /\ Over(over)
  BY OverRecords
<1>2. TablesOK'
  BY WrittenTables
<1>3. req' = Watch(t)
  OBVIOUS
<1> HIDE DEF over
<1>4. t \in [Calls -> Call]
  BY <1>1 DEF CallsInv
<1>5. \A p \in Calls : Over(t[p]) \/ Working(t[p]) \/ HasShown(t[p]) \/ Graphing(t[p])
  BY <1>1 DEF CallsInv, Good
<1> HIDE DEF t
<1> QED
  BY <1>2, <1>3, <1>4, <1>5, Watched

\* The write is answered, refused or abandoned.
LEMMA CallsInv_Write ==
    ASSUME CallsInv, NEW q \in Calls, UNCHANGED shared, Write(q) \/ TimeOut(q)
    PROVE  CallsInv'
<1>1. CASE /\ \E code \in map_orm_error \cup {408} : Answer(q, code)
           /\ UNCHANGED <<exists, orgRole, projRole, package>>
  <2>1. map_orm_error \cup {408} \subseteq Nat
    BY DEF map_orm_error
  <2> QED
    BY <1>1, <2>1, Refusal
<1>2. CASE /\ At(q, "write") /\ Written(q)
           /\ \E code \in {200, 408} :
                 req' = Watch([req EXCEPT ![q] = [Idle EXCEPT !.pc = "done", !.answer = code,
                                                              !.wrote = TRUE]])
  <2>1. PICK code \in {200, 408} :
           req' = Watch([req EXCEPT ![q] = [Idle EXCEPT !.pc = "done", !.answer = code,
                                                        !.wrote = TRUE]])
    BY <1>2
  <2>2. code \in Nat
    OBVIOUS
  <2> QED
    BY <1>2, <2>1, <2>2, Committed
<1> QED
  BY <1>1, <1>2 DEF Write, TimeOut

\* Members come and go.
LEMMA CallsInv_MembershipChanges ==
    ASSUME CallsInv, UNCHANGED shared, MembershipChanges
    PROVE  CallsInv'
<1>1. TablesOK'
  <2>1. TablesOK /\ UNCHANGED package
    BY DEF CallsInv, MembershipChanges
  <2>2. orgRole' \in [Users -> AllRoles] /\ projRole' \in [Users -> AllRoles]
    BY <2>1 DEF MembershipChanges, TablesOK, AllRoles
  <2> QED
    BY <2>1, <2>2 DEF TablesOK, PackageRow, AllRoles
<1>2. req' = Watch(req)
  BY DEF MembershipChanges
<1>3. /\ req \in [Calls -> Call]
      /\ \A p \in Calls : Over(req[p]) \/ Working(req[p]) \/ HasShown(req[p]) \/ Graphing(req[p])
  BY DEF CallsInv, Good
<1> QED
  BY <1>1, <1>2, <1>3, Watched

-----------------------------------------------------------------------------
(* Graph calls.                                                            *)

\* A graph call goes on with the same caller and what it was seen to hold.
LEMMA GraphMoved ==
    ASSUME CallsInv, NEW q \in Calls, req[q].pc \in GraphSteps,
           NEW r \in Call, Graphing(r), r.cred = req[q].cred, r.user = req[q].user,
           r.held = req[q].held, req' = [req EXCEPT ![q] = r],
           TablesOK', UNCHANGED <<orgRole, projRole>>
    PROVE  CallsInv'
<1>1. Graphing(req[q]) /\ Current(req[q], orgRole, projRole)
  BY WhereCallsAre DEF CallsInv, Good
<1>2. Current(r, orgRole, projRole)
  BY <1>1 DEF Current, Graphing, GraphSteps
<1>3. Good(r, orgRole, projRole)
  BY <1>2 DEF Good
<1> QED
  BY <1>3, OneCall

\* A graph call arrives, or is refused for its view or format.
LEMMA CallsInv_get_declared_graph ==
    ASSUME CallsInv, NEW q \in Calls, get_declared_graph(q)
    PROVE  CallsInv'
<1>1. PICK c \in Creds, u \in Users, next \in {"load", "done"} :
         req' = [req EXCEPT ![q] = [Idle EXCEPT !.op = "graph", !.user = u, !.cred = c,
                        !.pc = next, !.answer = IF next = "done" THEN 406 ELSE Nothing,
                        !.held = IF c = "account" THEN HeldBy(u, orgRole, projRole) ELSE {}]]
  BY DEF get_declared_graph
<1> DEFINE held == IF c = "account" THEN HeldBy(u, orgRole, projRole) ELSE {}
           answer == IF next = "done" THEN 406 ELSE Nothing
           r == [Idle EXCEPT !.op = "graph", !.user = u, !.cred = c, !.pc = next,
                             !.answer = answer, !.held = held]
<1>2. req' = [req EXCEPT ![q] = r]
  BY <1>1
<1>3. held \subseteq [scope : {"org", "project"}, role : AllRoles]
  BY HeldByType DEF CallsInv
<1>4. answer \in Nat \cup {Nothing}
  OBVIOUS
<1>5. c = "account" => HeldBy(u, orgRole, projRole) \subseteq held
  OBVIOUS
<1> HIDE DEF held, answer
<1>6. r \in Call
  BY <1>3, <1>4, IdleIsCall, ZenonT(40) DEF Call, GraphSteps
<1>7. /\ r.op = "graph" /\ r.user = u /\ r.cred = c /\ r.pc = next /\ r.todo = <<>>
      /\ r.role = Nothing /\ ~r.wrote /\ r.held = held /\ r.row = Nothing
      /\ next # "done" => r.answer = Nothing
  BY DEF Idle, answer
<1> HIDE DEF r
<1>8. Graphing(r)
  BY <1>7 DEF Graphing, GraphSteps
<1>9. Good(r, orgRole, projRole)
  BY <1>5, <1>6, <1>7, <1>8 DEF Good, Current
<1>10. TablesOK' /\ UNCHANGED <<orgRole, projRole>>
  BY TablesKept DEF CallsInv, get_declared_graph, ReadOnly
<1> QED
  BY <1>2, <1>9, <1>10, OneCall

\* A graph call that only moves to another of its steps.
LEMMA GraphStep ==
    ASSUME CallsInv, NEW q \in Calls, req[q].pc \in GraphSteps \ {"load"},
           NEW p \in GraphSteps \ {"load"}, req' = [req EXCEPT ![q].pc = p],
           p \in {"user", "role_org", "role_project"} => req[q].cred = "account",
           p = "role_project" => req[q].row.in_project,
           p = "version" => HasAuthority(req[q]),
           ReadOnly, UNCHANGED shared
    PROVE  CallsInv'
<1> DEFINE o == req[q]
           r == [o EXCEPT !.pc = p]
<1>1. o \in Call /\ req \in [Calls -> Call]
  BY DEF CallsInv
<1>2. r \in Call
  BY <1>1, StepType
<1>3. /\ r.op = o.op /\ r.user = o.user /\ r.cred = o.cred /\ r.pc = p /\ r.role = o.role
      /\ r.wrote = o.wrote /\ r.held = o.held /\ r.row = o.row /\ r.todo = o.todo
      /\ r.answer = o.answer
  BY <1>1 DEF Call
<1>4. req' = [req EXCEPT ![q] = r]
  BY <1>1
<1>5. Graphing(o)
  BY WhereCallsAre
<1>6. TablesOK' /\ UNCHANGED <<orgRole, projRole>>
  BY TablesKept DEF CallsInv, ReadOnly
<1> HIDE DEF r
<1>7. Graphing(r)
  BY <1>3, <1>5 DEF Graphing, HasAuthority, GraphSteps
<1> QED
  BY <1>2, <1>3, <1>4, <1>6, <1>7, GraphMoved

\* The package is looked up, once.
LEMMA CallsInv_load_package ==
    ASSUME CallsInv, NEW q \in Calls, load_package(q)
    PROVE  CallsInv'
<1>1. req[q].pc = "load" /\ UNCHANGED <<orgRole, projRole, package, shared>>
  BY DEF load_package, ReadOnly
<1>2. CASE \E code \in {404, 500, 503} : Answer(q, code)
  BY <1>1, <1>2, Refusal
<1>3. CASE ~ \E code \in {404, 500, 503} : Answer(q, code)
  <2> DEFINE o == req[q]
             row == [visibility |-> package.visibility, in_project |-> package.in_project]
             m == [o EXCEPT !.pc = "authorize"]
             r == [m EXCEPT !.row = row]
  <2>1. package # Nothing /\ req' = [req EXCEPT ![q].pc = "authorize", ![q].row = row]
    BY <1>3 DEF load_package
  <2>2. o \in Call /\ req \in [Calls -> Call] /\ Graphing(o)
    BY <1>1, WhereCallsAre DEF CallsInv, GraphSteps
  <2>3. package \in PackageRow
    BY <2>1 DEF CallsInv, TablesOK
  <2>4. row \in GraphRow
    BY <2>3 DEF PackageRow, GraphRow
  <2> HIDE DEF row
  <2>5. req' = [req EXCEPT ![q] = r]
    BY <2>1, <2>2
  <2>6. m \in Call
    BY <2>2, StepType DEF GraphSteps
  <2>7. /\ m.op = o.op /\ m.user = o.user /\ m.cred = o.cred /\ m.pc = "authorize"
        /\ m.role = o.role /\ m.wrote = o.wrote /\ m.held = o.held /\ m.todo = o.todo
        /\ m.answer = o.answer
    BY <2>2 DEF Call
  <2> HIDE DEF m
  <2>8. r \in Call
    BY <2>4, <2>6, MoreFields
  <2>9. /\ r.op = o.op /\ r.user = o.user /\ r.cred = o.cred /\ r.pc = "authorize"
        /\ r.role = o.role /\ r.wrote = o.wrote /\ r.held = o.held /\ r.row = row
        /\ r.todo = o.todo /\ r.answer = o.answer
    BY <2>6, <2>7 DEF Call
  <2> HIDE DEF r
  <2>10. Graphing(r)
    BY <1>1, <2>2, <2>4, <2>9 DEF Graphing, GraphSteps
  <2>11. TablesOK' /\ UNCHANGED <<orgRole, projRole>>
    BY <1>1, TablesKept DEF CallsInv
  <2>12. o.pc \in GraphSteps
    BY <1>1 DEF GraphSteps
  <2> QED
    BY <2>5, <2>8, <2>9, <2>10, <2>11, <2>12, GraphMoved
<1> QED
  BY <1>2, <1>3

\* Public rows are open, a token of the organization opens the others.
LEMMA CallsInv_authorize ==
    ASSUME CallsInv, NEW q \in Calls, authorize_declared_graph(q)
    PROVE  CallsInv'
<1>1. req[q].pc = "authorize" /\ ReadOnly /\ UNCHANGED shared
  BY DEF authorize_declared_graph
<1>2. CASE Answer(q, 404)
  BY <1>1, <1>2, Refusal DEF ReadOnly
<1>3. CASE Grant(q) /\ (req[q].row.visibility = "public" \/ req[q].cred = "org_token")
  <2>1. HasAuthority(req[q]) /\ req' = [req EXCEPT ![q].pc = "version"]
    BY <1>3 DEF HasAuthority, Grant
  <2>2. req[q].pc \in GraphSteps \ {"load"} /\ "version" \in GraphSteps \ {"load"}
    BY <1>1 DEF GraphSteps
  <2> QED
    BY <1>1, <2>1, <2>2, GraphStep
<1>4. CASE req' = [req EXCEPT ![q].pc = "user"] /\ req[q].cred = "account"
  <2>1. req[q].pc \in GraphSteps \ {"load"} /\ "user" \in GraphSteps \ {"load"}
    BY <1>1 DEF GraphSteps
  <2> QED
    BY <1>1, <1>4, <2>1, GraphStep
<1> QED
  BY <1>2, <1>3, <1>4 DEF authorize_declared_graph

\* The account must be projected and hold a role over the row.
LEMMA CallsInv_graph_roles ==
    ASSUME CallsInv, NEW q \in Calls, graph_roles(q)
    PROVE  CallsInv'
<1> DEFINE o == req[q]
<1>1. o.pc \in {"user", "role_org", "role_project"} /\ ReadOnly /\ UNCHANGED shared
  BY DEF graph_roles
<1>2. o.pc \in GraphSteps \ {"load"}
  BY <1>1 DEF GraphSteps
<1>3. Graphing(o) /\ o.cred = "account" /\ o.op = "graph"
  BY <1>1, <1>2, WhereCallsAre DEF Graphing
<1>4. HeldBy(o.user, orgRole, projRole) \subseteq o.held
  <2>1. Current(o, orgRole, projRole)
    BY DEF CallsInv, Good
  <2>2. "graph" \notin DOMAIN Reads
    BY DEF Reads
  <2> QED
    BY <1>1, <1>3, <2>1, <2>2 DEF Current
<1>5. CASE Answer(q, 404)
  BY <1>1, <1>5, Refusal DEF ReadOnly
<1>6. CASE req' = [req EXCEPT ![q].pc = "role_org"]
  <2>1. "role_org" \in GraphSteps \ {"load"}
    BY DEF GraphSteps
  <2> QED
    BY <1>1, <1>2, <1>3, <1>6, <2>1, GraphStep
<1>7. CASE req' = [req EXCEPT ![q].pc = "role_project"] /\ o.row.in_project
  <2>1. "role_project" \in GraphSteps \ {"load"}
    BY DEF GraphSteps
  <2> QED
    BY <1>1, <1>2, <1>3, <1>7, <2>1, GraphStep
<1>8. CASE Grant(q) /\ (\/ orgRole[o.user] # Nothing
                        \/ o.pc = "role_project" /\ projRole[o.user] # Nothing)
  <2>1. \E h \in o.held : h.scope = "org" \/ o.row.in_project
    <3>1. CASE orgRole[o.user] # Nothing
      <4>1. [scope |-> "org", role |-> orgRole[o.user]] \in o.held
        BY <1>4, <3>1 DEF HeldBy
      <4> QED
        BY <4>1
    <3>2. CASE o.pc = "role_project" /\ projRole[o.user] # Nothing
      <4>1. [scope |-> "project", role |-> projRole[o.user]] \in o.held
        BY <1>4, <3>2 DEF HeldBy
      <4>2. o.row.in_project
        BY <1>3, <3>2 DEF Graphing
      <4> QED
        BY <4>1, <4>2
    <3> QED
      BY <1>8, <3>1, <3>2
  <2>2. HasAuthority(o) /\ req' = [req EXCEPT ![q].pc = "version"]
    BY <1>8, <2>1 DEF HasAuthority, Grant
  <2>3. "version" \in GraphSteps \ {"load"}
    BY DEF GraphSteps
  <2> QED
    BY <1>1, <1>2, <2>2, <2>3, GraphStep
<1> QED
  BY <1>5, <1>6, <1>7, <1>8 DEF graph_roles

\* The answer is made from the row that was authorized.
LEMMA CallsInv_respond ==
    ASSUME CallsInv, NEW q \in Calls, respond(q)
    PROVE  CallsInv'
<1> DEFINE o == req[q]
<1>1. o.pc = "version" /\ ReadOnly /\ o \in Call /\ req \in [Calls -> Call] /\ Graphing(o)
  BY WhereCallsAre DEF respond, CallsInv, GraphSteps
<1>2. o.row \in GraphRow /\ HasAuthority(o)
  BY <1>1 DEF Graphing, GraphSteps
<1>3. PICK code \in Nat : req' = [req EXCEPT ![q] = [o EXCEPT !.pc = "done", !.answer = code]]
  <2>1. CASE \E code \in DocumentErrors : req' = [req EXCEPT ![q].pc = "done", ![q].answer = code]
    <3>1. DocumentErrors \subseteq Nat
      BY DEF DocumentErrors
    <3> QED
      BY <1>1, <2>1, <3>1
  <2> DEFINE Answered(code) ==
                req' = [req EXCEPT ![q] = [@ EXCEPT !.pc = "done", !.answer = code,
                                                    !.row = AnsweredRow(q)]]
  <2>2. CASE \E code \in {200, 304} : Answered(code)
    <3>1. PICK code \in Nat : Answered(code)
      <4> HIDE DEF Answered
      <4> QED
        BY <2>2
    <3> DEFINE m == [o EXCEPT !.pc = "done", !.answer = code]
    <3>2. m \in Call
      BY <1>1, MoreFields
    <3>3. m.row = o.row
      BY <1>1 DEF Call
    <3>4. req' = [req EXCEPT ![q] = [m EXCEPT !.row = o.row]]
      BY <1>1, <3>1 DEF AnsweredRow
    <3> HIDE DEF m
    <3>5. [m EXCEPT !.row = o.row] = m
      BY <3>2, <3>3 DEF Call
    <3> QED
      BY <3>2, <3>4, <3>5 DEF m
  <2> QED
    BY <2>1, <2>2, ZenonT(40) DEF respond
<1> DEFINE r == [o EXCEPT !.pc = "done", !.answer = code]
<1>4. r \in Call
  BY <1>1, MoreFields
<1>5. /\ r.op = o.op /\ r.user = o.user /\ r.cred = o.cred /\ r.pc = "done" /\ r.role = o.role
      /\ r.wrote = o.wrote /\ r.held = o.held /\ r.row = o.row /\ r.todo = o.todo
  BY <1>1 DEF Call
<1> HIDE DEF r
<1>6. Graphing(r)
  BY <1>1, <1>2, <1>5 DEF Graphing, HasAuthority, GraphSteps
<1>7. TablesOK' /\ UNCHANGED <<orgRole, projRole>>
  <2>1. shared' \subseteq {"public"}
    BY DEF respond, Cacheable, CallsInv, TablesOK
  <2> QED
    BY <1>1, <2>1 DEF ReadOnly, CallsInv, TablesOK, PackageRow, AllRoles
<1>8. o.pc \in GraphSteps
  BY <1>1 DEF GraphSteps
<1> QED
  BY <1>3, <1>4, <1>5, <1>6, <1>7, <1>8, GraphMoved DEF r

\* The visibility changes elsewhere, which no call takes notice of.
LEMMA CallsInv_VisibilityChanges ==
    ASSUME CallsInv, VisibilityChanges
    PROVE  CallsInv'
<1>1. UNCHANGED <<orgRole, projRole, req, shared>> /\ TablesOK
  BY DEF VisibilityChanges, CallsInv
<1>2. package' \in PackageRow
  BY <1>1 DEF VisibilityChanges, TablesOK, PackageRow, Visibilities
<1>3. TablesOK'
  BY <1>1, <1>2 DEF TablesOK, PackageRow, AllRoles
<1> QED
  BY <1>1, <1>3 DEF CallsInv, Good, Current, HeldBy

-----------------------------------------------------------------------------
(* The theorems.                                                           *)

\* The memberships and calls of the initial state.
LEMMA CallsInv_Init == ASSUME GraphInit PROVE CallsInv
<1>1. TablesOK
  <2>1. package \in PackageRow \cup {Nothing}
    BY DEF GraphInit, AccountInit, PrivateRows, PackageRow, Visibilities
  <2> QED
    BY <2>1 DEF GraphInit, AccountInit, TablesOK, AllRoles
<1>2. req = [q \in Calls |-> Idle]
  BY DEF GraphInit, AccountInit
<1>3. Over(Idle) /\ Current(Idle, orgRole, projRole)
  BY DEF Over, Current, Idle
<1> QED
  BY <1>1, <1>2, <1>3, IdleIsCall DEF CallsInv, Good

\* Every step keeps what the handlers rely on.
LEMMA CallsInv_Next == ASSUME CallsInv, [GraphNext]_graphVars PROVE CallsInv'
<1>1. CASE UNCHANGED graphVars
  BY <1>1 DEF graphVars, accountVars, CallsInv, TablesOK, Good, Current, HeldBy, PackageRow, AllRoles
<1>2. CASE AccountStep
  <2>1. CASE MembershipChanges
    BY <1>2, <2>1, CallsInv_MembershipChanges DEF AccountStep
  <2>2. CASE \E q \in Calls : Arrive(q) \/ Handle(q)
    <3>1. PICK q \in Calls : Arrive(q) \/ Handle(q)
      BY <2>2
    <3>2. UNCHANGED shared
      BY <1>2 DEF AccountStep
    <3> QED
      BY <3>1, <3>2, CallsInv_Arrive, CallsInv_authenticated, CallsInv_find_row,
         CallsInv_find_package, CallsInv_org_role, CallsInv_project_role, CallsInv_Show,
         CallsInv_Write DEF Handle
  <2> QED
    BY <1>2, <2>1, <2>2 DEF AccountStep
<1>3. CASE VisibilityChanges
  BY <1>3, CallsInv_VisibilityChanges
<1>4. ASSUME NEW q \in Calls,
             \/ get_declared_graph(q) \/ load_package(q) \/ authorize_declared_graph(q)
             \/ graph_roles(q) \/ respond(q)
      PROVE  CallsInv'
  BY <1>4, CallsInv_get_declared_graph, CallsInv_load_package, CallsInv_authorize,
     CallsInv_graph_roles, CallsInv_respond
<1> QED
  BY <1>1, <1>2, <1>3, <1>4 DEF GraphNext

\* The inductive invariant: between two queries a handler holds only roles
\* its user has had during the request, and rows of the kind its next step
\* uses; a graph call that is past the checks has authority over its row.
THEOREM CallInvariance == GraphSpec => []CallsInv
<1>1. GraphInit => CallsInv
  BY CallsInv_Init
<1>2. CallsInv /\ [GraphNext]_graphVars => CallsInv'
  BY CallsInv_Next
<1> QED
  BY <1>1, <1>2, PTL DEF GraphSpec

\* Whenever an account page shows rows, its user held a role that covers them
\* at some moment of the request (account.rs).
THEOREM ShownToMembers == GraphSpec => []ShownMeansMember
<1>1. ASSUME CallsInv PROVE ShownMeansMember
  <2>1. SUFFICES ASSUME NEW q \in Calls, Shows(req[q])
                 PROVE  Covered(req[q], req[q].role)
    BY DEF ShownMeansMember
  <2>2. req[q].pc = "done" /\ req[q].op # "graph" /\ req[q].op # Nothing
    BY <2>1, OpAssumption DEF Shows, Reads
  <2>3. Over(req[q]) \/ Working(req[q]) \/ HasShown(req[q]) \/ Graphing(req[q])
    BY <1>1 DEF CallsInv, Good
  <2> QED
    BY <2>1, <2>2, <2>3 DEF Over, Working, HasShown, Graphing
<1> QED
  BY <1>1, CallInvariance, PTL

\* Neither an answer nor a shared cache tells a caller without authority of a
\* graph that was not public when it was read (graph.rs).
THEOREM GraphConcealed == GraphSpec => []GraphIsConcealed
<1>1. ASSUME CallsInv PROVE GraphIsConcealed
  <2>1. ASSUME NEW q \in Calls, req[q].op = "graph", req[q].row # Nothing,
               req[q].answer \notin {Nothing, 404, 408}
        PROVE  HasAuthority(req[q])
    <3>1. Over(req[q]) \/ Working(req[q]) \/ HasShown(req[q]) \/ Graphing(req[q])
      BY <1>1 DEF CallsInv, Good
    <3>2. "graph" \notin DOMAIN Reads
      BY DEF Reads
    <3>3. Graphing(req[q])
      BY <2>1, <3>1, <3>2 DEF Over, Working, HasShown
    <3> QED
      BY <2>1, <3>3 DEF Graphing, GraphSteps
  <2> QED
    BY <1>1, <2>1 DEF GraphIsConcealed, CallsInv, TablesOK
<1> QED
  BY <1>1, CallInvariance, PTL

\* Only a write that commits, or the outside world, changes the package.
LEMMA PackageChanges ==
    ASSUME [GraphNext]_graphVars, package' # package
    PROVE  \/ VisibilityChanges
           \/ \E q \in Calls :
                 /\ At(q, "write") /\ Written(q)
                 /\ \E over : /\ over.pc = "done" /\ over.wrote
                              /\ req' = Watch([req EXCEPT ![q] = over])
<1>1. CASE VisibilityChanges
  BY <1>1
<1>2. CASE \E q \in Calls : Write(q) \/ TimeOut(q)
  <2>1. PICK q \in Calls : Write(q) \/ TimeOut(q)
    BY <1>2
  <2> DEFINE over(code) == [Idle EXCEPT !.pc = "done", !.answer = code, !.wrote = TRUE]
  <2>2. /\ At(q, "write") /\ Written(q)
        /\ \/ req' = Watch([req EXCEPT ![q] = over(200)])
           \/ req' = Watch([req EXCEPT ![q] = over(408)])
    BY <2>1 DEF Write, TimeOut
  <2>3. \A code : over(code).pc = "done" /\ over(code).wrote
    BY DEF Idle
  <2> HIDE DEF over
  <2>4. \E code : req' = Watch([req EXCEPT ![q] = over(code)])
    BY <2>2
  <2>5. PICK code : req' = Watch([req EXCEPT ![q] = over(code)])
    BY <2>4
  <2> DEFINE r == over(code)
  <2>6. r.pc = "done" /\ r.wrote /\ req' = Watch([req EXCEPT ![q] = r])
    BY <2>3, <2>5
  <2> HIDE DEF r
  <2> QED
    BY <2>2, <2>6
<1>3. CASE UNCHANGED graphVars \/ MembershipChanges
  BY <1>3 DEF graphVars, accountVars, MembershipChanges
<1>4. CASE \E q \in Calls :
              \/ Arrive(q) \/ authenticated(q) \/ authenticated_and_projected(q)
              \/ DataPlaneFails(q) \/ find_row(q, "org") \/ find_row(q, "project")
              \/ find_package(q) \/ org_role_for_user(q) \/ project_role_for_user(q)
              \/ orgs_for_user(q) \/ ShowLists(q) \/ ShowSettings(q) \/ check_input(q)
  BY <1>4, ZenonT(40) DEF Arrive, authenticated, authenticated_and_projected, DataPlaneFails, find_row,
     find_package, org_role_for_user, project_role_for_user, orgs_for_user, ShowLists,
     ShowSettings, check_input, ReadOnly
<1>5. CASE \E q \in Calls :
              \/ get_declared_graph(q) \/ load_package(q) \/ authorize_declared_graph(q)
              \/ graph_roles(q) \/ respond(q)
  BY <1>5, ZenonT(40) DEF get_declared_graph, load_package, authorize_declared_graph, graph_roles, respond,
     ReadOnly
<1> QED
  BY <1>1, <1>2, <1>3, <1>4, <1>5 DEF GraphNext, AccountStep, Handle

\* A setting that a patch does not name changes only by a write whose read
\* had been overtaken; an empty config names nothing (update_package_settings
\* in account.rs).
THEOREM UnnamedFields == GraphSpec => UnnamedFieldChangesOnlyByStaleRead
<1> DEFINE Overtaken ==
              package # Nothing =>
                 \A f \in Fields : package'.settings[f] # package.settings[f] =>
                    \E q \in Calls :
                       /\ req[q].op = "update_package_settings"
                       /\ ~req[q].wrote /\ req'[q].wrote
                       /\ \/ req[q].patch[f] \notin {Nothing, Empty}
                          \/ req[q].row.settings[f] # package.settings[f]
<1>1. ASSUME CallsInv, [GraphNext]_graphVars PROVE Overtaken
  <2>1. SUFFICES ASSUME package # Nothing, NEW f \in Fields,
                        package'.settings[f] # package.settings[f]
                 PROVE  \E q \in Calls :
                           /\ req[q].op = "update_package_settings"
                           /\ ~req[q].wrote /\ req'[q].wrote
                           /\ \/ req[q].patch[f] \notin {Nothing, Empty}
                              \/ req[q].row.settings[f] # package.settings[f]
    OBVIOUS
  <2>2. package \in PackageRow
    BY <1>1, <2>1 DEF CallsInv, TablesOK
  <2>3. ~VisibilityChanges
    BY <2>1, <2>2 DEF VisibilityChanges, PackageRow
  <2>4. PICK q \in Calls :
           /\ At(q, "write") /\ Written(q)
           /\ \E over : /\ over.pc = "done" /\ over.wrote
                        /\ req' = Watch([req EXCEPT ![q] = over])
    BY <1>1, <2>1, <2>3, PackageChanges
  <2> DEFINE o == req[q]
  <2>5. ~o.wrote /\ o.patch \in Patches
    <3>1. Working(o)
      BY <1>1, <2>4, AtStep
    <3> QED
      BY <3>1 DEF Working
  <2>6. o.op = "update_package_settings"
    <3>1. CASE o.op = "make_package_public"
      BY <2>1, <2>2, <2>4, <3>1 DEF Written, PackageRow
    <3>2. CASE o.op = "create_package"
      BY <2>1, <2>4, <3>2 DEF Written
    <3>3. CASE o.op \notin {"make_package_public", "create_package", "update_package_settings"}
      <4>1. UNCHANGED package
        BY <2>4, <3>3 DEF Written
      <4> QED
        BY <2>1, <4>1
    <3> QED
      BY <3>1, <3>2, <3>3
  <2>7. req'[q].wrote
    <3>1. PICK over : /\ over.pc = "done" /\ over.wrote
                      /\ req' = Watch([req EXCEPT ![q] = over])
      BY <2>4
    <3> DEFINE t == [req EXCEPT ![q] = over]
    <3>2. t[q] = over /\ req' = Watch(t)
      BY <1>1, <3>1 DEF CallsInv
    <3> HIDE DEF t
    <3>3. req'[q] = over
      BY <3>1, <3>2 DEF Watch
    <3> QED
      BY <3>1, <3>3
  <2>8. package'.settings = SettingsPatch(q)
    <3>1. PICK inProject \in BOOLEAN :
             package' = [package EXCEPT !.settings = SettingsPatch(q), !.in_project = inProject]
      BY <2>4, <2>6 DEF Written
    <3> DEFINE x == SettingsPatch(q)
    <3> HIDE DEF x
    <3>2. package' = [package EXCEPT !.settings = x, !.in_project = inProject]
      BY <3>1 DEF x
    <3>3. package'.settings = x
      BY <2>2, <3>2 DEF PackageRow
    <3> QED
      BY <3>3 DEF x
  <2>9. package'.settings[f] = IF NamesField(q, f) THEN o.patch[f] ELSE o.row.settings[f]
    BY <2>8 DEF SettingsPatch
  <2>10. ASSUME o.patch[f] \in {Nothing, Empty} PROVE ~NamesField(q, f)
    BY <2>5, <2>10 DEF NamesField, Patches
  <2> QED
    BY <2>1, <2>5, <2>6, <2>7, <2>9, <2>10
<1>2. CallsInv /\ [GraphNext]_graphVars => [Overtaken]_accountVars
  BY <1>1
<1>3. []CallsInv /\ [][GraphNext]_graphVars => [][Overtaken]_accountVars
  BY <1>2, PTL
<1> QED
  BY <1>3, CallInvariance, PTL DEF GraphSpec, UnnamedFieldChangesOnlyByStaleRead

=============================================================================
