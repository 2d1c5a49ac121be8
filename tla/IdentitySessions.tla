-------------------------- MODULE IdentitySessions --------------------------
(***************************************************************************)
(* IdentitySessionStore of packages/api/src/server.js: a challenge is      *)
(* issued, redeemed by a wallet, and consumed by the registration it       *)
(* authorizes.  Every operation is synchronous, the write of the session   *)
(* file included, so each one is a single step.                            *)
(*                                                                         *)
(* The nonce of a challenge is as unique as its session id, and the two    *)
(* sets of used ones grow together: one set stands for both.  Signatures   *)
(* are ideal: a redemption either carries a valid assertion of the wallet  *)
(* or changes nothing.                                                     *)
(***************************************************************************)
EXTENDS Naturals, FiniteSets

CONSTANTS
  Sessions,    \* the session ids, random, that challenges are issued under
  Null,        \* no such session
  ScopeSets,   \* the values session_scope takes
  Ttl,         \* ttlSeconds
  Horizon,     \* bound: the clock stops here
  Persistent   \* identitySessionStoreFilePath is configured

Statuses == {"PENDING", "AUTHORIZED", "CONSUMED", "EXPIRED", "CANCELED"}
Challenge == [status : Statuses, session_expires_at : Nat, session_scope : ScopeSets]

ASSUME SessionAssumption ==
  /\ Null \notin Challenge
  /\ {Ttl, Horizon} \subseteq Nat /\ Persistent \in BOOLEAN

VARIABLES
  now,              \* Math.floor(Date.now() / 1000)
  challenges,       \* #challenges
  usedSessionIds,   \* #usedSessionIds, and #usedNonces
  sessionFile,      \* the two, as the file holds them
  issued,           \* the session ids that have been given out
  grants            \* how many registrations each session has authorized

memory == <<challenges, usedSessionIds>>
sessionVars == <<now, memory, sessionFile, issued, grants>>

Known(s) == challenges[s] # Null
HasStatus(s, S) == Known(s) /\ challenges[s].status \in S
Late(s) == now > challenges[s].session_expires_at

Nothing == [challenges |-> [s \in Sessions |-> Null], used |-> {}]

\* The two sets as a change leaves them; persistToDisk is the last thing
\* every change does.
Save(cs, used) ==
  /\ challenges' = cs
  /\ usedSessionIds' = used
  /\ sessionFile' = IF Persistent THEN [challenges |-> cs, used |-> used] ELSE sessionFile

WithStatus(s, status) == [challenges EXCEPT ![s].status = status]

-----------------------------------------------------------------------------
Issue(s) ==
  /\ s \notin issued
  /\ issued' = issued \cup {s}
  /\ \E scope \in ScopeSets :
       LET challenge ==
             [status |-> "PENDING", session_expires_at |-> now + Ttl, session_scope |-> scope]
       IN Save([challenges EXCEPT ![s] = challenge], usedSessionIds)
  /\ UNCHANGED <<now, grants>>

MutantRedeemAgain(s) ==
  /\ HasStatus(s, {"PENDING", "CONSUMED"})
  /\ Save(WithStatus(s, "AUTHORIZED"), usedSessionIds \cup {s})
  /\ UNCHANGED <<now, issued, grants>>

\* redeem(), with an assertion that verifies unless it comes too late.
Redeem(s) ==
  /\ HasStatus(s, {"PENDING"})
  /\ \/ /\ Late(s)
        /\ Save(WithStatus(s, "EXPIRED"), usedSessionIds)
     \/ /\ ~ Late(s)
        /\ s \notin usedSessionIds
        /\ Save(WithStatus(s, "AUTHORIZED"), usedSessionIds \cup {s})
  /\ UNCHANGED <<now, issued, grants>>

Cancel(s) ==
  /\ HasStatus(s, {"PENDING", "AUTHORIZED"})
  /\ Save(WithStatus(s, "CANCELED"), usedSessionIds)
  /\ UNCHANGED <<now, issued, grants>>

\* authorize(), up to the comparison of the identity with the redeemed one.
Authorizes(s, scope) ==
  /\ HasStatus(s, {"AUTHORIZED"})
  /\ ~ Late(s)
  /\ scope \in challenges[s].session_scope

MutantConsumeInMemory(s) ==
  /\ challenges' = WithStatus(s, "CONSUMED")
  /\ grants' = [grants EXCEPT ![s] = @ + 1]
  /\ UNCHANGED <<now, usedSessionIds, sessionFile, issued>>

\* consume(), which authorize() ends in.
Consume(s) ==
  /\ Save(WithStatus(s, "CONSUMED"), usedSessionIds)
  /\ grants' = [grants EXCEPT ![s] = @ + 1]
  /\ UNCHANGED <<now, issued>>

\* authorize() that refuses: only a session found to be late changes.
RefuseSession(s) ==
  /\ IF HasStatus(s, {"AUTHORIZED"}) /\ Late(s)
       THEN Save(WithStatus(s, "EXPIRED"), usedSessionIds)
       ELSE UNCHANGED <<memory, sessionFile>>
  /\ UNCHANGED <<now, issued, grants>>

Authorize(s, scope) ==
  \/ Authorizes(s, scope) /\ Consume(s)
  \/ RefuseSession(s)

\* The process is started again and loads the file.
Reload ==
  /\ challenges' = sessionFile.challenges
  /\ usedSessionIds' = sessionFile.used
  /\ UNCHANGED <<now, sessionFile, issued, grants>>

Tick ==
  /\ now < Horizon
  /\ now' = now + 1
  /\ UNCHANGED <<memory, sessionFile, issued, grants>>

SessionInit ==
  /\ now = 0
  /\ challenges = Nothing.challenges
  /\ usedSessionIds = Nothing.used
  /\ sessionFile = Nothing
  /\ issued = {}
  /\ grants = [s \in Sessions |-> 0]

SessionNext ==
  \/ \E s \in Sessions :
       \/ Issue(s) \/ Redeem(s) \/ Cancel(s)
       \/ \E scope \in UNION ScopeSets : Authorize(s, scope)
  \/ Reload
  \/ Tick

SessionSpec == SessionInit /\ [][SessionNext]_sessionVars

-----------------------------------------------------------------------------
Table == [challenges : [Sessions -> Challenge \cup {Null}], used : SUBSET Sessions]

SessionTypeOK ==
  /\ now \in Nat
  /\ [challenges |-> challenges, used |-> usedSessionIds] \in Table
  /\ sessionFile \in Table
  /\ issued \subseteq Sessions
  /\ grants \in [Sessions -> Nat]

\* A session authorizes at most one registration, restarts and overlapping
\* requests notwithstanding.
SingleUse == \A s \in Sessions : grants[s] <= 1

\* What has ended stays ended, also when the process is started again: a
\* status that a client has seen is never taken back.
EndedIsFinal ==
  [][ \A s \in Sessions :
        HasStatus(s, {"CONSUMED", "EXPIRED", "CANCELED"}) =>
          challenges'[s] \in {challenges[s], Null} ]_sessionVars

\* The store keeps the promise of the identity layer.  A session that the
\* process has forgotten counts as ended.
PhaseOf(s) ==
  IF s \notin issued THEN "none"
  ELSE IF HasStatus(s, {"PENDING"}) THEN "offered"
  ELSE IF HasStatus(s, {"AUTHORIZED"}) THEN "accepted"
  ELSE "ended"

Promise == INSTANCE OneTimeGrant
             WITH phase <- [s \in Sessions |-> PhaseOf(s)], granted <- grants

ImplementsOneTimeGrant == Promise!Spec
=============================================================================
