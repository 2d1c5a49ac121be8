---------------------------- MODULE SessionProofs ----------------------------
(***************************************************************************)
(* For every number of sessions, with or without a session file, and       *)
(* whatever restarts: the identity session store keeps the promise of      *)
(* OneTimeGrant, what has ended stays ended, and a session authorizes at   *)
(* most one registration.  The proofs are about the single steps of the    *)
(* store, so that a module that composes the store can use them.           *)
(***************************************************************************)
EXTENDS IdentitySessions, TLAPS

-----------------------------------------------------------------------------
(* The identity sessions *)

\* What Save writes is typed when what it is given is.
LEMMA SaveTyped ==
  ASSUME NEW cs \in [Sessions -> Challenge \cup {Null}], NEW used \in SUBSET Sessions,
         sessionFile \in Table, Save(cs, used)
  PROVE  /\ [challenges |-> challenges', used |-> usedSessionIds'] \in Table
         /\ sessionFile' \in Table
  BY DEF Save, Table

\* A known session with another status is still a challenge.
LEMMA StatusTyped ==
  ASSUME SessionTypeOK, NEW s \in Sessions, Known(s), NEW status \in Statuses
  PROVE  WithStatus(s, status) \in [Sessions -> Challenge \cup {Null}]
<1>1. challenges \in [Sessions -> Challenge \cup {Null}] /\ challenges[s] \in Challenge
  BY DEF SessionTypeOK, Table, Known
<1>2. [challenges[s] EXCEPT !.status = status] \in Challenge
  BY <1>1 DEF Challenge
<1>3. QED
  BY <1>1, <1>2 DEF WithStatus

\* The parts of the type invariant of the sessions, one by one.
LEMMA SessionTypes ==
  SessionTypeOK <=>
    /\ now \in Nat
    /\ challenges \in [Sessions -> Challenge \cup {Null}]
    /\ usedSessionIds \in SUBSET Sessions
    /\ sessionFile \in Table
    /\ issued \in SUBSET Sessions
    /\ grants \in [Sessions -> Nat]
  BY DEF SessionTypeOK, Table

\* Every operation of the store, the clock and a restart keep the types.
LEMMA IssueTyped ==
  ASSUME SessionTypeOK, NEW s \in Sessions, Issue(s)
  PROVE  SessionTypeOK'
<1>1. PICK scope \in ScopeSets :
        Save([challenges EXCEPT ![s] = [status |-> "PENDING",
                session_expires_at |-> now + Ttl, session_scope |-> scope]], usedSessionIds)
  BY DEF Issue
<1>2. [status |-> "PENDING", session_expires_at |-> now + Ttl, session_scope |-> scope]
        \in Challenge
  BY SessionAssumption DEF Challenge, Statuses, SessionTypeOK
<1>3. QED
  BY <1>1, <1>2, SaveTyped, SessionTypes DEF Issue, SessionTypeOK

LEMMA RedeemTyped ==
  ASSUME SessionTypeOK, NEW s \in Sessions, Redeem(s)
  PROVE  SessionTypeOK'
<1>1. Known(s)
  BY DEF Redeem, HasStatus
<1>2. /\ WithStatus(s, "EXPIRED") \in [Sessions -> Challenge \cup {Null}]
      /\ WithStatus(s, "AUTHORIZED") \in [Sessions -> Challenge \cup {Null}]
  BY <1>1, StatusTyped DEF Statuses
<1>3. QED
  BY <1>2, SaveTyped, SessionTypes DEF Redeem, SessionTypeOK

LEMMA CancelTyped ==
  ASSUME SessionTypeOK, NEW s \in Sessions, Cancel(s)
  PROVE  SessionTypeOK'
<1>1. WithStatus(s, "CANCELED") \in [Sessions -> Challenge \cup {Null}]
  BY StatusTyped DEF Cancel, HasStatus, Statuses
<1>2. QED
  BY <1>1, SaveTyped, SessionTypes DEF Cancel, SessionTypeOK

LEMMA ConsumeTyped ==
  ASSUME SessionTypeOK, NEW s \in Sessions, Known(s), Consume(s)
  PROVE  SessionTypeOK'
<1>1. WithStatus(s, "CONSUMED") \in [Sessions -> Challenge \cup {Null}]
  BY StatusTyped DEF Statuses
<1>2. QED
  BY <1>1, SaveTyped, SessionTypes DEF Consume, SessionTypeOK

LEMMA RefuseTyped ==
  ASSUME SessionTypeOK, NEW s \in Sessions, RefuseSession(s)
  PROVE  SessionTypeOK'
<1>1. CASE HasStatus(s, {"AUTHORIZED"}) /\ Late(s)
  <2>1. WithStatus(s, "EXPIRED") \in [Sessions -> Challenge \cup {Null}]
    BY <1>1, StatusTyped DEF HasStatus, Statuses
  <2>2. QED
    BY <1>1, <2>1, SaveTyped, SessionTypes DEF RefuseSession, SessionTypeOK
<1>2. CASE ~ (HasStatus(s, {"AUTHORIZED"}) /\ Late(s))
  BY <1>2 DEF RefuseSession, SessionTypeOK, memory
<1>3. QED
  BY <1>1, <1>2

LEMMA ReloadTyped ==
  ASSUME SessionTypeOK, Reload
  PROVE  SessionTypeOK'
  BY DEF Reload, SessionTypeOK, Table

LEMMA TickTyped ==
  ASSUME SessionTypeOK, Tick
  PROVE  SessionTypeOK'
  BY DEF Tick, SessionTypeOK, memory

LEMMA SessionsUnchanged ==
  ASSUME SessionTypeOK, UNCHANGED sessionVars
  PROVE  SessionTypeOK'
  BY DEF sessionVars, memory, SessionTypeOK

-----------------------------------------------------------------------------
(* What a step of the store keeps *)

\* A session that cannot authorize anything any more.
Spent(s) == s \in issued /\ ~ HasStatus(s, {"PENDING", "AUTHORIZED"})

SpentSessions == {s \in Sessions : Spent(s)}

\* The session file is as new as the memory, and only issued sessions are known.
StoreInv ==
  /\ sessionFile.challenges = IF Persistent THEN challenges ELSE [s \in Sessions |-> Null]
  /\ \A s \in Sessions : Known(s) => s \in issued

\* What a step of the store keeps: its own invariant, and what is spent.
StoreKept == StoreInv' /\ \A s \in Sessions : Spent(s) => Spent(s)'

\* A change of one known session's status.
LEMMA StatusKept ==
  ASSUME SessionTypeOK, StoreInv, NEW s \in Sessions, Known(s), NEW status \in Statuses,
         NEW used, Save(WithStatus(s, status), used), issued' = issued,
         status \notin {"PENDING", "AUTHORIZED"} \/ ~ Spent(s)
  PROVE  StoreKept /\ (status \notin {"PENDING", "AUTHORIZED"} => Spent(s)')
<1>1. challenges \in [Sessions -> Challenge \cup {Null}] /\ challenges[s] \in Challenge
  BY DEF SessionTypeOK, Table, Known
<1>2. challenges' = WithStatus(s, status)
  BY DEF Save
<1>3. challenges'[s].status = status
  BY <1>1, <1>2 DEF WithStatus, Challenge
<1>4. \A p \in Sessions \ {s} : challenges'[p] = challenges[p]
  BY <1>1, <1>2 DEF WithStatus
<1>5. s \in issued
  BY DEF StoreInv
<1>6. StoreInv'
  <2>1. \A p \in Sessions : Known(p)' => p \in issued'
    BY <1>4, <1>5 DEF StoreInv, Known
  <2>2. sessionFile'.challenges = IF Persistent THEN challenges' ELSE [p \in Sessions |-> Null]
    BY DEF Save, StoreInv
  <2>3. QED
    BY <2>1, <2>2 DEF StoreInv
<1>7. status \notin {"PENDING", "AUTHORIZED"} => Spent(s)'
  BY <1>3, <1>5 DEF Spent, HasStatus
<1>8. ASSUME NEW p \in Sessions, Spent(p)
      PROVE  Spent(p)'
  <2>1. CASE p = s
    BY <1>7, <1>8, <2>1
  <2>2. CASE p # s
    BY <1>4, <1>8, <2>2 DEF Spent, HasStatus, Known
  <2>3. QED
    BY <2>1, <2>2
<1>9. QED
  BY <1>6, <1>7, <1>8 DEF StoreKept

LEMMA IssueKept ==
  ASSUME SessionTypeOK, StoreInv, NEW s \in Sessions, Issue(s)
  PROVE  StoreKept
<1>1. challenges \in [Sessions -> Challenge \cup {Null}]
  BY DEF SessionTypeOK, Table
<1>2. PICK c : Save([challenges EXCEPT ![s] = c], usedSessionIds)
  BY DEF Issue
<1>3. \A p \in Sessions \ {s} : challenges'[p] = challenges[p]
  BY <1>1, <1>2 DEF Save
<1>4. issued' = issued \cup {s} /\ s \notin issued
  BY DEF Issue
<1>5. StoreInv'
  <2>1. \A p \in Sessions : Known(p)' => p \in issued'
    BY <1>3, <1>4 DEF StoreInv, Known
  <2>2. sessionFile'.challenges = IF Persistent THEN challenges' ELSE [p \in Sessions |-> Null]
    BY <1>2 DEF Save, StoreInv
  <2>3. QED
    BY <2>1, <2>2 DEF StoreInv
<1>6. \A p \in Sessions : Spent(p) => Spent(p)'
  BY <1>3, <1>4 DEF Spent, HasStatus, Known
<1>7. QED
  BY <1>5, <1>6 DEF StoreKept

LEMMA RedeemKept ==
  ASSUME SessionTypeOK, StoreInv, NEW s \in Sessions, Redeem(s)
  PROVE  StoreKept
<1>1. Known(s) /\ ~ Spent(s) /\ issued' = issued
  BY DEF Redeem, HasStatus, Spent
<1>2. \E used : \E status \in Statuses : Save(WithStatus(s, status), used)
  BY DEF Redeem, Statuses
<1>3. QED
  BY <1>1, <1>2, StatusKept

LEMMA CancelKept ==
  ASSUME SessionTypeOK, StoreInv, NEW s \in Sessions, Cancel(s)
  PROVE  StoreKept
  BY StatusKept DEF Cancel, HasStatus, Statuses

LEMMA ConsumeKept ==
  ASSUME SessionTypeOK, StoreInv, NEW s \in Sessions, Known(s), Consume(s)
  PROVE  StoreKept /\ Spent(s)'
  BY StatusKept DEF Consume, Statuses

LEMMA UnchangedKept ==
  ASSUME StoreInv, UNCHANGED <<challenges, sessionFile, issued>>
  PROVE  StoreKept
  BY DEF StoreKept, StoreInv, Spent, HasStatus, Known

LEMMA RefuseKept ==
  ASSUME SessionTypeOK, StoreInv, NEW s \in Sessions, RefuseSession(s)
  PROVE  StoreKept
<1>1. CASE HasStatus(s, {"AUTHORIZED"}) /\ Late(s)
  BY <1>1, StatusKept DEF RefuseSession, HasStatus, Statuses
<1>2. CASE ~ (HasStatus(s, {"AUTHORIZED"}) /\ Late(s))
  BY <1>2, UnchangedKept DEF RefuseSession, memory
<1>3. QED
  BY <1>1, <1>2

\* After a restart a session is what it was, or forgotten.
LEMMA ReloadKept ==
  ASSUME SessionTypeOK, StoreInv, Reload
  PROVE  StoreKept
<1>1. challenges' = IF Persistent THEN challenges ELSE [s \in Sessions |-> Null]
  BY DEF Reload, StoreInv
<1>2. \A s \in Sessions : challenges'[s] \in {challenges[s], Null}
  BY <1>1
<1>3. StoreInv'
  BY <1>1, <1>2 DEF StoreInv, Reload, Known
<1>4. \A s \in Sessions : Spent(s) => Spent(s)'
  BY <1>2 DEF Spent, HasStatus, Known, Reload
<1>5. QED
  BY <1>3, <1>4 DEF StoreKept

LEMMA SpentStay ==
  ASSUME StoreKept
  PROVE  SpentSessions \subseteq SpentSessions'
  BY DEF StoreKept, SpentSessions

-----------------------------------------------------------------------------
(* The steps of the store, and its invariant *)

\* What one operation of the store, the clock or a restart does.  A consumption
\* is only reached from a session that was found authorized.
SessionStep ==
  \/ \E s \in Sessions :
       \/ Issue(s) \/ Redeem(s) \/ Cancel(s) \/ RefuseSession(s)
       \/ HasStatus(s, {"AUTHORIZED"}) /\ Consume(s)
  \/ Reload
  \/ Tick

\* Only a spent session has authorized a registration, and only one.
GrantsInv == \A s \in Sessions : grants[s] <= IF Spent(s) THEN 1 ELSE 0

SessionInv == SessionTypeOK /\ StoreInv /\ GrantsInv

\* The actions of the specification are such steps.
LEMMA NextIsStep ==
  ASSUME SessionNext
  PROVE  SessionStep
  BY DEF SessionNext, SessionStep, Authorize, Authorizes

\* A step keeps the types and what is known of the file and the sessions.
LEMMA StepKept ==
  ASSUME SessionTypeOK, StoreInv, SessionStep
  PROVE  SessionTypeOK' /\ StoreKept
<1>1. ASSUME NEW s \in Sessions, Issue(s) \/ Redeem(s) \/ Cancel(s) \/ RefuseSession(s)
      PROVE  SessionTypeOK' /\ StoreKept
  BY <1>1, IssueTyped, RedeemTyped, CancelTyped, RefuseTyped,
     IssueKept, RedeemKept, CancelKept, RefuseKept
<1>2. ASSUME NEW s \in Sessions, HasStatus(s, {"AUTHORIZED"}), Consume(s)
      PROVE  SessionTypeOK' /\ StoreKept
  BY <1>2, ConsumeTyped, ConsumeKept DEF HasStatus
<1>3. CASE Reload
  BY <1>3, ReloadTyped, ReloadKept
<1>4. CASE Tick
  BY <1>4, TickTyped, UnchangedKept DEF Tick, memory
<1>5. QED
  BY <1>1, <1>2, <1>3, <1>4 DEF SessionStep

\* A consumption counts for a session that had not counted before.
LEMMA GrantsKept ==
  ASSUME SessionInv, SessionStep
  PROVE  GrantsInv'
<1>1. StoreKept /\ SessionTypeOK /\ SessionTypeOK'
  BY StepKept DEF SessionInv
<1>2. \A p \in Sessions : Spent(p) => Spent(p)'
  BY <1>1 DEF StoreKept
<1>3. CASE grants' = grants
  BY <1>1, <1>2, <1>3 DEF GrantsInv, SessionInv, SessionTypeOK
<1>4. ASSUME NEW s \in Sessions, HasStatus(s, {"AUTHORIZED"}), Consume(s)
      PROVE  GrantsInv'
  <2>1. ~ Spent(s) /\ Spent(s)'
    <3>1. ~ Spent(s)
      BY <1>4 DEF HasStatus, Spent
    <3>2. Spent(s)'
      BY <1>4, ConsumeKept DEF HasStatus, SessionInv
    <3>3. QED
      BY <3>1, <3>2
  <2>2. grants[s] = 0 /\ grants'[s] = 1
    BY <1>1, <1>4, <2>1 DEF GrantsInv, SessionInv, SessionTypeOK, Consume
  <2>3. \A p \in Sessions \ {s} : grants'[p] = grants[p]
    BY <1>1, <1>4 DEF Consume, SessionTypeOK
  <2>4. \A p \in Sessions \ {s} : grants[p] \in Nat
    BY <1>1 DEF SessionTypeOK
  <2>5. QED
    BY <1>2, <2>1, <2>2, <2>3, <2>4 DEF GrantsInv, SessionInv
<1>5. grants' = grants \/ \E s \in Sessions : HasStatus(s, {"AUTHORIZED"}) /\ Consume(s)
  BY DEF SessionStep, Issue, Redeem, Cancel, RefuseSession, Reload, Tick
<1>6. QED
  BY <1>3, <1>4, <1>5

LEMMA SessionInvAtInit ==
  ASSUME SessionInit
  PROVE  SessionInv
<1>1. SessionTypeOK /\ StoreInv
  BY DEF SessionInit, SessionTypeOK, Table, Nothing, StoreInv, Known
<1>2. GrantsInv
  BY DEF SessionInit, GrantsInv, Spent
<1>3. QED
  BY <1>1, <1>2 DEF SessionInv

LEMMA SessionInvKept ==
  ASSUME SessionInv, SessionStep \/ UNCHANGED sessionVars
  PROVE  SessionInv'
<1>1. CASE SessionStep
  BY <1>1, StepKept, GrantsKept DEF SessionInv, StoreKept
<1>2. CASE UNCHANGED sessionVars
  BY <1>2 DEF sessionVars, memory, SessionInv, SessionTypeOK, StoreInv, GrantsInv,
     Spent, HasStatus, Known
<1>3. QED
  BY <1>1, <1>2

-----------------------------------------------------------------------------
(* What has ended stays ended *)

Ended(s) == HasStatus(s, {"CONSUMED", "EXPIRED", "CANCELED"})

EndedStay == \A s \in Sessions : Ended(s) => challenges'[s] \in {challenges[s], Null}

\* A change of a session that has not ended leaves the others alone.
LEMMA OneEntryStays ==
  ASSUME SessionTypeOK, NEW s \in Sessions, ~ Ended(s), NEW c,
         challenges' = [challenges EXCEPT ![s] = c]
  PROVE  EndedStay
<1>1. challenges \in [Sessions -> Challenge \cup {Null}]
  BY DEF SessionTypeOK, Table
<1>2. \A p \in Sessions \ {s} : challenges'[p] = challenges[p]
  BY <1>1
<1>3. QED
  BY <1>2 DEF EndedStay

\* No operation touches a session that has ended, and a restart takes it from
\* a file that is as new as the memory, or forgets it.
LEMMA StepKeepsEnded ==
  ASSUME SessionTypeOK, StoreInv, SessionStep
  PROVE  EndedStay
<1> USE DEF Ended, HasStatus
<1>1. ASSUME NEW s \in Sessions, Issue(s)
      PROVE  EndedStay
  <2>1. ~ Ended(s)
    BY <1>1 DEF Issue, StoreInv
  <2>2. \E c : challenges' = [challenges EXCEPT ![s] = c]
    BY <1>1 DEF Issue, Save
  <2>3. QED
    BY <2>1, <2>2, OneEntryStays
<1>2. ASSUME NEW s \in Sessions, NEW status, NEW used, ~ Ended(s),
             Save(WithStatus(s, status), used)
      PROVE  EndedStay
  <2>1. challenges' = [challenges EXCEPT ![s] = [challenges[s] EXCEPT !.status = status]]
    BY <1>2 DEF Save, WithStatus
  <2>2. QED
    BY <1>2, <2>1, OneEntryStays
<1>3. ASSUME NEW s \in Sessions, Redeem(s) \/ Cancel(s)
      PROVE  EndedStay
  BY <1>2, <1>3 DEF Redeem, Cancel
<1>4. ASSUME NEW s \in Sessions, RefuseSession(s)
      PROVE  EndedStay
  <2>1. CASE HasStatus(s, {"AUTHORIZED"}) /\ Late(s)
    BY <1>2, <1>4, <2>1 DEF RefuseSession
  <2>2. CASE ~ (HasStatus(s, {"AUTHORIZED"}) /\ Late(s))
    BY <1>4, <2>2 DEF RefuseSession, memory, EndedStay
  <2>3. QED
    BY <2>1, <2>2
<1>5. ASSUME NEW s \in Sessions, HasStatus(s, {"AUTHORIZED"}), Consume(s)
      PROVE  EndedStay
  BY <1>2, <1>5 DEF Consume
<1>6. CASE Reload
  BY <1>6 DEF Reload, StoreInv, EndedStay
<1>7. CASE Tick
  BY <1>7 DEF Tick, memory, EndedStay
<1>8. QED
  BY <1>1, <1>3, <1>4, <1>5, <1>6, <1>7 DEF SessionStep

-----------------------------------------------------------------------------
(* The store keeps the promise of OneTimeGrant *)

\* The phases as the refinement mapping gives them.
phases == [s \in Sessions |-> PhaseOf(s)]

LEMMA SamePhase ==
  ASSUME NEW s, challenges'[s] = challenges[s], s \in issued' <=> s \in issued
  PROVE  PhaseOf(s)' = PhaseOf(s)
  BY DEF PhaseOf, HasStatus, Known

\* The phase a known session is in is that of its status.
LEMMA KnownPhase ==
  ASSUME NEW s \in Sessions, Known(s), s \in issued
  PROVE  /\ challenges[s].status = "PENDING" => PhaseOf(s) = "offered"
         /\ challenges[s].status = "AUTHORIZED" => PhaseOf(s) = "accepted"
         /\ challenges[s].status \notin {"PENDING", "AUTHORIZED"} => PhaseOf(s) = "ended"
  BY DEF PhaseOf, HasStatus

\* One entry of the table is written: one phase moves.
LEMMA OnePhase ==
  ASSUME SessionTypeOK, NEW s \in Sessions, NEW c \in Challenge,
         challenges' = [challenges EXCEPT ![s] = c], issued' = issued \cup {s}
  PROVE  phases' = [phases EXCEPT ![s] = IF c.status = "PENDING" THEN "offered"
                                         ELSE IF c.status = "AUTHORIZED" THEN "accepted"
                                         ELSE "ended"]
<1>1. challenges \in [Sessions -> Challenge \cup {Null}] /\ c # Null
  BY SessionAssumption DEF SessionTypeOK, Table
<1>2. \A p \in Sessions \ {s} : PhaseOf(p)' = PhaseOf(p)
  <2>1. ASSUME NEW p \in Sessions \ {s}
        PROVE  challenges'[p] = challenges[p] /\ (p \in issued' <=> p \in issued)
    BY <1>1
  <2>2. QED
    BY <2>1, SamePhase
<1>3. challenges'[s] = c
  BY <1>1
<1>4. PhaseOf(s)' = IF c.status = "PENDING" THEN "offered"
                    ELSE IF c.status = "AUTHORIZED" THEN "accepted" ELSE "ended"
  BY <1>1, <1>3 DEF PhaseOf, HasStatus, Known
<1>5. QED
  BY <1>2, <1>4 DEF phases

LEMMA SamePhases ==
  ASSUME UNCHANGED <<challenges, issued>>
  PROVE  phases' = phases
  BY SamePhase DEF phases

\* A known session gets another status.
LEMMA StatusPhases ==
  ASSUME SessionTypeOK, StoreInv, NEW s \in Sessions, Known(s), NEW status \in Statuses,
         NEW used, Save(WithStatus(s, status), used), issued' = issued
  PROVE  phases' = [phases EXCEPT ![s] = IF status = "PENDING" THEN "offered"
                                         ELSE IF status = "AUTHORIZED" THEN "accepted"
                                         ELSE "ended"]
<1> DEFINE c == [challenges[s] EXCEPT !.status = status]
<1>1. challenges[s] \in Challenge
  BY DEF SessionTypeOK, Table, Known
<1>2. c \in Challenge /\ c.status = status
  BY <1>1 DEF Challenge
<1>3. challenges' = [challenges EXCEPT ![s] = c]
  BY DEF Save, WithStatus
<1>4. issued' = issued \cup {s}
  BY DEF StoreInv
<1> HIDE DEF c
<1>5. QED
  BY <1>2, <1>3, <1>4, OnePhase

LEMMA PhasesTyped == phases \in [Sessions -> Promise!Phases]
  BY DEF phases, PhaseOf, Promise!Phases

\* A session that was offered or accepted ends without a grant.
LEMMA EndsOne ==
  ASSUME NEW s \in Sessions, PhaseOf(s) \in {"offered", "accepted"},
         phases' = [phases EXCEPT ![s] = "ended"], grants' = grants
  PROVE  Promise!Withdraw
<1>1. phases[s] = PhaseOf(s)
  BY DEF phases
<1>2. \A p \in Sessions :
        \/ phases'[p] = phases[p]
        \/ phases[p] \in {"offered", "accepted"} /\ phases'[p] = "ended"
  BY <1>1, PhasesTyped
<1>3. phases' \in [Sessions -> Promise!Phases]
  BY PhasesTyped DEF Promise!Phases
<1>4. QED
  BY <1>2, <1>3 DEF Promise!Withdraw, phases

\* Every step of the store is a step of the promise, or changes nothing of it.
LEMMA StepRefines ==
  ASSUME SessionTypeOK, StoreInv, SessionStep
  PROVE  Promise!Next \/ (phases' = phases /\ grants' = grants)
<1>p. \A s \in Sessions : phases[s] = PhaseOf(s)
  BY DEF phases
<1>i. \A s \in Sessions : Known(s) => s \in issued
  BY DEF StoreInv
<1>1. ASSUME NEW s \in Sessions, Issue(s)
      PROVE  Promise!Next
  <2>1. PICK scope \in ScopeSets :
          Save([challenges EXCEPT ![s] = [status |-> "PENDING",
                  session_expires_at |-> now + Ttl, session_scope |-> scope]], usedSessionIds)
    BY <1>1 DEF Issue
  <2> DEFINE c == [status |-> "PENDING", session_expires_at |-> now + Ttl,
                   session_scope |-> scope]
  <2>2. c \in Challenge /\ c.status = "PENDING"
    BY SessionAssumption DEF Challenge, Statuses, SessionTypeOK
  <2>3. challenges' = [challenges EXCEPT ![s] = c] /\ issued' = issued \cup {s}
    BY <1>1, <2>1 DEF Save, Issue
  <2> HIDE DEF c
  <2>4. phases' = [phases EXCEPT ![s] = "offered"]
    BY <2>2, <2>3, OnePhase
  <2>5. phases[s] = "none" /\ grants' = grants
    BY <1>1, <1>p DEF Issue, PhaseOf
  <2>6. Promise!Offer(s)
    BY <2>4, <2>5 DEF Promise!Offer, Promise!Move, phases
  <2>7. QED
    BY <2>6 DEF Promise!Next
<1>2. ASSUME NEW s \in Sessions, Redeem(s)
      PROVE  Promise!Next
  <2>1. Known(s) /\ phases[s] = "offered" /\ issued' = issued /\ grants' = grants
    BY <1>2, <1>i, <1>p DEF Redeem, HasStatus, PhaseOf
  <2>2. CASE \E used : Save(WithStatus(s, "EXPIRED"), used)
    <3>1. phases' = [phases EXCEPT ![s] = "ended"]
      BY <2>1, <2>2, StatusPhases DEF Statuses
    <3>2. QED
      BY <1>p, <2>1, <3>1, EndsOne DEF Promise!Next
  <2>3. CASE \E used : Save(WithStatus(s, "AUTHORIZED"), used)
    <3>1. phases' = [phases EXCEPT ![s] = "accepted"]
      BY <2>1, <2>3, StatusPhases DEF Statuses
    <3>2. Promise!Accept(s)
      BY <2>1, <3>1 DEF Promise!Accept, Promise!Move, phases
    <3>3. QED
      BY <3>2 DEF Promise!Next
  <2>4. QED
    BY <1>2, <2>2, <2>3 DEF Redeem
<1>3. ASSUME NEW s \in Sessions, HasStatus(s, {"PENDING", "AUTHORIZED"}), NEW status, NEW used,
             status \in {"EXPIRED", "CANCELED"}, Save(WithStatus(s, status), used),
             issued' = issued, grants' = grants
      PROVE  Promise!Next
  <2>1. phases' = [phases EXCEPT ![s] = "ended"]
    BY <1>3, StatusPhases DEF HasStatus, Statuses
  <2>2. PhaseOf(s) \in {"offered", "accepted"}
    BY <1>3, <1>i DEF HasStatus, PhaseOf
  <2>3. QED
    BY <1>3, <2>1, <2>2, EndsOne DEF Promise!Next
<1>4. ASSUME NEW s \in Sessions, Cancel(s)
      PROVE  Promise!Next
  BY <1>3, <1>4 DEF Cancel
<1>5. ASSUME NEW s \in Sessions, RefuseSession(s)
      PROVE  Promise!Next \/ (phases' = phases /\ grants' = grants)
  <2>1. CASE HasStatus(s, {"AUTHORIZED"}) /\ Late(s)
    BY <1>3, <1>5, <2>1 DEF RefuseSession, HasStatus
  <2>2. CASE ~ (HasStatus(s, {"AUTHORIZED"}) /\ Late(s))
    BY <1>5, <2>2, SamePhases DEF RefuseSession, memory
  <2>3. QED
    BY <2>1, <2>2
<1>6. ASSUME NEW s \in Sessions, HasStatus(s, {"AUTHORIZED"}), Consume(s)
      PROVE  Promise!Next
  <2>1. phases' = [phases EXCEPT ![s] = "ended"]
    BY <1>6, StatusPhases DEF Consume, HasStatus, Statuses
  <2>2. phases[s] = "accepted"
    BY <1>6, <1>i, <1>p DEF HasStatus, PhaseOf
  <2>3. Promise!Grant(s)
    BY <1>6, <2>1, <2>2 DEF Promise!Grant, Promise!Move, phases, Consume
  <2>4. QED
    BY <2>3 DEF Promise!Next
<1>7. CASE Reload
  <2>1. /\ challenges' = IF Persistent THEN challenges ELSE [s \in Sessions |-> Null]
        /\ UNCHANGED <<issued, grants>>
    BY <1>7 DEF Reload, StoreInv
  <2>2. CASE Persistent
    BY <2>1, <2>2, SamePhases
  <2>3. CASE ~ Persistent
    <3>1. \A s \in Sessions : PhaseOf(s)' = IF s \in issued THEN "ended" ELSE "none"
      BY <2>1, <2>3 DEF PhaseOf, HasStatus, Known
    <3>2. \A s \in Sessions : PhaseOf(s) # "none" <=> s \in issued
      BY DEF PhaseOf
    <3>3. \A s \in Sessions :
            \/ PhaseOf(s)' = PhaseOf(s)
            \/ PhaseOf(s) \in {"offered", "accepted"} /\ PhaseOf(s)' = "ended"
      BY <3>1, <3>2 DEF PhaseOf
    <3>4. Promise!Withdraw
      BY <2>1, <3>1, <3>3 DEF Promise!Withdraw, Promise!Phases
    <3>5. QED
      BY <3>4 DEF Promise!Next
  <2>4. QED
    BY <2>2, <2>3
<1>8. CASE Tick
  BY <1>8, SamePhases DEF Tick, memory
<1>9. QED
  BY <1>1, <1>2, <1>4, <1>5, <1>6, <1>7, <1>8 DEF SessionStep

-----------------------------------------------------------------------------
(* The store on its own *)

LEMMA SessionInvHolds == SessionSpec => []SessionInv
<1>1. SessionInv /\ [SessionNext]_sessionVars => SessionInv'
  BY NextIsStep, SessionInvKept
<1>2. QED
  BY <1>1, SessionInvAtInit, PTL DEF SessionSpec

\* A session authorizes at most one registration, whatever is presented when
\* and whatever restarts come between.
THEOREM SessionsGrantOnce == SessionSpec => []SingleUse
<1>1. SessionInv => SingleUse
  BY DEF SessionInv, GrantsInv, SingleUse, SessionTypeOK
<1>2. QED
  BY <1>1, SessionInvHolds, PTL

LEMMA PhasesAtInit ==
  ASSUME SessionInit
  PROVE  Promise!Init
<1>1. \A s \in Sessions : PhaseOf(s) = "none"
  BY DEF SessionInit, PhaseOf
<1>2. QED
  BY <1>1 DEF Promise!Init, SessionInit

\* The store implements the abstract promise of the identity layer: sessions
\* are offered once, accepted at most once, and grant at most once.
THEOREM StoreImplementsPromise == SessionSpec => ImplementsOneTimeGrant
<1>1. SessionInit => Promise!Init
  BY PhasesAtInit
<1>2. SessionInv /\ [SessionNext]_sessionVars
        => [Promise!Next]_<<[s \in Sessions |-> PhaseOf(s)], grants>>
  <2>1. SessionInv /\ SessionNext => Promise!Next \/ (phases' = phases /\ grants' = grants)
    BY NextIsStep, StepRefines DEF SessionInv
  <2>2. UNCHANGED sessionVars => phases' = phases /\ grants' = grants
    BY SamePhases DEF sessionVars, memory
  <2>3. QED
    BY <2>1, <2>2 DEF phases
<1>3. QED
  BY <1>1, <1>2, SessionInvHolds, PTL DEF SessionSpec, ImplementsOneTimeGrant, Promise!Spec
=============================================================================
