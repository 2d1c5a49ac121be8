---------------------------- MODULE Registration ----------------------------
(***************************************************************************)
(* handleRegistration of packages/api/src/server.js, behind the routes     *)
(* /register, /register-recorded and /register-export, with the stores it  *)
(* consults: the quota of packages/core/src/api-key-manager.js, the        *)
(* recording sessions of packages/core/src/recording-session.js, the       *)
(* identity sessions and the ledger.                                       *)
(*                                                                         *)
(* A request runs without interruption from one await to the next.  The    *)
(* awaits are: the read of the lineage event (exports), the read of the    *)
(* source event (when input verification is enforced), the preparation and *)
(* signing of the audio, and the append to the ledger.  The ledger is the  *)
(* append-only list its module Ledger studies; checks of the body that     *)
(* depend on nothing but the body are a free choice to refuse.             *)
(***************************************************************************)
EXTENDS IdentitySessions, Sequences, SequencesExt

CONSTANTS
  Requests,           \* the registration requests, each made at most once
  RecordingSessions,  \* the ids of recording sessions, random
  RecordingsPersistent,  \* recordingSessionStoreFilePath is configured
  QuotaPerHour,       \* quotaPerHour of the organization whose key they carry
  Hour,               \* the length of a quota window on the clock
  Gates               \* which checks are configured, a subset of GateKinds

GateKinds ==
  { "identity",  \* registerRequireAuthorizedIdentitySession
    "session",   \* requireVerifiedSession
    "input" }    \* requireInputVerification

Routes ==
  { [name |-> "register", proofType |-> "GENERATED", scope |-> "generation"],
    [name |-> "register-recorded", proofType |-> "RECORDED", scope |-> "recording"],
    [name |-> "register-export", proofType |-> "GENERATED", scope |-> "export"],
    [name |-> "register-export", proofType |-> "RECORDED", scope |-> "export"] }

\* What a request carries: the identity session and the recording session it
\* names, the parent of an export and the input of a generation.
Body ==
  [ route : Routes, session : Sessions, recording : RecordingSessions \cup {Null},
    parent : Requests \cup {Null}, input : Requests \cup {Null} ]

ASSUME RegistrationAssumption ==
  /\ {QuotaPerHour, Hour} \subseteq Nat \ {0}
  /\ Gates \subseteq GateKinds /\ RecordingsPersistent \in BOOLEAN
  /\ Null \notin Requests \cup RecordingSessions \cup Body

VARIABLES
  recordings,     \* #sessions of the RecordingSessionStore
  recordingFile,  \* the same, as its file holds it
  opened,         \* the ids of recording sessions that have been given out
  quota,          \* quotaRemaining and quotaRefreshAt, and how many requests
                  \* have been checked and counted in one step since the refresh
  pc,             \* the await each request is at, or how it was answered
  req,            \* its body, while it is handled
  events          \* the events the ledger has stored

registrationVars == <<recordings, recordingFile, opened, quota, pc, req, events>>
vars == <<sessionVars, registrationVars>>

Stored == {events[i] : i \in DOMAIN events}
EventOf(id) == CHOOSE e \in Stored : e.request = id
HasEvent(id) == \E e \in Stored : e.request = id

\* The bodies a client may send.  It can name any event that is stored.
Bodies ==
  LET ids == {e.request : e \in Stored} \cup {Null} IN
  { b \in [ route : Routes, session : Sessions, recording : RecordingSessions \cup {Null},
            parent : ids, input : ids ] :
      /\ b.route.name # "register-export" => b.parent = Null
      /\ b.route.proofType # "GENERATED" => b.input = Null }

IsExport(b) == b.route.name = "register-export"

\* The gates that apply to generated audio only.
Enforced(b, gate) == gate \in Gates /\ b.route.proofType = "GENERATED"

Awaits == {"readLineage", "readInput", "sign", "append"}
Answers == {"registered", "refused"}

At(r, step) == pc[r] = step
Goto(r, b, step) ==
  /\ pc' = [pc EXCEPT ![r] = step]
  /\ req' = [req EXCEPT ![r] = IF step \in Answers THEN Null ELSE b]

-----------------------------------------------------------------------------
(* The quota *)

FullQuota == [remaining |-> QuotaPerHour, refreshAt |-> now + Hour, atOnce |-> 0]

MutantAccumulate(q) ==
  IF now >= q.refreshAt THEN [FullQuota EXCEPT !.remaining = q.remaining + @] ELSE q

\* What checkQuota and consumeQuota begin with.
Refreshed(q) == IF now >= q.refreshAt THEN FullQuota ELSE q

MutantConsumeNothing(q, r) == [q EXCEPT !.atOnce = IF At(r, "idle") THEN @ + 1 ELSE @]

\* consumeQuota, whose answer nobody looks at.
ConsumeQuota(q, r) ==
  [q EXCEPT !.remaining = IF q.remaining > 0 THEN @ - 1 ELSE @,
            !.atOnce = IF At(r, "idle") THEN @ + 1 ELSE @]

-----------------------------------------------------------------------------
(* The recording sessions *)

SaveRecordings(table) ==
  /\ recordings' = table
  /\ recordingFile' = IF RecordingsPersistent THEN table ELSE recordingFile
  /\ UNCHANGED <<sessionVars, quota, pc, req, events>>

OpenRecording(s) ==
  /\ s \notin opened
  /\ opened' = opened \cup {s}
  /\ \E verified \in BOOLEAN :
       SaveRecordings([recordings EXCEPT ![s] = [verified |-> verified, status |-> "ACTIVE"]])

CloseRecording(s) ==
  /\ recordings[s] # Null
  /\ SaveRecordings([recordings EXCEPT ![s].status = "CLOSED"])
  /\ UNCHANGED opened

\* The session gate: a session that is named must be there and be active, and
\* where the gate is enforced there must be one, activated by a QR scan.
RecordingAccepted(b) ==
  LET s == b.recording IN
  /\ s = Null => ~ Enforced(b, "session")
  /\ s # Null => /\ recordings[s] # Null
                 /\ recordings[s].status # "CLOSED"
                 /\ Enforced(b, "session") => recordings[s].verified

-----------------------------------------------------------------------------
(* handleRegistration.  In each step b is the body, and q the quota as the  *)
(* step has left it so far: checkQuota may have refreshed it.              *)

StoresUnchanged == UNCHANGED <<recordings, recordingFile, opened, events>>

\* A check fails.  Those that look at nothing but the body may fail any time.
Refuse(r, q) ==
  /\ Goto(r, Null, "refused")
  /\ quota' = q
  /\ StoresUnchanged
  /\ UNCHANGED sessionVars

MutantIgnoreIdentity(r, b, q) ==
  /\ Goto(r, b, "sign")
  /\ quota' = ConsumeQuota(Refreshed(q), r)
  /\ StoresUnchanged
  /\ IF Known(b.session) THEN Consume(b.session) ELSE UNCHANGED sessionVars

\* From the level checks to the first await after them: the identity session
\* is consumed, then the quota, whatever comes of the request later.
Spend(r, b, q) ==
  \/ /\ "identity" \in Gates
     /\ RefuseSession(b.session)
     /\ Goto(r, b, "refused")
     /\ quota' = q
     /\ StoresUnchanged
  \/ /\ IF "identity" \in Gates
          THEN /\ Authorizes(b.session, b.route.scope)
               /\ Consume(b.session)
          ELSE UNCHANGED sessionVars
     /\ quota' = ConsumeQuota(Refreshed(q), r)
     /\ Goto(r, b, "sign")
     /\ StoresUnchanged

\* A read of the ledger is awaited.
Await(r, b, q, read) ==
  /\ Goto(r, b, read)
  /\ quota' = q
  /\ StoresUnchanged
  /\ UNCHANGED sessionVars

\* The recording-session gate, and then either the source event must be read
\* first or the request is carried on at once.
Continue(r, b, q) ==
  /\ RecordingAccepted(b)
  /\ IF Enforced(b, "input") THEN Await(r, b, q, "readInput") ELSE Spend(r, b, q)

\* The request arrives: checkQuota, then the checks of the body.
Receive(r) ==
  LET q == Refreshed(quota) IN
  /\ At(r, "idle")
  /\ \/ Refuse(r, q)
     \/ /\ q.remaining > 0
        /\ \E b \in Bodies :
             IF IsExport(b) THEN Await(r, b, q, "readLineage") ELSE Continue(r, b, q)

\* validateExportLineageAgainstLedger: the parent must be stored, and be of
\* the type and hash the body gives, or the request is refused.
ReadLineage(r) ==
  /\ At(r, "readLineage")
  /\ \/ Refuse(r, quota)
     \/ HasEvent(req[r].parent) /\ Continue(r, req[r], quota)

MutantAnyInput(r) ==
  /\ At(r, "readInput")
  /\ \/ Refuse(r, quota)
     \/ /\ HasEvent(req[r].input) => EventOf(req[r].input).proofType = "RECORDED"
        /\ Spend(r, req[r], quota)

\* The source event must be stored and be a recording.
ReadInput(r) ==
  /\ At(r, "readInput")
  /\ \/ Refuse(r, quota)
     \/ /\ HasEvent(req[r].input)
        /\ EventOf(req[r].input).proofType = "RECORDED"
        /\ Spend(r, req[r], quota)

\* watermarkEngine.embed and registerVoice may throw, and at level 3 the
\* timestamp attestation may be refused.
Sign(r) ==
  /\ At(r, "sign")
  /\ Goto(r, req[r], "append") \/ Goto(r, req[r], "refused")
  /\ StoresUnchanged
  /\ UNCHANGED <<quota, sessionVars>>

\* appendUsageEvent has stored the event; it may have failed without storing
\* it, or the answer may fail after it (level3_ledger_anchor_missing).
StoreEvent(r) ==
  /\ At(r, "append")
  /\ \/ /\ events' = Append(events,
             [ request |-> r, proofType |-> req[r].route.proofType, session |-> req[r].session,
               recording |-> req[r].recording, input |-> req[r].input ])
        /\ Goto(r, req[r], "registered") \/ Goto(r, req[r], "refused")
     \/ /\ Goto(r, req[r], "refused")
        /\ UNCHANGED events
  /\ UNCHANGED <<recordings, recordingFile, opened, quota, sessionVars>>

Handle(r) ==
  Receive(r) \/ ReadLineage(r) \/ ReadInput(r) \/ Sign(r) \/ StoreEvent(r)

-----------------------------------------------------------------------------
\* The routes under /identity, and the clock.
IdentityRoutes ==
  /\ \/ \E s \in Sessions : Issue(s) \/ Redeem(s) \/ Cancel(s)
     \/ Tick
  /\ UNCHANGED registrationVars

\* The process dies and is started again.  Organizations are not persisted:
\* the quota is whole again.  Requests under way are never answered.
Restart ==
  /\ Reload
  /\ recordings' = recordingFile
  /\ quota' = FullQuota
  /\ pc' = [r \in Requests |-> IF pc[r] \in Answers \cup {"idle"} THEN pc[r] ELSE "refused"]
  /\ req' = [r \in Requests |-> Null]
  /\ UNCHANGED <<recordingFile, opened, events>>

NoRecordings == [s \in RecordingSessions |-> Null]

Init ==
  /\ SessionInit
  /\ recordings = NoRecordings
  /\ recordingFile = NoRecordings
  /\ opened = {}
  /\ quota = FullQuota
  /\ pc = [r \in Requests |-> "idle"]
  /\ req = [r \in Requests |-> Null]
  /\ events = <<>>

Next ==
  \/ \E r \in Requests : Handle(r)
  \/ \E s \in RecordingSessions : OpenRecording(s) \/ CloseRecording(s)
  \/ IdentityRoutes
  \/ Restart

Spec == Init /\ [][Next]_vars

-----------------------------------------------------------------------------
Recording == [verified : BOOLEAN, status : {"ACTIVE", "CLOSED"}]

Quota == [remaining : 0 .. QuotaPerHour, refreshAt : Nat, atOnce : Nat]

Event == [ request : Requests, proofType : {"GENERATED", "RECORDED"}, session : Sessions,
           recording : RecordingSessions \cup {Null}, input : Requests \cup {Null} ]

TypeOK ==
  /\ SessionTypeOK
  /\ recordings \in [RecordingSessions -> Recording \cup {Null}]
  /\ recordingFile \in [RecordingSessions -> Recording \cup {Null}]
  /\ opened \subseteq RecordingSessions
  /\ quota \in Quota
  /\ pc \in [Requests -> {"idle"} \cup Awaits \cup Answers]
  /\ req \in [Requests -> Body \cup {Null}]
  /\ \A r \in Requests : req[r] = Null <=> pc[r] \in Answers \cup {"idle"}
  /\ events \in Seq(Event)

\* Where an identity session is required, a session leads to one stored proof
\* at most, whatever requests present it at the same time and whatever
\* restarts come between.
OneProofPerSession ==
  "identity" \in Gates => \A d, e \in Stored : d.session = e.session => d = e

\* A generated proof rests on what the gates ask for: a recording that the
\* ledger had stored before it, and a recording session said to be activated by a
\* QR scan.  Both are read before the awaits and relied on after them.
GeneratedRestsOnRecorded ==
  \A i \in DOMAIN events :
    LET e == events[i] IN
    e.proofType = "GENERATED" =>
      /\ "input" \in Gates =>
           \E j \in 1 .. (i - 1) : /\ events[j].request = e.input
                                   /\ events[j].proofType = "RECORDED"
      /\ "session" \in Gates =>
           e.recording # Null /\ (recordings[e.recording] # Null => recordings[e.recording].verified)

\* The quota is checked when a request arrives and counted when its checks
\* are done.  Requests with an await between the two can exceed it (each of
\* them sees the same rest of the quota); those without never do, whatever
\* the others have used up.
QuotaHoldsWithoutAwait == quota.atOnce <= QuotaPerHour

\* docs/api.md:655: a session "transitions from AUTHORIZED to CONSUMED after
\* the first successful /register".
ConsumedBySuccess ==
  \A s \in Sessions : HasStatus(s, {"CONSUMED"}) =>
    \/ \E r \in Requests : pc[r] \in {"sign", "append"} /\ req[r].session = s
    \/ \E e \in Stored : e.session = s
=============================================================================
