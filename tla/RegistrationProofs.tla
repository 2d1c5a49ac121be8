------------------------- MODULE RegistrationProofs -------------------------
(***************************************************************************)
(* For every number of requests and sessions, with or without session       *)
(* files: the stores and requests keep their types; where an identity       *)
(* session is required, no session leads to two stored proofs; registration *)
(* follows OneTimeGrant step by step and what has ended stays ended; stored *)
(* generated proofs rest on stored recordings and verified recording        *)
(* sessions; and requests that check and count the quota at once never      *)
(* exceed it.                                                              *)
(***************************************************************************)
EXTENDS Registration, SessionProofs

-----------------------------------------------------------------------------
(* The types of the rest *)

LEMMA QuotaTypes ==
  ASSUME now \in Nat
  PROVE  /\ FullQuota \in Quota
         /\ \A q \in Quota : Refreshed(q) \in Quota
         /\ \A q \in Quota : \A r \in Requests : ConsumeQuota(q, r) \in Quota
<1>1. FullQuota \in Quota
  BY RegistrationAssumption DEF FullQuota, Quota
<1>2. ASSUME NEW q \in Quota
      PROVE  Refreshed(q) \in Quota
  BY <1>1 DEF Refreshed
<1>3. ASSUME NEW q \in Quota, NEW r \in Requests
      PROVE  ConsumeQuota(q, r) \in Quota
  <2>1. /\ q.remaining \in 0 .. QuotaPerHour /\ q.atOnce \in Nat
        /\ q.refreshAt \in Nat /\ QuotaPerHour \in Nat
    BY RegistrationAssumption DEF Quota
  <2>2. /\ (IF q.remaining > 0 THEN q.remaining - 1 ELSE q.remaining) \in 0 .. QuotaPerHour
        /\ (IF At(r, "idle") THEN q.atOnce + 1 ELSE q.atOnce) \in Nat
    BY <2>1
  <2>3. QED
    BY <2>2 DEF ConsumeQuota, Quota
<1>4. QED
  BY <1>1, <1>2, <1>3

\* The bodies clients send are bodies: what they name are stored requests.
LEMMA BodiesTyped ==
  ASSUME TypeOK, NEW b \in Bodies
  PROVE  b \in Body
<1>1. \A e \in Stored : e.request \in Requests
  <2>1. events \in Seq(Event)
    BY DEF TypeOK
  <2>2. \A i \in DOMAIN events : events[i] \in Event
    BY <2>1
  <2>3. QED
    BY <2>2 DEF Stored, Event
<1> DEFINE ids == {e.request : e \in Stored} \cup {Null}
<1>2. ids \subseteq Requests \cup {Null}
  BY <1>1
<1>3. b \in [ route : Routes, session : Sessions, recording : RecordingSessions \cup {Null},
              parent : ids, input : ids ]
  BY DEF Bodies
<1> HIDE DEF ids
<1>4. QED
  BY <1>2, <1>3 DEF Body

LEMMA GotoTyped ==
  ASSUME TypeOK, NEW r \in Requests, NEW b, NEW step, Goto(r, b, step),
         step \in Answers \/ (step \in Awaits /\ b \in Body)
  PROVE  /\ pc' \in [Requests -> {"idle"} \cup Awaits \cup Answers]
         /\ req' \in [Requests -> Body \cup {Null}]
         /\ \A q \in Requests : req'[q] = Null <=> pc'[q] \in Answers \cup {"idle"}
<1>1. Null \notin Body
  BY RegistrationAssumption
<1>2. /\ pc \in [Requests -> {"idle"} \cup Awaits \cup Answers]
      /\ req \in [Requests -> Body \cup {Null}]
      /\ \A q \in Requests : req[q] = Null <=> pc[q] \in Answers \cup {"idle"}
  BY DEF TypeOK
<1>3. \A step2 \in Awaits : step2 \notin Answers \cup {"idle"}
  BY DEF Awaits, Answers
<1>4. QED
  BY <1>1, <1>2, <1>3 DEF Goto

LEMMA BodyAt ==
  ASSUME TypeOK, NEW r \in Requests, pc[r] \in Awaits
  PROVE  req[r] \in Body
  BY DEF TypeOK, Awaits, Answers

LEMMA RefuseKeepsTypes ==
  ASSUME TypeOK, NEW r \in Requests, NEW q \in Quota, Refuse(r, q)
  PROVE  TypeOK'
<1>1. SessionTypeOK'
  BY SessionsUnchanged DEF Refuse, TypeOK
<1>2. /\ pc' \in [Requests -> {"idle"} \cup Awaits \cup Answers]
      /\ req' \in [Requests -> Body \cup {Null}]
      /\ \A p \in Requests : req'[p] = Null <=> pc'[p] \in Answers \cup {"idle"}
  BY GotoTyped DEF Refuse, Answers
<1>3. QED
  BY <1>1, <1>2 DEF Refuse, TypeOK, StoresUnchanged

LEMMA AwaitKeepsTypes ==
  ASSUME TypeOK, NEW r \in Requests, NEW b \in Body, NEW q \in Quota, NEW read \in Awaits,
         Await(r, b, q, read)
  PROVE  TypeOK'
<1>1. SessionTypeOK'
  BY SessionsUnchanged DEF Await, TypeOK
<1>2. /\ pc' \in [Requests -> {"idle"} \cup Awaits \cup Answers]
      /\ req' \in [Requests -> Body \cup {Null}]
      /\ \A p \in Requests : req'[p] = Null <=> pc'[p] \in Answers \cup {"idle"}
  BY GotoTyped DEF Await
<1>3. QED
  BY <1>1, <1>2 DEF Await, TypeOK, StoresUnchanged

LEMMA SpendKeepsTypes ==
  ASSUME TypeOK, NEW r \in Requests, NEW b \in Body, NEW q \in Quota, Spend(r, b, q)
  PROVE  TypeOK'
<1>s. b.session \in Sessions /\ SessionTypeOK
  BY DEF Body, TypeOK
<1>q. now \in Nat
  BY <1>s DEF SessionTypeOK
<1>1. CASE RefuseSession(b.session) /\ Goto(r, b, "refused") /\ quota' = q /\ StoresUnchanged
  <2>1. SessionTypeOK'
    BY <1>1, <1>s, RefuseTyped
  <2>2. /\ pc' \in [Requests -> {"idle"} \cup Awaits \cup Answers]
        /\ req' \in [Requests -> Body \cup {Null}]
        /\ \A p \in Requests : req'[p] = Null <=> pc'[p] \in Answers \cup {"idle"}
    BY <1>1, GotoTyped DEF Answers
  <2>3. QED
    BY <1>1, <2>1, <2>2 DEF TypeOK, StoresUnchanged
<1>2. CASE /\ IF "identity" \in Gates
                THEN Authorizes(b.session, b.route.scope) /\ Consume(b.session)
                ELSE UNCHANGED sessionVars
           /\ quota' = ConsumeQuota(Refreshed(q), r)
           /\ Goto(r, b, "sign")
           /\ StoresUnchanged
  <2>1. SessionTypeOK'
    <3>1. CASE "identity" \in Gates
      BY <1>2, <1>s, <3>1, ConsumeTyped DEF Authorizes, HasStatus
    <3>2. CASE "identity" \notin Gates
      BY <1>2, <1>s, <3>2, SessionsUnchanged
    <3>3. QED
      BY <3>1, <3>2
  <2>2. /\ pc' \in [Requests -> {"idle"} \cup Awaits \cup Answers]
        /\ req' \in [Requests -> Body \cup {Null}]
        /\ \A p \in Requests : req'[p] = Null <=> pc'[p] \in Answers \cup {"idle"}
    BY <1>2, GotoTyped DEF Awaits
  <2>3. quota' \in Quota
    BY <1>2, <1>q, QuotaTypes
  <2>4. QED
    BY <1>2, <2>1, <2>2, <2>3 DEF TypeOK, StoresUnchanged
<1>3. QED
  BY <1>1, <1>2 DEF Spend

LEMMA ContinueKeepsTypes ==
  ASSUME TypeOK, NEW r \in Requests, NEW b \in Body, NEW q \in Quota, Continue(r, b, q)
  PROVE  TypeOK'
<1>1. "readInput" \in Awaits
  BY DEF Awaits
<1>2. QED
  BY <1>1, AwaitKeepsTypes, SpendKeepsTypes DEF Continue

LEMMA ReceiveKeepsTypes ==
  ASSUME TypeOK, NEW r \in Requests, Receive(r)
  PROVE  TypeOK'
<1> DEFINE q == Refreshed(quota)
<1>1. q \in Quota
  BY QuotaTypes DEF TypeOK, SessionTypeOK
<1> HIDE DEF q
<1>2. "readLineage" \in Awaits
  BY DEF Awaits
<1>3. Refuse(r, q) \/ \E b \in Bodies : Await(r, b, q, "readLineage") \/ Continue(r, b, q)
  BY DEF Receive, q
<1>4. CASE Refuse(r, q)
  BY <1>1, <1>4, RefuseKeepsTypes
<1>5. ASSUME NEW b \in Bodies, Await(r, b, q, "readLineage") \/ Continue(r, b, q)
      PROVE  TypeOK'
  <2>1. b \in Body
    BY BodiesTyped
  <2>2. QED
    BY <1>1, <1>2, <1>5, <2>1, AwaitKeepsTypes, ContinueKeepsTypes
<1>6. QED
  BY <1>3, <1>4, <1>5

LEMMA ReadsKeepTypes ==
  ASSUME TypeOK, NEW r \in Requests, ReadLineage(r) \/ ReadInput(r)
  PROVE  TypeOK'
<1>1. pc[r] \in Awaits
  BY DEF ReadLineage, ReadInput, At, Awaits
<1>2. req[r] \in Body /\ quota \in Quota
  BY <1>1, BodyAt DEF TypeOK
<1>3. Refuse(r, quota) \/ Continue(r, req[r], quota) \/ Spend(r, req[r], quota)
  BY DEF ReadLineage, ReadInput
<1>4. QED
  BY <1>2, <1>3, RefuseKeepsTypes, ContinueKeepsTypes, SpendKeepsTypes

LEMMA SignKeepsTypes ==
  ASSUME TypeOK, NEW r \in Requests, Sign(r)
  PROVE  TypeOK'
<1>1. req[r] \in Body
  BY BodyAt DEF Sign, At, Awaits
<1>2. SessionTypeOK'
  BY SessionsUnchanged DEF Sign, TypeOK
<1>3. /\ pc' \in [Requests -> {"idle"} \cup Awaits \cup Answers]
      /\ req' \in [Requests -> Body \cup {Null}]
      /\ \A p \in Requests : req'[p] = Null <=> pc'[p] \in Answers \cup {"idle"}
  <2>1. CASE Goto(r, req[r], "append")
    BY <1>1, <2>1, GotoTyped DEF Awaits
  <2>2. CASE Goto(r, req[r], "refused")
    BY <2>2, GotoTyped DEF Answers
  <2>3. QED
    BY <2>1, <2>2 DEF Sign
<1>4. QED
  BY <1>2, <1>3 DEF Sign, TypeOK, StoresUnchanged

LEMMA StoreEventKeepsTypes ==
  ASSUME TypeOK, NEW r \in Requests, StoreEvent(r)
  PROVE  TypeOK'
<1> DEFINE event == [ request |-> r, proofType |-> req[r].route.proofType,
                      session |-> req[r].session, recording |-> req[r].recording,
                      input |-> req[r].input ]
<1>1. req[r] \in Body
  BY BodyAt DEF StoreEvent, At, Awaits
<1>2. event \in Event
  BY <1>1 DEF Body, Event, Routes
<1>3. SessionTypeOK'
  BY SessionsUnchanged DEF StoreEvent, TypeOK
<1>4. /\ pc' \in [Requests -> {"idle"} \cup Awaits \cup Answers]
      /\ req' \in [Requests -> Body \cup {Null}]
      /\ \A p \in Requests : req'[p] = Null <=> pc'[p] \in Answers \cup {"idle"}
  <2>1. \E step \in Answers : Goto(r, req[r], step)
    BY DEF StoreEvent, Answers
  <2>2. QED
    BY <2>1, GotoTyped
<1>5. events' \in Seq(Event)
  <2>1. events \in Seq(Event)
    BY DEF TypeOK
  <2>2. events' = Append(events, event) \/ events' = events
    BY DEF StoreEvent
  <2> HIDE DEF event
  <2>3. QED
    BY <1>2, <2>1, <2>2
<1>6. QED
  BY <1>3, <1>4, <1>5 DEF StoreEvent, TypeOK

LEMMA RecordingsKeepTypes ==
  ASSUME TypeOK, NEW s \in RecordingSessions, OpenRecording(s) \/ CloseRecording(s)
  PROVE  TypeOK'
<1>1. recordings \in [RecordingSessions -> Recording \cup {Null}]
  BY DEF TypeOK
<1>2. ASSUME NEW table \in [RecordingSessions -> Recording \cup {Null}], SaveRecordings(table),
             opened' \subseteq RecordingSessions
      PROVE  TypeOK'
  <2>1. SessionTypeOK'
    BY <1>2, SessionsUnchanged DEF SaveRecordings, TypeOK
  <2>2. QED
    BY <1>2, <2>1 DEF SaveRecordings, TypeOK
<1>3. CASE OpenRecording(s)
  <2>0. opened' \subseteq RecordingSessions
    BY <1>3 DEF OpenRecording, TypeOK
  <2>1. PICK verified \in BOOLEAN :
          SaveRecordings([recordings EXCEPT ![s] = [verified |-> verified, status |-> "ACTIVE"]])
    BY <1>3 DEF OpenRecording
  <2>2. [verified |-> verified, status |-> "ACTIVE"] \in Recording
    BY DEF Recording
  <2>3. QED
    BY <1>1, <1>2, <2>0, <2>1, <2>2
<1>4. CASE CloseRecording(s)
  <2>1. recordings[s] \in Recording
    BY <1>1, <1>4 DEF CloseRecording
  <2>2. [recordings[s] EXCEPT !.status = "CLOSED"] \in Recording
    BY <2>1 DEF Recording
  <2>3. [recordings EXCEPT ![s].status = "CLOSED"]
          \in [RecordingSessions -> Recording \cup {Null}]
    BY <1>1, <2>2
  <2>4. QED
    BY <1>2, <1>4, <2>3 DEF CloseRecording, TypeOK
<1>5. QED
  BY <1>3, <1>4

LEMMA IdentityKeepsTypes ==
  ASSUME TypeOK, IdentityRoutes
  PROVE  TypeOK'
<1>1. SessionTypeOK
  BY DEF TypeOK
<1>2. SessionTypeOK'
  BY <1>1, IssueTyped, RedeemTyped, CancelTyped, TickTyped DEF IdentityRoutes
<1>3. QED
  BY <1>2 DEF IdentityRoutes, registrationVars, TypeOK

LEMMA RestartKeepsTypes ==
  ASSUME TypeOK, Restart
  PROVE  TypeOK'
<1>1. SessionTypeOK'
  BY ReloadTyped DEF Restart, TypeOK
<1>2. quota' \in Quota
  BY QuotaTypes DEF Restart, TypeOK, SessionTypeOK
<1>3. /\ pc' \in [Requests -> {"idle"} \cup Awaits \cup Answers]
      /\ req' \in [Requests -> Body \cup {Null}]
      /\ \A p \in Requests : req'[p] = Null <=> pc'[p] \in Answers \cup {"idle"}
  <2>1. "refused" \in Answers
    BY DEF Answers
  <2>2. QED
    BY <2>1 DEF Restart, TypeOK
<1>4. QED
  BY <1>1, <1>2, <1>3 DEF Restart, TypeOK

LEMMA TypesAtInit ==
  ASSUME Init
  PROVE  TypeOK
<1>1. SessionTypeOK
  BY DEF Init, SessionInit, SessionTypeOK, Table, Nothing
<1>2. quota \in Quota
  BY <1>1, QuotaTypes DEF Init, SessionTypeOK
<1>3. QED
  BY <1>1, <1>2 DEF Init, TypeOK, NoRecordings

LEMMA TypesNext ==
  ASSUME TypeOK, [Next]_vars
  PROVE  TypeOK'
<1>1. CASE \E r \in Requests : Handle(r)
  BY <1>1, ReceiveKeepsTypes, ReadsKeepTypes, SignKeepsTypes, StoreEventKeepsTypes DEF Handle
<1>2. CASE \E s \in RecordingSessions : OpenRecording(s) \/ CloseRecording(s)
  BY <1>2, RecordingsKeepTypes
<1>3. CASE IdentityRoutes
  BY <1>3, IdentityKeepsTypes
<1>4. CASE Restart
  BY <1>4, RestartKeepsTypes
<1>5. CASE UNCHANGED vars
  <2>1. SessionTypeOK'
    BY <1>5, SessionsUnchanged DEF vars, TypeOK
  <2>2. QED
    BY <1>5, <2>1 DEF vars, registrationVars, TypeOK
<1>6. QED
  BY <1>1, <1>2, <1>3, <1>4, <1>5 DEF Next

\* The stores, the quota, the requests and the events keep their types.
THEOREM TypesHold == Spec => []TypeOK
<1>1. Init => TypeOK
  BY TypesAtInit
<1>2. TypeOK /\ [Next]_vars => TypeOK'
  BY TypesNext
<1>3. QED
  BY <1>1, <1>2, PTL DEF Spec

-----------------------------------------------------------------------------
(* One proof per session *)

\* The requests that have consumed their session and not yet stored an event.
InHand(r) == pc[r] \in {"sign", "append"}

\* Every session in hand or in the ledger is spent, and is there only once.
ProofsInv ==
  /\ \A r \in Requests : InHand(r) => req[r].session \in SpentSessions
  /\ \A r, q \in Requests :
       InHand(r) /\ InHand(q) /\ req[r].session = req[q].session => r = q
  /\ \A i \in DOMAIN events : events[i].session \in SpentSessions
  /\ \A i \in DOMAIN events, r \in Requests : InHand(r) => events[i].session # req[r].session
  /\ \A i, j \in DOMAIN events : events[i].session = events[j].session => i = j

\* Requests leave the hand, and nothing is stored.
LEMMA QuietStep ==
  ASSUME TypeOK, ProofsInv, StoreKept, events' = events,
         \A q \in Requests : InHand(q)' => InHand(q) /\ req'[q] = req[q]
  PROVE  ProofsInv'
<1>1. \A r \in Requests : InHand(r)' => req'[r].session \in SpentSessions'
  BY SpentStay DEF ProofsInv
<1>2. \A r, q \in Requests :
        InHand(r)' /\ InHand(q)' /\ req'[r].session = req'[q].session => r = q
  BY DEF ProofsInv
<1>3. \A i \in DOMAIN events' : events'[i].session \in SpentSessions'
  BY SpentStay DEF ProofsInv
<1>4. \A i \in DOMAIN events', r \in Requests :
        InHand(r)' => events'[i].session # req'[r].session
  BY DEF ProofsInv
<1>5. \A i, j \in DOMAIN events' : events'[i].session = events'[j].session => i = j
  BY DEF ProofsInv
<1>6. QED
  BY <1>1, <1>2, <1>3, <1>4, <1>5 DEF ProofsInv

\* A request that goes elsewhere than into the hand is a quiet step.
LEMMA GotoQuiet ==
  ASSUME TypeOK, ProofsInv, StoreKept, events' = events,
         NEW r \in Requests, NEW b, NEW step, step \notin {"sign", "append"}, Goto(r, b, step)
  PROVE  ProofsInv'
<1>1. pc \in [Requests -> {"idle"} \cup Awaits \cup Answers]
      /\ req \in [Requests -> Body \cup {Null}]
  BY DEF TypeOK
<1>2. \A q \in Requests : InHand(q)' => InHand(q) /\ req'[q] = req[q]
  BY <1>1 DEF Goto, InHand
<1>3. QED
  BY <1>2, QuietStep

LEMMA RefuseQuiet ==
  ASSUME TypeOK, StoreInv, ProofsInv, NEW r \in Requests, NEW q, Refuse(r, q)
  PROVE  StoreInv' /\ ProofsInv'
<1>1. StoreKept
  BY UnchangedKept DEF Refuse, sessionVars, memory
<1>2. QED
  BY <1>1, GotoQuiet DEF Refuse, StoresUnchanged, StoreKept

LEMMA AwaitQuiet ==
  ASSUME TypeOK, StoreInv, ProofsInv, NEW r \in Requests, NEW b, NEW q, NEW read,
         read \notin {"sign", "append"}, Await(r, b, q, read)
  PROVE  StoreInv' /\ ProofsInv'
<1>1. StoreKept
  BY UnchangedKept DEF Await, sessionVars, memory
<1>2. QED
  BY <1>1, GotoQuiet DEF Await, StoresUnchanged, StoreKept

\* The one step that takes a session: it was not spent, so nobody has it.
LEMMA TakeSession ==
  ASSUME TypeOK, StoreInv, ProofsInv, NEW r \in Requests, NEW b \in Body,
         ~ InHand(r), Authorizes(b.session, b.route.scope), Consume(b.session),
         Goto(r, b, "sign"), events' = events
  PROVE  StoreInv' /\ ProofsInv'
<1>1. b.session \in Sessions
  BY DEF Body
<1>2. Known(b.session) /\ b.session \notin SpentSessions
  BY DEF Authorizes, HasStatus, Spent, SpentSessions
<1>3. StoreKept /\ b.session \in SpentSessions'
  BY <1>1, <1>2, ConsumeKept DEF TypeOK, SpentSessions
<1>4. pc \in [Requests -> {"idle"} \cup Awaits \cup Answers]
      /\ req \in [Requests -> Body \cup {Null}]
  BY DEF TypeOK
<1>5. req'[r] = b
  BY <1>4 DEF Goto, Answers
<1>6. \A q \in Requests \ {r} : (InHand(q)' <=> InHand(q)) /\ req'[q] = req[q]
  BY <1>4 DEF Goto, InHand
<1>7. \A q \in Requests \ {r} : InHand(q) => req[q].session # b.session
  BY <1>2 DEF ProofsInv
<1>8. \A i \in DOMAIN events : events[i].session # b.session
  BY <1>2 DEF ProofsInv
<1>9. \A q \in Requests : InHand(q)' => req'[q].session \in SpentSessions'
  <2>1. \A q \in Requests \ {r} : InHand(q)' => req'[q].session \in SpentSessions'
    BY <1>3, <1>6, SpentStay DEF ProofsInv
  <2>2. QED
    BY <1>3, <1>5, <2>1
<1>10. \A p, q \in Requests :
         InHand(p)' /\ InHand(q)' /\ req'[p].session = req'[q].session => p = q
  BY <1>5, <1>6, <1>7 DEF ProofsInv
<1>11. \A i \in DOMAIN events' : events'[i].session \in SpentSessions'
  BY <1>3, SpentStay DEF ProofsInv
<1>12. \A i \in DOMAIN events', q \in Requests :
         InHand(q)' => events'[i].session # req'[q].session
  BY <1>5, <1>6, <1>8 DEF ProofsInv
<1>13. QED
  BY <1>3, <1>9, <1>10, <1>11, <1>12 DEF ProofsInv, StoreKept

LEMMA SpendKeeps ==
  ASSUME "identity" \in Gates, TypeOK, StoreInv, ProofsInv, NEW r \in Requests, NEW b \in Body,
         NEW q, ~ InHand(r), Spend(r, b, q)
  PROVE  StoreInv' /\ ProofsInv'
<1>1. CASE RefuseSession(b.session) /\ Goto(r, b, "refused") /\ StoresUnchanged
  <2>1. StoreKept
    BY <1>1, RefuseKept DEF Body, TypeOK
  <2>2. QED
    BY <1>1, <2>1, GotoQuiet DEF StoresUnchanged, StoreKept
<1>2. CASE /\ Authorizes(b.session, b.route.scope) /\ Consume(b.session)
           /\ Goto(r, b, "sign") /\ StoresUnchanged
  BY <1>2, TakeSession DEF StoresUnchanged
<1>3. QED
  BY <1>1, <1>2 DEF Spend

LEMMA ContinueKeeps ==
  ASSUME "identity" \in Gates, TypeOK, StoreInv, ProofsInv, NEW r \in Requests, NEW b \in Body,
         NEW q, ~ InHand(r), Continue(r, b, q)
  PROVE  StoreInv' /\ ProofsInv'
  BY AwaitQuiet, SpendKeeps DEF Continue

LEMMA ReceiveKeeps ==
  ASSUME "identity" \in Gates, TypeOK, StoreInv, ProofsInv, NEW r \in Requests, Receive(r)
  PROVE  StoreInv' /\ ProofsInv'
<1> DEFINE q == Refreshed(quota)
<1>1. ~ InHand(r)
  BY DEF Receive, At, InHand
<1>2. Refuse(r, q) \/ \E b \in Bodies : Await(r, b, q, "readLineage") \/ Continue(r, b, q)
  BY DEF Receive
<1> HIDE DEF q
<1>3. CASE Refuse(r, q)
  BY <1>3, RefuseQuiet
<1>4. ASSUME NEW b \in Bodies, Await(r, b, q, "readLineage") \/ Continue(r, b, q)
      PROVE  StoreInv' /\ ProofsInv'
  <2>1. b \in Body
    BY BodiesTyped
  <2>2. QED
    BY <1>1, <1>4, <2>1, AwaitQuiet, ContinueKeeps
<1>5. QED
  BY <1>2, <1>3, <1>4

LEMMA ReadsKeep ==
  ASSUME "identity" \in Gates, TypeOK, StoreInv, ProofsInv, NEW r \in Requests,
         ReadLineage(r) \/ ReadInput(r)
  PROVE  StoreInv' /\ ProofsInv'
<1>1. ~ InHand(r) /\ pc[r] \in Awaits
  BY DEF ReadLineage, ReadInput, At, InHand, Awaits
<1>2. req[r] \in Body
  BY <1>1, BodyAt
<1>3. Refuse(r, quota) \/ Continue(r, req[r], quota) \/ Spend(r, req[r], quota)
  BY DEF ReadLineage, ReadInput
<1>4. QED
  BY <1>1, <1>2, <1>3, RefuseQuiet, ContinueKeeps, SpendKeeps

LEMMA SignKeeps ==
  ASSUME TypeOK, StoreInv, ProofsInv, NEW r \in Requests, Sign(r)
  PROVE  StoreInv' /\ ProofsInv'
<1>1. StoreKept
  BY UnchangedKept DEF Sign, sessionVars, memory
<1>2. CASE Goto(r, req[r], "refused")
  BY <1>1, <1>2, GotoQuiet DEF Sign, StoresUnchanged, StoreKept
<1>3. CASE Goto(r, req[r], "append")
  <2>1. pc \in [Requests -> {"idle"} \cup Awaits \cup Answers]
        /\ req \in [Requests -> Body \cup {Null}]
    BY DEF TypeOK
  <2>2. \A q \in Requests : InHand(q)' => InHand(q) /\ req'[q] = req[q]
    BY <1>3, <2>1 DEF Goto, InHand, Sign, At, Answers
  <2>3. QED
    BY <1>1, <2>2, QuietStep DEF Sign, StoresUnchanged, StoreKept
<1>4. QED
  BY <1>2, <1>3 DEF Sign

\* The session goes from the hand of the request into the event.
LEMMA StoreEventKeeps ==
  ASSUME TypeOK, StoreInv, ProofsInv, NEW r \in Requests, StoreEvent(r)
  PROVE  StoreInv' /\ ProofsInv'
<1>1. StoreKept
  BY UnchangedKept DEF StoreEvent, sessionVars, memory
<1>2. \E step \in Answers : Goto(r, req[r], step)
  BY DEF StoreEvent, Answers
<1>3. CASE events' = events
  BY <1>1, <1>2, <1>3, GotoQuiet DEF Answers, StoreKept
<1>4. CASE events' = Append(events,
             [ request |-> r, proofType |-> req[r].route.proofType, session |-> req[r].session,
               recording |-> req[r].recording, input |-> req[r].input ])
  <2> DEFINE n == Len(events) + 1
  <2>1. events \in Seq(Event)
    BY DEF TypeOK
  <2>2. /\ DOMAIN events' = DOMAIN events \cup {n} /\ n \notin DOMAIN events
        /\ events'[n].session = req[r].session
        /\ \A i \in DOMAIN events : events'[i] = events[i]
    BY <1>4, <2>1
  <2>3. /\ pc \in [Requests -> {"idle"} \cup Awaits \cup Answers]
        /\ req \in [Requests -> Body \cup {Null}]
    BY DEF TypeOK
  <2>4. InHand(r)
    BY DEF StoreEvent, At, InHand
  <2>5. ~ InHand(r)' /\ \A q \in Requests : InHand(q)' => InHand(q) /\ req'[q] = req[q]
    BY <1>2, <2>3 DEF Goto, InHand, Answers
  <2> HIDE DEF n
  <2>6. \A q \in Requests : InHand(q)' => req'[q].session \in SpentSessions'
    BY <1>1, <2>5, SpentStay DEF ProofsInv
  <2>7. \A p, q \in Requests :
          InHand(p)' /\ InHand(q)' /\ req'[p].session = req'[q].session => p = q
    BY <2>5 DEF ProofsInv
  <2>8. \A i \in DOMAIN events' : events'[i].session \in SpentSessions'
    BY <1>1, <2>2, <2>4, SpentStay DEF ProofsInv
  <2>9. \A i \in DOMAIN events', q \in Requests :
          InHand(q)' => events'[i].session # req'[q].session
    BY <2>2, <2>4, <2>5 DEF ProofsInv
  <2>10. \A i, j \in DOMAIN events' : events'[i].session = events'[j].session => i = j
    BY <2>2, <2>4 DEF ProofsInv
  <2>11. QED
    BY <1>1, <2>6, <2>7, <2>8, <2>9, <2>10 DEF ProofsInv, StoreKept
<1>5. QED
  BY <1>3, <1>4 DEF StoreEvent

\* Steps of the stores alone.
LEMMA StoreStepsKeep ==
  ASSUME TypeOK, StoreInv, ProofsInv, StoreKept, UNCHANGED <<pc, req, events>>
  PROVE  StoreInv' /\ ProofsInv'
<1>1. \A q \in Requests : InHand(q)' => InHand(q) /\ req'[q] = req[q]
  BY DEF InHand
<1>2. QED
  BY <1>1, QuietStep DEF StoreKept

LEMMA RestartKeeps ==
  ASSUME TypeOK, StoreInv, ProofsInv, Restart
  PROVE  StoreInv' /\ ProofsInv'
<1>1. StoreKept
  BY ReloadKept DEF Restart, TypeOK
<1>2. \A q \in Requests : ~ InHand(q)'
  BY DEF Restart, InHand, Answers
<1>3. QED
  BY <1>1, <1>2, QuietStep DEF Restart, StoreKept

LEMMA ProofsNext ==
  ASSUME "identity" \in Gates, TypeOK, StoreInv, ProofsInv, [Next]_vars
  PROVE  StoreInv' /\ ProofsInv'
<1>1. CASE \E r \in Requests : Handle(r)
  BY <1>1, ReceiveKeeps, ReadsKeep, SignKeeps, StoreEventKeeps DEF Handle
<1>2. CASE \E s \in RecordingSessions : OpenRecording(s) \/ CloseRecording(s)
  <2>1. UNCHANGED <<sessionVars, pc, req, events>>
    BY <1>2 DEF OpenRecording, CloseRecording, SaveRecordings
  <2>2. QED
    BY <2>1, UnchangedKept, StoreStepsKeep DEF sessionVars, memory
<1>3. CASE IdentityRoutes
  <2>1. SessionTypeOK
    BY DEF TypeOK
  <2>2. StoreKept
    <3>1. CASE \E s \in Sessions : Issue(s) \/ Redeem(s) \/ Cancel(s)
      BY <2>1, <3>1, IssueKept, RedeemKept, CancelKept
    <3>2. CASE Tick
      BY <3>2, UnchangedKept DEF Tick, memory
    <3>3. QED
      BY <1>3, <3>1, <3>2 DEF IdentityRoutes
  <2>3. QED
    BY <1>3, <2>2, StoreStepsKeep DEF IdentityRoutes, registrationVars
<1>4. CASE Restart
  BY <1>4, RestartKeeps
<1>5. CASE UNCHANGED vars
  BY <1>5, UnchangedKept, StoreStepsKeep DEF vars, registrationVars, sessionVars, memory
<1>6. QED
  BY <1>1, <1>2, <1>3, <1>4, <1>5 DEF Next

\* Where an identity session is required, no session leads to two stored
\* proofs: not by requests that present it at the same time, not across
\* restarts, and not where sessions are kept in memory only.
THEOREM OneProof ==
  ASSUME "identity" \in Gates
  PROVE  Spec => []OneProofPerSession
<1>1. Init => TypeOK /\ StoreInv /\ ProofsInv
  <2>1. Init => StoreInv
    BY DEF Init, SessionInit, StoreInv, Nothing, Known
  <2>2. Init => ProofsInv
    BY DEF Init, ProofsInv, InHand
  <2>3. QED
    BY <2>1, <2>2, TypesAtInit
<1>2. TypeOK /\ StoreInv /\ ProofsInv /\ [Next]_vars => (TypeOK /\ StoreInv /\ ProofsInv)'
  BY TypesNext, ProofsNext
<1>3. ProofsInv => OneProofPerSession
  BY DEF ProofsInv, OneProofPerSession, Stored
<1>4. QED
  BY <1>1, <1>2, <1>3, PTL DEF Spec

-----------------------------------------------------------------------------
(* The promise of the identity layer, kept by the routes *)

\* A step of the server is a step of the session store, or leaves it alone.
LEMMA StepsOfTheStore ==
  ASSUME TypeOK, [Next]_vars
  PROVE  SessionStep \/ UNCHANGED sessionVars
<1>1. ASSUME NEW r \in Requests, NEW b \in Body, NEW q, Spend(r, b, q)
      PROVE  SessionStep \/ UNCHANGED sessionVars
  BY <1>1 DEF Spend, Body, SessionStep, Authorizes
<1>2. ASSUME NEW r \in Requests, NEW b \in Body, NEW q, Continue(r, b, q)
      PROVE  SessionStep \/ UNCHANGED sessionVars
  BY <1>1, <1>2 DEF Continue, Await
<1>3. ASSUME NEW r \in Requests, Receive(r)
      PROVE  SessionStep \/ UNCHANGED sessionVars
  <2>1. CASE \E q : Refuse(r, q)
    BY <2>1 DEF Refuse
  <2>2. ASSUME NEW q, NEW b \in Bodies, Await(r, b, q, "readLineage") \/ Continue(r, b, q)
        PROVE  SessionStep \/ UNCHANGED sessionVars
    BY <1>2, <2>2, BodiesTyped DEF Await
  <2>3. QED
    BY <1>3, <2>1, <2>2 DEF Receive
<1>4. ASSUME NEW r \in Requests, ReadLineage(r) \/ ReadInput(r)
      PROVE  SessionStep \/ UNCHANGED sessionVars
  <2>1. req[r] \in Body
    BY <1>4, BodyAt DEF ReadLineage, ReadInput, At, Awaits
  <2>2. QED
    BY <1>1, <1>2, <1>4, <2>1 DEF ReadLineage, ReadInput, Refuse
<1>5. ASSUME NEW r \in Requests, Sign(r) \/ StoreEvent(r)
      PROVE  UNCHANGED sessionVars
  BY <1>5 DEF Sign, StoreEvent
<1>6. CASE \E s \in RecordingSessions : OpenRecording(s) \/ CloseRecording(s)
  BY <1>6 DEF OpenRecording, CloseRecording, SaveRecordings
<1>7. CASE IdentityRoutes \/ Restart
  BY <1>7 DEF IdentityRoutes, Restart, SessionStep
<1>8. CASE UNCHANGED vars
  BY <1>8 DEF vars
<1>9. QED
  BY <1>3, <1>4, <1>5, <1>6, <1>7, <1>8 DEF Next, Handle

LEMMA StoreHolds == Spec => [](TypeOK /\ SessionInv)
<1>1. Init => SessionInv
  BY SessionInvAtInit DEF Init
<1>2. TypeOK /\ SessionInv /\ [Next]_vars => SessionInv'
  BY StepsOfTheStore, SessionInvKept
<1>3. QED
  BY <1>1, <1>2, TypesHold, PTL DEF Spec

\* Whatever the routes interleave and whenever the process is started again,
\* the sessions behave as OneTimeGrant promises.
THEOREM RegistrationImplementsPromise == Spec => ImplementsOneTimeGrant
<1>1. Init => Promise!Init
  BY PhasesAtInit DEF Init
<1>2. TypeOK /\ SessionInv /\ [Next]_vars
        => [Promise!Next]_<<[s \in Sessions |-> PhaseOf(s)], grants>>
  <2>1. SessionInv /\ SessionStep => Promise!Next \/ (phases' = phases /\ grants' = grants)
    BY StepRefines DEF SessionInv
  <2>2. UNCHANGED sessionVars => phases' = phases /\ grants' = grants
    BY SamePhases DEF sessionVars, memory
  <2>3. QED
    BY <2>1, <2>2, StepsOfTheStore DEF phases
<1>3. QED
  BY <1>1, <1>2, StoreHolds, PTL DEF Spec, ImplementsOneTimeGrant, Promise!Spec

\* No step of the server, a restart included, takes back a status that a
\* session has ended in.
THEOREM EndedStaysEnded == Spec => EndedIsFinal
<1> DEFINE Final == \A s \in Sessions :
                      HasStatus(s, {"CONSUMED", "EXPIRED", "CANCELED"}) =>
                        challenges'[s] \in {challenges[s], Null}
<1>1. TypeOK /\ SessionInv /\ [Next]_vars => [Final]_sessionVars
  <2>1. SessionInv /\ SessionStep => Final
    BY StepKeepsEnded DEF SessionInv, EndedStay, Ended
  <2>2. QED
    BY <2>1, StepsOfTheStore
<1>2. QED
  BY <1>1, StoreHolds, PTL DEF Spec, EndedIsFinal

-----------------------------------------------------------------------------
(* What a generated proof rests on *)

Generated(b) == b.route.proofType = "GENERATED"

\* The recording that a body or an event names as its input is stored.
Recorded(b) ==
  "input" \in Gates =>
    \E e \in Stored : e.request = b.input /\ e.proofType = "RECORDED"

\* The recording session it names has been opened, by a QR scan as far as the
\* store still knows.
Vouched(b) ==
  "session" \in Gates =>
    /\ b.recording # Null /\ b.recording \in opened
    /\ recordings[b.recording] # Null => recordings[b.recording].verified

\* A request that has passed a gate can rely on it for as long as it runs, and
\* an event for good.
RestsInv ==
  /\ recordingFile = IF RecordingsPersistent THEN recordings ELSE NoRecordings
  /\ \A s \in RecordingSessions : recordings[s] # Null => s \in opened
  /\ \A r \in Requests :
       pc[r] \in {"readInput", "sign", "append"} /\ Generated(req[r]) => Vouched(req[r])
  /\ \A r \in Requests : InHand(r) /\ Generated(req[r]) => Recorded(req[r])
  /\ \A i \in DOMAIN events : events[i].proofType = "GENERATED" =>
       /\ Vouched(events[i])
       /\ "input" \in Gates =>
            \E j \in 1 .. (i - 1) : /\ events[j].request = events[i].input
                                    /\ events[j].proofType = "RECORDED"

\* What is counted in the step that checks it leaves the rest smaller.
QuotaInv == quota.atOnce + quota.remaining <= QuotaPerHour

\* One request goes on, and what it relies on has been looked at.
LEMMA RequestRests ==
  ASSUME TypeOK, RestsInv, StoresUnchanged, NEW r \in Requests, NEW b, NEW step,
         Goto(r, b, step),
         step \in {"readInput", "sign", "append"} /\ Generated(b) => Vouched(b),
         step \in {"sign", "append"} /\ Generated(b) => Recorded(b)
  PROVE  RestsInv'
<1>1. /\ pc \in [Requests -> {"idle"} \cup Awaits \cup Answers]
      /\ req \in [Requests -> Body \cup {Null}]
  BY DEF TypeOK
<1>2. /\ pc'[r] = step
      /\ step \in {"readInput", "sign", "append"} => req'[r] = b
      /\ \A p \in Requests \ {r} : pc'[p] = pc[p] /\ req'[p] = req[p]
  BY <1>1 DEF Goto, Answers
<1>3. UNCHANGED <<recordings, recordingFile, opened, events>>
  BY DEF StoresUnchanged
<1>4. /\ recordingFile' = IF RecordingsPersistent THEN recordings' ELSE NoRecordings
      /\ \A s \in RecordingSessions : recordings'[s] # Null => s \in opened'
  BY <1>3 DEF RestsInv
<1>5. ASSUME NEW p \in Requests, pc'[p] \in {"readInput", "sign", "append"}, Generated(req[p])'
      PROVE  Vouched(req[p])'
  BY <1>2, <1>3, <1>5 DEF RestsInv, Vouched, Generated
<1>6. ASSUME NEW p \in Requests, InHand(p)', Generated(req[p])'
      PROVE  Recorded(req[p])'
  BY <1>2, <1>3, <1>6 DEF RestsInv, Recorded, Generated, InHand, Stored
<1>7. \A i \in DOMAIN events' : events'[i].proofType = "GENERATED" =>
        /\ Vouched(events[i])'
        /\ "input" \in Gates =>
             \E j \in 1 .. (i - 1) : /\ events'[j].request = events'[i].input
                                     /\ events'[j].proofType = "RECORDED"
  BY <1>3 DEF RestsInv, Vouched
<1>8. QED
  BY <1>4, <1>5, <1>6, <1>7 DEF RestsInv

LEMMA RefuseRests ==
  ASSUME TypeOK, RestsInv, NEW r \in Requests, NEW q, Refuse(r, q)
  PROVE  RestsInv'
  BY RequestRests DEF Refuse

LEMMA SpendRests ==
  ASSUME TypeOK, RestsInv, NEW r \in Requests, NEW b \in Body, NEW q, Spend(r, b, q),
         Generated(b) => Vouched(b) /\ Recorded(b)
  PROVE  RestsInv'
  BY RequestRests DEF Spend

\* The recording-session gate is what it says.
LEMMA AcceptedIsVouched ==
  ASSUME RestsInv, NEW b \in Body, RecordingAccepted(b), Generated(b)
  PROVE  Vouched(b)
  BY DEF RestsInv, RecordingAccepted, Enforced, Generated, Vouched, Body

LEMMA ContinueRests ==
  ASSUME TypeOK, RestsInv, NEW r \in Requests, NEW b \in Body, NEW q, Continue(r, b, q)
  PROVE  RestsInv'
<1>1. Generated(b) => Vouched(b)
  BY AcceptedIsVouched DEF Continue
<1>2. CASE Enforced(b, "input")
  BY <1>1, <1>2, RequestRests DEF Continue, Await
<1>3. CASE ~ Enforced(b, "input")
  BY <1>1, <1>3, SpendRests DEF Continue, Enforced, Generated, Recorded
<1>4. QED
  BY <1>2, <1>3

LEMMA ReceiveRests ==
  ASSUME TypeOK, RestsInv, NEW r \in Requests, Receive(r)
  PROVE  RestsInv'
<1>1. \E q : Refuse(r, q) \/ \E b \in Bodies : Await(r, b, q, "readLineage") \/ Continue(r, b, q)
  BY DEF Receive
<1>2. ASSUME NEW q, Refuse(r, q)
      PROVE  RestsInv'
  BY <1>2, RefuseRests
<1>3. ASSUME NEW q, NEW b \in Bodies, Await(r, b, q, "readLineage") \/ Continue(r, b, q)
      PROVE  RestsInv'
  <2>1. b \in Body
    BY BodiesTyped
  <2>2. CASE Await(r, b, q, "readLineage")
    BY <2>2, RequestRests DEF Await
  <2>3. QED
    BY <1>3, <2>1, <2>2, ContinueRests
<1>4. QED
  BY <1>1, <1>2, <1>3

\* The event that is looked up is one that is stored.
LEMMA EventOfStored ==
  ASSUME NEW id, HasEvent(id)
  PROVE  EventOf(id) \in Stored /\ EventOf(id).request = id
  BY DEF HasEvent, EventOf

LEMMA ReadsRest ==
  ASSUME TypeOK, RestsInv, NEW r \in Requests, ReadLineage(r) \/ ReadInput(r)
  PROVE  RestsInv'
<1>1. req[r] \in Body
  BY BodyAt DEF ReadLineage, ReadInput, At, Awaits
<1>2. CASE Refuse(r, quota)
  BY <1>2, RefuseRests
<1>3. CASE Continue(r, req[r], quota)
  BY <1>1, <1>3, ContinueRests
<1>4. CASE /\ At(r, "readInput") /\ HasEvent(req[r].input)
           /\ EventOf(req[r].input).proofType = "RECORDED" /\ Spend(r, req[r], quota)
  <2>1. Recorded(req[r])
    BY <1>4, EventOfStored DEF Recorded
  <2>2. Generated(req[r]) => Vouched(req[r])
    BY <1>4 DEF RestsInv, At
  <2>3. QED
    BY <1>1, <1>4, <2>1, <2>2, SpendRests
<1>5. QED
  BY <1>2, <1>3, <1>4 DEF ReadLineage, ReadInput

LEMMA SignRests ==
  ASSUME TypeOK, RestsInv, NEW r \in Requests, Sign(r)
  PROVE  RestsInv'
<1>1. Generated(req[r]) => Vouched(req[r]) /\ Recorded(req[r])
  BY DEF Sign, At, RestsInv, InHand
<1>2. CASE Goto(r, req[r], "append")
  BY <1>1, <1>2, RequestRests DEF Sign
<1>3. CASE Goto(r, req[r], "refused")
  BY <1>3, RequestRests DEF Sign
<1>4. QED
  BY <1>2, <1>3 DEF Sign

\* The event takes over what its request relied on: its input is stored
\* before it.
LEMMA StoreEventRests ==
  ASSUME TypeOK, RestsInv, NEW r \in Requests, StoreEvent(r)
  PROVE  RestsInv'
<1>1. PICK step \in Answers : Goto(r, req[r], step)
  BY DEF StoreEvent, Answers
<1>2. CASE events' = events
  BY <1>1, <1>2, RequestRests DEF StoreEvent, StoresUnchanged, Answers
<1> DEFINE e == [ request |-> r, proofType |-> req[r].route.proofType,
                  session |-> req[r].session, recording |-> req[r].recording,
                  input |-> req[r].input ]
<1>3. CASE events' = Append(events, e)
  <2> DEFINE n == Len(events) + 1
  <2>1. events \in Seq(Event)
    BY DEF TypeOK
  <2>2. /\ DOMAIN events' = DOMAIN events \cup {n} /\ n \notin DOMAIN events
        /\ events'[n] = e /\ 1 .. (n - 1) = DOMAIN events
        /\ \A i \in DOMAIN events : events'[i] = events[i] /\ 1 .. (i - 1) \subseteq DOMAIN events
    BY <1>3, <2>1
  <2>3. /\ pc \in [Requests -> {"idle"} \cup Awaits \cup Answers]
        /\ req \in [Requests -> Body \cup {Null}]
    BY DEF TypeOK
  <2>4. InHand(r)
    BY DEF StoreEvent, At, InHand
  <2>5. /\ pc'[r] \in Answers
        /\ \A p \in Requests \ {r} : pc'[p] = pc[p] /\ req'[p] = req[p]
    BY <1>1, <2>3 DEF Goto
  <2>6. UNCHANGED <<recordings, recordingFile, opened>>
    BY DEF StoreEvent
  <2>7. /\ e.proofType = req[r].route.proofType /\ e.recording = req[r].recording
        /\ e.input = req[r].input
    OBVIOUS
  <2> HIDE DEF n, e
  <2>8. \A d \in Stored : d \in Stored'
    BY <2>2 DEF Stored
  <2>9. /\ recordingFile' = IF RecordingsPersistent THEN recordings' ELSE NoRecordings
        /\ \A s \in RecordingSessions : recordings'[s] # Null => s \in opened'
    BY <2>6 DEF RestsInv
  <2>10. ASSUME NEW p \in Requests, pc'[p] \in {"readInput", "sign", "append"}, Generated(req[p])'
         PROVE  Vouched(req[p])'
    BY <2>5, <2>6, <2>10 DEF RestsInv, Vouched, Generated, Answers
  <2>11. ASSUME NEW p \in Requests, InHand(p)', Generated(req[p])'
         PROVE  Recorded(req[p])'
    <3>1. p # r /\ InHand(p) /\ Generated(req[p]) /\ req'[p] = req[p]
      BY <2>5, <2>11 DEF InHand, Answers, Generated
    <3>2. Recorded(req[p])
      BY <3>1 DEF RestsInv
    <3>3. QED
      BY <2>8, <3>1, <3>2 DEF Recorded
  <2>12. ASSUME NEW i \in DOMAIN events', events'[i].proofType = "GENERATED"
         PROVE  /\ Vouched(events[i])'
                /\ "input" \in Gates =>
                     \E j \in 1 .. (i - 1) : /\ events'[j].request = events'[i].input
                                             /\ events'[j].proofType = "RECORDED"
    <3>1. CASE i = n
      <4>1. Generated(req[r])
        BY <2>2, <2>7, <2>12, <3>1 DEF Generated
      <4>2. Vouched(req[r]) /\ Recorded(req[r])
        BY <2>4, <4>1 DEF RestsInv, InHand
      <4>3. Vouched(events[i])'
        BY <2>2, <2>6, <2>7, <3>1, <4>2 DEF Vouched
      <4>4. "input" \in Gates =>
              \E j \in DOMAIN events : /\ events[j].request = req[r].input
                                       /\ events[j].proofType = "RECORDED"
        BY <4>2 DEF Recorded, Stored
      <4>5. QED
        BY <2>2, <2>7, <3>1, <4>3, <4>4
    <3>2. CASE i \in DOMAIN events
      <4>1. events'[i] = events[i] /\ events[i].proofType = "GENERATED"
        BY <2>2, <2>12, <3>2
      <4>2. Vouched(events[i])'
        BY <2>6, <3>2, <4>1 DEF RestsInv, Vouched
      <4>3. QED
        BY <2>2, <3>2, <4>1, <4>2 DEF RestsInv
    <3>3. QED
      BY <2>2, <3>1, <3>2
  <2>13. QED
    BY <2>9, <2>10, <2>11, <2>12 DEF RestsInv
<1>4. QED
  BY <1>2, <1>3 DEF StoreEvent

\* The recording sessions change: none that is open loses its QR scan.
LEMMA RecordingsRest ==
  ASSUME TypeOK, RestsInv, UNCHANGED <<pc, req, events>>, opened \subseteq opened',
         recordingFile' = (IF RecordingsPersistent THEN recordings' ELSE NoRecordings),
         \A s \in RecordingSessions : recordings'[s] # Null =>
           /\ s \in opened'
           /\ s \in opened => recordings[s] # Null /\ recordings'[s].verified = recordings[s].verified
  PROVE  RestsInv'
<1>1. ASSUME NEW b, b.recording \in RecordingSessions \cup {Null}, Vouched(b)
      PROVE  Vouched(b)'
  BY <1>1 DEF Vouched
<1>2. /\ \A r \in Requests : pc[r] \in {"readInput", "sign", "append"}
           => req[r].recording \in RecordingSessions \cup {Null}
      /\ \A i \in DOMAIN events : events[i].recording \in RecordingSessions \cup {Null}
  <2>1. \A r \in Requests : pc[r] \in {"readInput", "sign", "append"} => req[r] \in Body
    BY BodyAt DEF Awaits
  <2>2. \A i \in DOMAIN events : events[i] \in Event
    BY DEF TypeOK
  <2>3. QED
    BY <2>1, <2>2 DEF Body, Event
<1>3. ASSUME NEW r \in Requests, pc'[r] \in {"readInput", "sign", "append"}, Generated(req[r])'
      PROVE  Vouched(req[r])'
  <2>1. Vouched(req[r])
    BY <1>3 DEF RestsInv, Generated
  <2>2. QED
    BY <1>2, <1>3, <2>1 DEF Vouched
<1>4. ASSUME NEW r \in Requests, InHand(r)', Generated(req[r])'
      PROVE  Recorded(req[r])'
  BY <1>4 DEF RestsInv, Generated, InHand, Recorded, Stored
<1>5. ASSUME NEW i \in DOMAIN events', events'[i].proofType = "GENERATED"
      PROVE  /\ Vouched(events[i])'
             /\ "input" \in Gates =>
                  \E j \in 1 .. (i - 1) : /\ events'[j].request = events'[i].input
                                          /\ events'[j].proofType = "RECORDED"
  <2>1. Vouched(events[i])'
    <3>1. Vouched(events[i])
      BY <1>5 DEF RestsInv
    <3>2. QED
      BY <1>2, <1>5, <3>1 DEF Vouched
  <2>2. QED
    BY <1>5, <2>1 DEF RestsInv
<1>6. QED
  BY <1>3, <1>4, <1>5 DEF RestsInv

LEMMA OpenRests ==
  ASSUME TypeOK, RestsInv, NEW s \in RecordingSessions, OpenRecording(s)
  PROVE  RestsInv'
<1>1. PICK c \in Recording : SaveRecordings([recordings EXCEPT ![s] = c])
  BY DEF OpenRecording, Recording
<1>2. s \notin opened /\ opened' = opened \cup {s}
  BY DEF OpenRecording
<1>3. recordings \in [RecordingSessions -> Recording \cup {Null}]
  BY DEF TypeOK
<1>4. \A p \in RecordingSessions \ {s} : recordings'[p] = recordings[p]
  BY <1>1, <1>3 DEF SaveRecordings
<1>5. recordingFile' = IF RecordingsPersistent THEN recordings' ELSE NoRecordings
  BY <1>1 DEF SaveRecordings, RestsInv
<1>6. \A p \in RecordingSessions : recordings'[p] # Null =>
        /\ p \in opened'
        /\ p \in opened => recordings[p] # Null /\ recordings'[p].verified = recordings[p].verified
  BY <1>2, <1>4 DEF RestsInv
<1>7. QED
  BY <1>1, <1>2, <1>5, <1>6, RecordingsRest DEF SaveRecordings

LEMMA CloseRests ==
  ASSUME TypeOK, RestsInv, NEW s \in RecordingSessions, CloseRecording(s)
  PROVE  RestsInv'
<1> DEFINE c == [recordings[s] EXCEPT !.status = "CLOSED"]
<1>1. SaveRecordings([recordings EXCEPT ![s] = c]) /\ opened' = opened /\ recordings[s] # Null
  BY DEF CloseRecording
<1>2. recordings \in [RecordingSessions -> Recording \cup {Null}]
  BY DEF TypeOK
<1>3. c.verified = recordings[s].verified
  BY <1>1, <1>2 DEF Recording
<1> HIDE DEF c
<1>4. /\ recordings'[s] = c
      /\ \A p \in RecordingSessions \ {s} : recordings'[p] = recordings[p]
  BY <1>1, <1>2 DEF SaveRecordings
<1>5. recordingFile' = IF RecordingsPersistent THEN recordings' ELSE NoRecordings
  BY <1>1 DEF SaveRecordings, RestsInv
<1>6. \A p \in RecordingSessions : recordings'[p] # Null =>
        /\ p \in opened'
        /\ p \in opened => recordings[p] # Null /\ recordings'[p].verified = recordings[p].verified
  BY <1>1, <1>3, <1>4 DEF RestsInv
<1>7. QED
  BY <1>1, <1>5, <1>6, RecordingsRest DEF SaveRecordings

\* A restart forgets the requests under way, and recordings that no file holds.
LEMMA RestartRests ==
  ASSUME TypeOK, RestsInv, Restart
  PROVE  RestsInv'
<1>1. recordings' = IF RecordingsPersistent THEN recordings ELSE NoRecordings
  BY DEF Restart, RestsInv
<1>2. \A s \in RecordingSessions : recordings'[s] \in {recordings[s], Null}
  BY <1>1 DEF NoRecordings
<1>3. UNCHANGED <<opened, events, recordingFile>>
  BY DEF Restart
<1>4. \A r \in Requests : pc'[r] \notin {"readInput", "sign", "append"}
  BY DEF Restart, Answers
<1>5. /\ recordingFile' = IF RecordingsPersistent THEN recordings' ELSE NoRecordings
      /\ \A s \in RecordingSessions : recordings'[s] # Null => s \in opened'
  BY <1>1, <1>2, <1>3 DEF RestsInv
<1>6. ASSUME NEW i \in DOMAIN events, events[i].proofType = "GENERATED"
      PROVE  Vouched(events[i])'
  <2>1. events[i].recording \in RecordingSessions \cup {Null}
    <3>1. events[i] \in Event
      BY <1>6 DEF TypeOK
    <3>2. QED
      BY <3>1 DEF Event
  <2>2. QED
    BY <1>2, <1>3, <1>6, <2>1 DEF RestsInv, Vouched
<1>7. QED
  BY <1>3, <1>4, <1>5, <1>6 DEF RestsInv, InHand

LEMMA RestsNext ==
  ASSUME TypeOK, RestsInv, [Next]_vars
  PROVE  RestsInv'
<1>1. CASE \E r \in Requests : Handle(r)
  BY <1>1, ReceiveRests, ReadsRest, SignRests, StoreEventRests DEF Handle
<1>2. CASE \E s \in RecordingSessions : OpenRecording(s) \/ CloseRecording(s)
  BY <1>2, OpenRests, CloseRests
<1>3. CASE Restart
  BY <1>3, RestartRests
<1>4. CASE UNCHANGED registrationVars
  BY <1>4, RecordingsRest DEF registrationVars, RestsInv
<1>5. QED
  BY <1>1, <1>2, <1>3, <1>4 DEF Next, IdentityRoutes, vars

\* A generated proof rests on a recording stored before it and on a recording
\* session activated by a QR scan, where the gates ask for them: neither the
\* awaits between the check and the event nor a restart take that away.
THEOREM GeneratedRests == Spec => []GeneratedRestsOnRecorded
<1>1. Init => RestsInv
  BY DEF Init, RestsInv, NoRecordings, InHand
<1>2. TypeOK /\ RestsInv /\ [Next]_vars => RestsInv'
  BY RestsNext
<1>3. RestsInv => GeneratedRestsOnRecorded
  BY DEF RestsInv, GeneratedRestsOnRecorded, Vouched
<1>4. QED
  BY <1>1, <1>2, <1>3, TypesHold, PTL DEF Spec

-----------------------------------------------------------------------------
(* The quota *)

\* A unit that is taken in the step that has seen it is one of the rest.
LEMMA QuotaCounted ==
  ASSUME now \in Nat, NEW q \in Quota, NEW r \in Requests,
         q.atOnce + q.remaining <= QuotaPerHour, At(r, "idle") => q.remaining > 0
  PROVE  /\ Refreshed(q).atOnce + Refreshed(q).remaining <= QuotaPerHour
         /\ ConsumeQuota(Refreshed(q), r).atOnce + ConsumeQuota(Refreshed(q), r).remaining
              <= QuotaPerHour
<1> DEFINE p == Refreshed(q)
<1>1. p \in Quota
  BY QuotaTypes
<1>2. p.atOnce + p.remaining <= QuotaPerHour /\ (At(r, "idle") => p.remaining > 0)
  BY RegistrationAssumption DEF Refreshed, FullQuota
<1> HIDE DEF p
<1>3. p.remaining \in Nat /\ p.atOnce \in Nat /\ QuotaPerHour \in Nat
  BY <1>1, RegistrationAssumption DEF Quota
<1>4. /\ ConsumeQuota(p, r).remaining = IF p.remaining > 0 THEN p.remaining - 1 ELSE p.remaining
      /\ ConsumeQuota(p, r).atOnce = IF At(r, "idle") THEN p.atOnce + 1 ELSE p.atOnce
  BY <1>1 DEF ConsumeQuota, Quota
<1>5. ConsumeQuota(p, r).atOnce + ConsumeQuota(p, r).remaining <= QuotaPerHour
  BY <1>2, <1>3, <1>4
<1>6. QED
  BY <1>2, <1>5 DEF p

LEMMA SpendQuota ==
  ASSUME TypeOK, NEW r \in Requests, NEW b, NEW q \in Quota,
         q.atOnce + q.remaining <= QuotaPerHour, At(r, "idle") => q.remaining > 0,
         Spend(r, b, q) \/ Continue(r, b, q)
  PROVE  QuotaInv'
<1>1. quota' = q \/ quota' = ConsumeQuota(Refreshed(q), r)
  BY DEF Spend, Continue, Await
<1>2. now \in Nat
  BY DEF TypeOK, SessionTypeOK
<1>3. QED
  BY <1>1, <1>2, QuotaCounted DEF QuotaInv

LEMMA QuotaNext ==
  ASSUME TypeOK, QuotaInv, [Next]_vars
  PROVE  QuotaInv'
<1>0. now \in Nat /\ quota \in Quota
  BY DEF TypeOK, SessionTypeOK
<1>1. ASSUME NEW r \in Requests, Receive(r)
      PROVE  QuotaInv'
  <2> DEFINE q == Refreshed(quota)
  <2>1. q \in Quota
    BY <1>0, QuotaTypes
  <2>2. q.atOnce + q.remaining <= QuotaPerHour
    BY RegistrationAssumption DEF Refreshed, FullQuota, QuotaInv
  <2>3. \/ quota' = q
        \/ q.remaining > 0 /\ \E b \in Bodies : Continue(r, b, q)
    BY <1>1 DEF Receive, Refuse, Await
  <2> HIDE DEF q
  <2>4. QED
    BY <2>1, <2>2, <2>3, SpendQuota DEF QuotaInv
<1>2. ASSUME NEW r \in Requests, ReadLineage(r) \/ ReadInput(r)
      PROVE  QuotaInv'
  <2>1. quota' = quota \/ Continue(r, req[r], quota) \/ Spend(r, req[r], quota)
    BY <1>2 DEF ReadLineage, ReadInput, Refuse
  <2>2. ~ At(r, "idle")
    BY <1>2 DEF ReadLineage, ReadInput, At
  <2>3. QED
    BY <1>0, <2>1, <2>2, SpendQuota DEF QuotaInv
<1>3. ASSUME NEW r \in Requests, Sign(r) \/ StoreEvent(r)
      PROVE  QuotaInv'
  BY <1>3 DEF Sign, StoreEvent, QuotaInv
<1>4. CASE \E s \in RecordingSessions : OpenRecording(s) \/ CloseRecording(s)
  BY <1>4 DEF OpenRecording, CloseRecording, SaveRecordings, QuotaInv
<1>5. CASE Restart
  BY <1>5, RegistrationAssumption DEF Restart, FullQuota, QuotaInv
<1>6. CASE UNCHANGED registrationVars
  BY <1>6 DEF registrationVars, QuotaInv
<1>7. QED
  BY <1>1, <1>2, <1>3, <1>4, <1>5, <1>6 DEF Next, Handle, IdentityRoutes, vars

\* Requests whose checks run without an await never exceed the quota, whatever
\* the requests that do await have used up, for every quota and window.
THEOREM QuotaHolds == Spec => []QuotaHoldsWithoutAwait
<1>1. Init => QuotaInv
  BY RegistrationAssumption DEF Init, FullQuota, QuotaInv
<1>2. TypeOK /\ QuotaInv /\ [Next]_vars => QuotaInv'
  BY QuotaNext
<1>3. TypeOK /\ QuotaInv => QuotaHoldsWithoutAwait
  BY RegistrationAssumption DEF TypeOK, Quota, QuotaInv, QuotaHoldsWithoutAwait
<1>4. QED
  BY <1>1, <1>2, <1>3, TypesHold, PTL DEF Spec
=============================================================================
