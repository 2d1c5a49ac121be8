---------------------------- MODULE ClientProofs ----------------------------
(***************************************************************************)
(* The clients of the API server, for every number of sessions and of      *)
(* requests, whatever is lost, delayed, retried or killed: a session that  *)
(* the wallet shows as ended has ended, the stored halves of a key pair    *)
(* belong together, and the recorder page records only for a session the   *)
(* wallet has authorized.                                                  *)
(***************************************************************************)
EXTENDS RecorderFlow, WalletFlow, WalletKeys, SessionProofs, WellFoundedInduction,
        SequenceTheorems

-----------------------------------------------------------------------------
(* The list of the wallet *)

LEMMA LeastOf ==
  ASSUME NEW S \in SUBSET Nat, S # {}
  PROVE  Min(S) \in S
<1> DEFINE R == {ss \in Nat \X Nat : ss[1] < ss[2]}
<1>1. R = OpToRel(<, Nat)
  BY DEF OpToRel
<1>2. IsWellFoundedOn(R, Nat)
  BY <1>1, NatLessThanWellFounded, Zenon
<1> HIDE DEF R
<1>3. PICK x \in S : \A y \in S : ~ (<<y, x>> \in R)
  BY <1>2, WFMin
<1>4. ASSUME NEW y \in S
      PROVE  x <= y
  <2>1. x \in Nat /\ y \in Nat
    OBVIOUS
  <2>2. y < x => <<y, x>> \in R
    BY <2>1 DEF R
  <2>3. QED
    BY <1>3, <2>1, <2>2
<1>5. QED
  BY <1>4 DEF Min

\* Codes after which the wallet takes a session for ended.
EndCodes == {"ok", "already_canceled", "not_found"}

RequestsTyped == requests \subseteq [op : {"redeem", "cancel"}, session_id : Sessions, stray : BOOLEAN]
ListEntry == [session_id : Sessions, status : {"AUTHORIZED", "CANCELED"}]
ListTyped == sessions \in Seq(ListEntry)

\* What is named anywhere has been issued.
NamesIssued ==
  /\ screen \in issued \cup {Null}
  /\ \A r \in requests : r.session_id \in issued
  /\ \A a \in answers : a.session_id \in issued
  /\ \A i \in DOMAIN sessions : sessions[i].session_id \in issued

\* What is shown as ended, or is about to be, can authorize nothing any more.
EndedSpent ==
  /\ \A a \in answers : a.op = "cancel" /\ a.code \in EndCodes => Spent(a.session_id)
  /\ \A i \in DOMAIN sessions :
       sessions[i].status = "CANCELED" => Spent(sessions[i].session_id)

WalletInv == RequestsTyped /\ ListTyped /\ NamesIssued /\ EndedSpent

\* The list of the wallet with an entry updated.
LEMMA UpdatedList ==
  ASSUME ListTyped, NEW s \in Sessions
  PROVE  /\ Updated(s, "CANCELED") \in Seq(ListEntry)
         /\ DOMAIN Updated(s, "CANCELED") = DOMAIN sessions
         /\ \A i \in DOMAIN sessions :
              /\ Updated(s, "CANCELED")[i].session_id = sessions[i].session_id
              /\ Updated(s, "CANCELED")[i].status = "CANCELED" =>
                   sessions[i].status = "CANCELED" \/ sessions[i].session_id = s
<1> DEFINE list == Updated(s, "CANCELED")
<1>1. /\ DOMAIN sessions = 1 .. Len(sessions) /\ Len(sessions) \in Nat
      /\ \A i \in DOMAIN sessions : sessions[i] \in ListEntry
  BY DEF ListTyped
<1>2. ASSUME NEW e \in ListEntry
      PROVE  /\ [e EXCEPT !.status = "CANCELED"] \in ListEntry
             /\ [e EXCEPT !.status = "CANCELED"].session_id = e.session_id
  BY DEF ListEntry
<1>3. list = [i \in DOMAIN sessions |->
                IF sessions[i].session_id = s THEN [sessions[i] EXCEPT !.status = "CANCELED"]
                                              ELSE sessions[i]]
  BY DEF Updated
<1> HIDE DEF list
<1>4. DOMAIN list = DOMAIN sessions
  BY <1>3
<1>5. \A i \in DOMAIN sessions : list[i] \in ListEntry /\ list[i].session_id = sessions[i].session_id
  BY <1>1, <1>2, <1>3
<1>6. \A i \in DOMAIN sessions :
        list[i].status = "CANCELED" => sessions[i].status = "CANCELED" \/ sessions[i].session_id = s
  BY <1>3
<1>7. list \in [1 .. Len(sessions) -> ListEntry]
  BY <1>1, <1>3, <1>5
<1>8. list \in Seq(ListEntry)
  BY <1>1, <1>7, IsASeq
<1>9. QED
  BY <1>4, <1>5, <1>6, <1>8 DEF list

\* The session that the dashboard ends is one of the list.
LEMMA ActiveListed ==
  ASSUME ListTyped, ActiveSession # Null
  PROVE  \E i \in DOMAIN sessions : ActiveSession = sessions[i].session_id
<1> DEFINE open == {i \in DOMAIN sessions : sessions[i].status = "AUTHORIZED"}
<1>1. open \in SUBSET Nat
  BY DEF ListTyped
<1>2. open # {} /\ ActiveSession = sessions[Min(open)].session_id
  BY DEF ActiveSession
<1>3. Min(open) \in open
  BY <1>1, <1>2, LeastOf
<1>4. QED
  BY <1>2, <1>3

\* The sessions of the server move on; what is issued stays issued, and what
\* is spent stays spent.
LEMMA ServerMoves ==
  ASSUME WalletInv, SessionTypeOK, StoreKept, issued \subseteq issued', UNCHANGED walletVars
  PROVE  WalletInv'
<1>1. \A s \in Sessions : Spent(s) => Spent(s)'
  BY DEF StoreKept
<1>2. issued \subseteq Sessions
  BY DEF SessionTypeOK
<1>3. RequestsTyped' /\ ListTyped' /\ NamesIssued'
  BY DEF WalletInv, walletVars, RequestsTyped, ListTyped, NamesIssued
<1>4. EndedSpent'
  BY <1>1, <1>2 DEF WalletInv, walletVars, NamesIssued, EndedSpent
<1>5. QED
  BY <1>3, <1>4 DEF WalletInv

\* A request is sent for a session that has been issued.
LEMMA RequestSent ==
  ASSUME WalletInv, SessionTypeOK, NEW op \in {"redeem", "cancel"}, NEW s \in issued,
         requests' = requests \cup {Request(op, s, FALSE)},
         UNCHANGED <<sessionVars, screen, answers, sessions>>
  PROVE  WalletInv'
<1>1. s \in Sessions
  BY DEF SessionTypeOK
<1>2. RequestsTyped'
  <2>1. Request(op, s, FALSE) \in [op : {"redeem", "cancel"}, session_id : Sessions, stray : BOOLEAN]
    BY <1>1 DEF Request
  <2>2. QED
    BY <2>1 DEF WalletInv, RequestsTyped
<1>3. ListTyped'
  BY DEF WalletInv, ListTyped
<1>4. NamesIssued'
  BY DEF WalletInv, NamesIssued, Request, sessionVars
<1>5. EndedSpent'
  BY DEF WalletInv, EndedSpent, Spent, HasStatus, Known, sessionVars, memory
<1>6. QED
  BY <1>2, <1>3, <1>4, <1>5 DEF WalletInv

\* Requests and answers are given up, screens are left, and nothing is listed.
LEMMA WalletLosesTrack ==
  ASSUME WalletInv, screen' \in {screen, Null}, answers' \subseteq answers,
         UNCHANGED <<sessionVars, sessions>>,
         requests' \subseteq requests \cup {[r EXCEPT !.stray = TRUE] : r \in requests}
  PROVE  WalletInv'
<1>1. \A r \in requests : /\ [r EXCEPT !.stray = TRUE].session_id = r.session_id
                          /\ [r EXCEPT !.stray = TRUE]
                               \in [op : {"redeem", "cancel"}, session_id : Sessions, stray : BOOLEAN]
  BY DEF WalletInv, RequestsTyped
<1>2. RequestsTyped'
  BY <1>1 DEF WalletInv, RequestsTyped
<1>3. ListTyped'
  BY DEF WalletInv, ListTyped
<1>4. NamesIssued'
  BY <1>1 DEF WalletInv, NamesIssued, sessionVars
<1>5. EndedSpent'
  BY DEF WalletInv, EndedSpent, Spent, HasStatus, Known, sessionVars, memory
<1>6. QED
  BY <1>2, <1>3, <1>4, <1>5 DEF WalletInv

\* The list is rewritten: with entries of issued sessions, and as ended what
\* is spent.
LEMMA ListRewritten ==
  ASSUME WalletInv, ListTyped', screen' \in {screen, Null}, answers' \subseteq answers,
         UNCHANGED <<sessionVars, requests>>,
         \A i \in DOMAIN sessions' :
           /\ sessions'[i].session_id \in issued
           /\ sessions'[i].status = "CANCELED" => Spent(sessions'[i].session_id)
  PROVE  WalletInv'
<1>1. RequestsTyped'
  BY DEF WalletInv, RequestsTyped
<1>2. NamesIssued'
  BY DEF WalletInv, NamesIssued, sessionVars
<1>3. EndedSpent'
  BY DEF WalletInv, EndedSpent, Spent, HasStatus, Known, sessionVars, memory
<1>4. QED
  BY <1>1, <1>2, <1>3 DEF WalletInv

LEMMA AnswersRead ==
  ASSUME WalletInv, SessionTypeOK, UNCHANGED sessionVars, NEW a \in answers,
         RedeemAnswered(a) \/ RedeemGarbled(a) \/ EndAnswered(a)
  PROVE  WalletInv'
<1>1. /\ a.session_id \in issued /\ a.session_id \in Sessions
      /\ screen' \in {screen, Null} /\ answers' \subseteq answers /\ UNCHANGED requests
  BY DEF RedeemAnswered, RedeemGarbled, EndAnswered, WalletInv, NamesIssued, SessionTypeOK
<1>2. ListTyped /\ sessions \in Seq(ListEntry)
  BY DEF WalletInv, ListTyped
<1>3. CASE sessions' = sessions
  BY <1>1, <1>3, ListRewritten DEF WalletInv, ListTyped, NamesIssued, EndedSpent
<1>4. CASE sessions' = <<[session_id |-> a.session_id, status |-> "AUTHORIZED"]>> \o sessions
  <2> DEFINE e == [session_id |-> a.session_id, status |-> "AUTHORIZED"]
  <2>1. e \in ListEntry /\ <<e>> \in Seq(ListEntry)
    BY <1>1 DEF ListEntry
  <2> HIDE DEF e
  <2>2. /\ sessions' \in Seq(ListEntry)
        /\ \A i \in DOMAIN sessions' : sessions'[i] = e \/ \E j \in DOMAIN sessions : sessions'[i] = sessions[j]
    <3>1. sessions' = <<e>> \o sessions
      BY <1>4 DEF e
    <3>2. /\ sessions' \in Seq(ListEntry) /\ Len(sessions') = 1 + Len(sessions)
          /\ \A i \in 1 .. 1 + Len(sessions) :
               sessions'[i] = IF i <= 1 THEN <<e>>[i] ELSE sessions[i - 1]
      BY <1>2, <2>1, <3>1, ConcatProperties, Len(<<e>>) = 1
    <3>3. DOMAIN sessions = 1 .. Len(sessions) /\ DOMAIN sessions' = 1 .. 1 + Len(sessions) /\ Len(sessions) \in Nat
      BY <1>2, <3>2
    <3>4. QED
      BY <3>2, <3>3
  <2>3. e.session_id = a.session_id /\ e.status = "AUTHORIZED"
    BY DEF e
  <2>4. \A i \in DOMAIN sessions' :
          /\ sessions'[i].session_id \in issued
          /\ sessions'[i].status = "CANCELED" => Spent(sessions'[i].session_id)
    BY <1>1, <2>2, <2>3 DEF WalletInv, NamesIssued, EndedSpent
  <2>5. QED
    BY <1>1, <2>2, <2>4, ListRewritten DEF ListTyped
<1>5. CASE /\ a.op = "cancel" /\ a.code \in EndCodes
           /\ sessions' = Updated(a.session_id, "CANCELED")
  <2>1. Spent(a.session_id)
    BY <1>5 DEF WalletInv, EndedSpent
  <2>2. \A i \in DOMAIN sessions' :
          /\ sessions'[i].session_id \in issued
          /\ sessions'[i].status = "CANCELED" => Spent(sessions'[i].session_id)
    BY <1>1, <1>2, <1>5, <2>1, UpdatedList DEF WalletInv, NamesIssued, EndedSpent
  <2>3. ListTyped'
    BY <1>1, <1>2, <1>5, UpdatedList DEF ListTyped
  <2>4. QED
    BY <1>1, <2>2, <2>3, ListRewritten
<1>6. QED
  BY <1>3, <1>4, <1>5 DEF RedeemAnswered, RedeemGarbled, EndAnswered, EndCodes

LEMMA ScreensKeep ==
  ASSUME WalletInv, SessionTypeOK, (Screens \/ KillWallet) /\ UNCHANGED sessionVars
  PROVE  WalletInv'
<1>1. ASSUME NEW s \in issued, Scan(s)
      PROVE  WalletInv'
  <2>1. RequestsTyped' /\ ListTyped'
    BY <1>1 DEF Scan, WalletInv, RequestsTyped, ListTyped
  <2>2. NamesIssued'
    BY <1>1 DEF Scan, WalletInv, NamesIssued, sessionVars
  <2>3. EndedSpent'
    BY <1>1 DEF Scan, WalletInv, EndedSpent, Spent, HasStatus, Known, sessionVars, memory
  <2>4. QED
    BY <2>1, <2>2, <2>3 DEF WalletInv
<1>2. CASE LeaveScreen
  BY <1>2, WalletLosesTrack DEF LeaveScreen
<1>3. CASE Approve
  <2>1. screen \in issued
    BY <1>3 DEF Approve, WalletInv, NamesIssued
  <2>2. QED
    BY <1>3, <2>1, RequestSent DEF Approve
<1>4. CASE EndSession
  <2>1. ActiveSession \in issued
    BY <1>4, ActiveListed DEF EndSession, WalletInv, NamesIssued
  <2>2. QED
    BY <1>4, <2>1, RequestSent DEF EndSession
<1>5. CASE RedeemFails \/ EndFails
  <2>1. \A op : StraysOf(op) \subseteq requests \cup {[r EXCEPT !.stray = TRUE] : r \in requests}
    BY DEF StraysOf
  <2>2. \A op : WithoutAnswers(op) \subseteq answers
    BY DEF WithoutAnswers
  <2>3. QED
    BY <1>5, <2>1, <2>2, WalletLosesTrack DEF RedeemFails, EndFails
<1>6. CASE KillWallet
  BY <1>6, WalletLosesTrack DEF KillWallet
<1>7. CASE ClearHistory
  BY <1>7, ListRewritten DEF ClearHistory, ListTyped
<1>8. CASE \E a \in answers : RedeemAnswered(a) \/ RedeemGarbled(a) \/ EndAnswered(a)
  BY <1>8, AnswersRead
<1>9. QED
  BY <1>1, <1>2, <1>3, <1>4, <1>5, <1>6, <1>7, <1>8 DEF Screens

\* The server answers a request.
LEMMA HandledKeeps ==
  ASSUME WalletInv, SessionTypeOK, StoreKept, issued \subseteq issued', NEW r \in requests,
         NEW code, Handled(r, code),
         r.op = "cancel" /\ code \in EndCodes => Spent(r.session_id)'
  PROVE  WalletInv'
<1>1. /\ \A s \in Sessions : Spent(s) => Spent(s)'
      /\ issued \subseteq Sessions
  BY DEF StoreKept, SessionTypeOK
<1>2. /\ requests' \subseteq requests /\ UNCHANGED <<screen, sessions>>
      /\ answers' \subseteq answers \cup {Answer(r.op, r.session_id, code)}
  BY DEF Handled
<1>3. RequestsTyped' /\ ListTyped'
  BY <1>2 DEF WalletInv, RequestsTyped, ListTyped
<1>4. NamesIssued'
  BY <1>2 DEF WalletInv, NamesIssued, Answer
<1>5. EndedSpent'
  <2>1. ASSUME NEW a \in answers', a.op = "cancel", a.code \in EndCodes
        PROVE  Spent(a.session_id)'
    <3>1. CASE a \in answers
      BY <1>1, <2>1, <3>1 DEF WalletInv, NamesIssued, EndedSpent
    <3>2. CASE a = Answer(r.op, r.session_id, code)
      <4>1. a.op = r.op /\ a.session_id = r.session_id /\ a.code = code
        BY <3>2 DEF Answer
      <4>2. QED
        BY <2>1, <4>1
    <3>3. QED
      BY <1>2, <3>1, <3>2
  <2>2. ASSUME NEW i \in DOMAIN sessions', sessions'[i].status = "CANCELED"
        PROVE  Spent(sessions[i].session_id)'
    BY <1>1, <1>2, <2>2 DEF WalletInv, NamesIssued, EndedSpent
  <2>3. QED
    BY <2>1, <2>2 DEF EndedSpent
<1>6. QED
  BY <1>3, <1>4, <1>5 DEF WalletInv

LEMMA RequestHandled ==
  ASSUME WalletInv, SessionInv, NEW r \in requests, HandleRedeem(r) \/ HandleCancel(r)
  PROVE  SessionInv' /\ WalletInv'
<1>1. r.session_id \in Sessions /\ r.session_id \in issued /\ SessionTypeOK /\ StoreInv
  BY DEF WalletInv, NamesIssued, SessionInv, SessionTypeOK
<1>2. CASE /\ UNCHANGED sessionVars /\ \E code : Handled(r, code)
           /\ r.op = "cancel" => ~ HasStatus(r.session_id, {"PENDING", "AUTHORIZED"})
  <2>1. StoreKept /\ SessionInv' /\ issued' = issued
    BY <1>1, <1>2, UnchangedKept, SessionInvKept DEF sessionVars, memory
  <2>2. r.op = "cancel" => Spent(r.session_id)'
    BY <1>1, <1>2 DEF Spent, HasStatus, Known, sessionVars, memory
  <2>3. QED
    BY <1>1, <1>2, <2>1, <2>2, HandledKeeps
<1>3. CASE HandleRedeem(r) /\ Redeem(r.session_id)
  <2>1. StoreKept /\ SessionInv' /\ issued' = issued
    BY <1>1, <1>3, RedeemKept, SessionInvKept DEF SessionStep, Redeem
  <2>2. r.op = "redeem" /\ \E code : Handled(r, code)
    BY <1>3 DEF HandleRedeem
  <2>3. QED
    BY <1>1, <2>1, <2>2, HandledKeeps
<1>4. CASE HandleCancel(r) /\ Cancel(r.session_id) /\ Handled(r, "ok")
  <2>1. StoreKept /\ SessionInv' /\ issued' = issued
    BY <1>1, <1>4, CancelKept, SessionInvKept DEF SessionStep, Cancel
  <2>2. Spent(r.session_id)'
    BY <1>1, <1>4, StatusKept DEF Cancel, HasStatus, Statuses
  <2>3. QED
    BY <1>1, <1>4, <2>1, <2>2, HandledKeeps
<1>5. QED
  BY <1>2, <1>3, <1>4 DEF HandleRedeem, HandleCancel

LEMMA OthersKeep ==
  ASSUME WalletInv, SessionInv, Others, UNCHANGED walletVars
  PROVE  SessionInv' /\ WalletInv'
<1>1. SessionStep
  BY DEF Others, SessionStep, Authorize, Authorizes
<1>2. SessionInv' /\ StoreKept
  BY <1>1, SessionInvKept, StepKept DEF SessionInv
<1>3. issued \subseteq issued'
  BY DEF Others, Issue, Authorize, Consume, RefuseSession, Reload, Tick
<1>4. QED
  BY <1>2, <1>3, ServerMoves DEF SessionInv

\* A session that the wallet shows as ended can authorize nothing any more,
\* whatever was lost, delayed, retried or killed, on the phone and on the
\* server: an answer that lets the wallet show it is given only for a session
\* that has ended or that the server has forgotten, and neither comes back.
THEOREM EndedIsEnded == WalletSpec => []EndedMeansEnded
<1>1. SessionInit /\ WalletInit => SessionInv /\ WalletInv
  <2>1. WalletInit => WalletInv
    BY DEF WalletInit, WalletInv, RequestsTyped, ListTyped, NamesIssued, EndedSpent
  <2>2. QED
    BY <2>1, SessionInvAtInit
<1>2. SessionInv /\ WalletInv /\ [WalletNext]_<<sessionVars, walletVars>>
        => (SessionInv /\ WalletInv)'
  <2>1. SessionInv => SessionTypeOK /\ StoreInv
    BY DEF SessionInv
  <2>2. ASSUME SessionInv, WalletInv, (Screens \/ KillWallet) /\ UNCHANGED sessionVars
        PROVE  (SessionInv /\ WalletInv)'
    BY <2>1, <2>2, ScreensKeep, SessionInvKept
  <2>3. ASSUME SessionInv, WalletInv, UNCHANGED <<sessionVars, walletVars>>
        PROVE  (SessionInv /\ WalletInv)'
    <3>1. StoreKept /\ SessionInv' /\ issued' = issued
      BY <2>1, <2>3, UnchangedKept, SessionInvKept DEF sessionVars, memory
    <3>2. QED
      BY <2>1, <2>3, <3>1, ServerMoves
  <2>4. QED
    BY <2>2, <2>3, RequestHandled, OthersKeep DEF WalletNext
<1>3. WalletInv => EndedMeansEnded
  BY DEF WalletInv, EndedSpent, Spent, EndedMeansEnded
<1>4. QED
  BY <1>1, <1>2, <1>3, PTL DEF WalletSpec

-----------------------------------------------------------------------------
(* The key pair of the wallet *)

KeyTask == [at : Places, key : Nat \cup {NoKey}, named : Nat \cup {NoKey}]

KeysTyped ==
  /\ keys \in Nat /\ publicKey \in Nat \cup {NoKey}
  /\ tasks \in [Callers -> KeyTask]

\* Only one caller is under way, and the one that writes the secret half will
\* write the public half next: until then there is none.
PairInv ==
  /\ \E t \in Callers : tasks[t].at = "idle"
  /\ publicKey = NoKey \/ secretKey = NoKey \/ publicKey = secretKey
  /\ \A t \in Callers :
       /\ tasks[t].at \in {"storeSecret", "storePublic"} => publicKey = NoKey
       /\ tasks[t].at = "storePublic" => secretKey \in {NoKey, tasks[t].key}

KeyInv == KeysTyped /\ (overlapped \/ PairInv)

\* What a caller goes on with once it has the key neither writes nor holds a
\* secret half.
LEMMA HavingTyped ==
  ASSUME KeysTyped, NEW t \in Callers, NEW key \in Nat \cup {NoKey}
  PROVE  Having(t, key) \in KeyTask /\ Having(t, key).at \in {"idle", "readPublic", "sign"}
<1>1. tasks[t] \in KeyTask
  BY DEF KeysTyped
<1>2. [tasks[t] EXCEPT !.at = "sign"] \in KeyTask /\ [tasks[t] EXCEPT !.at = "sign"].at = "sign"
  BY <1>1 DEF KeyTask, Places
<1>3. Idle \in KeyTask /\ Idle.at = "idle"
  BY DEF Idle, KeyTask, Places
<1>4. /\ [at |-> "readPublic", key |-> NoKey, named |-> key] \in KeyTask
      /\ [at |-> "readPublic", key |-> NoKey, named |-> key].at = "readPublic"
  BY DEF KeyTask, Places
<1>5. QED
  BY <1>2, <1>3, <1>4 DEF Having

LEMMA GeneratedTyped ==
  ASSUME KeysTyped, NEW t \in Callers
  PROVE  Generated(t) \in KeyTask /\ Generated(t).at = "storeSecret"
<1>1. tasks[t] \in KeyTask /\ keys + 1 \in Nat
  BY DEF KeysTyped
<1>2. QED
  BY <1>1 DEF Generated, KeyTask, Places

\* A caller moves; the two have overlapped if the other is under way.
LEMMA Moved ==
  ASSUME KeysTyped, NEW t \in Callers, NEW task \in KeyTask, Move(t, task)
  PROVE  /\ tasks' \in [Callers -> KeyTask] /\ tasks'[t] = task
         /\ \A u \in Callers \ {t} : tasks'[u] = tasks[u]
         /\ overlapped' \/ (~ overlapped /\ \E u \in Callers : tasks'[u].at = "idle")
<1>1. tasks' = [tasks EXCEPT ![t] = task]
  BY DEF Move
<1>2. ~ overlapped' => ~ overlapped /\ \E u \in Callers : tasks'[u].at = "idle"
  BY Zenon DEF Move, Overlapping
<1>3. QED
  BY <1>1, <1>2 DEF KeysTyped

\* The moves that leave the halves alone, and do not begin to write them.
LEMMA QuietMove ==
  ASSUME KeyInv, NEW t \in Callers, NEW task \in KeyTask, Move(t, task),
         task.at \notin {"storeSecret", "storePublic"},
         UNCHANGED <<publicKey, secretKey>>, keys' \in Nat
  PROVE  KeyInv'
<1>1. /\ tasks' \in [Callers -> KeyTask] /\ tasks'[t] = task
      /\ \A u \in Callers \ {t} : tasks'[u] = tasks[u]
      /\ overlapped' \/ (~ overlapped /\ \E u \in Callers : tasks'[u].at = "idle")
  BY Moved DEF KeyInv
<1>2. KeysTyped'
  BY <1>1 DEF KeyInv, KeysTyped
<1>3. overlapped' \/ PairInv'
  BY <1>1 DEF KeyInv, PairInv
<1>4. QED
  BY <1>2, <1>3 DEF KeyInv

\* A pair is generated while no public half is stored.
LEMMA GeneratedMove ==
  ASSUME KeyInv, NEW t \in Callers, Move(t, Generated(t)), tasks[t].at # "idle",
         publicKey' = NoKey, secretKey' = secretKey, keys' \in Nat
  PROVE  KeyInv'
<1>1. Generated(t) \in KeyTask /\ Generated(t).at = "storeSecret"
  BY GeneratedTyped DEF KeyInv
<1>2. /\ tasks' \in [Callers -> KeyTask] /\ tasks'[t] = Generated(t)
      /\ \A u \in Callers \ {t} : tasks'[u] = tasks[u]
      /\ overlapped' \/ (~ overlapped /\ \E u \in Callers : tasks'[u].at = "idle")
  BY <1>1, Moved DEF KeyInv
<1>3. KeysTyped'
  BY <1>2 DEF KeyInv, KeysTyped
<1>4. overlapped' \/ PairInv'
  BY <1>1, <1>2 DEF KeyInv, PairInv
<1>5. QED
  BY <1>3, <1>4 DEF KeyInv

LEMMA KeysNext ==
  ASSUME KeyInv, [KeyNext]_keyVars
  PROVE  KeyInv'
<1>0. KeysTyped /\ \A t \in Callers : tasks[t] \in KeyTask
  BY DEF KeyInv, KeysTyped
<1>1. ASSUME NEW t \in Callers, Begin(t)
      PROVE  KeyInv'
  <2>1. /\ [Idle EXCEPT !.at = "readPublic"] \in KeyTask
        /\ [Idle EXCEPT !.at = "readPublic"].at = "readPublic"
    BY DEF Idle, KeyTask, Places
  <2>2. QED
    BY <1>0, <1>1, <2>1, QuietMove DEF Begin, KeysTyped
<1>2. ASSUME NEW t \in Callers, ReadPublic(t)
      PROVE  KeyInv'
  <2>1. CASE publicKey = NoKey /\ keys' = keys + 1 /\ Move(t, Generated(t))
    BY <1>0, <1>2, <2>1, GeneratedMove DEF ReadPublic, KeysTyped
  <2>2. CASE Move(t, [tasks[t] EXCEPT !.at = "readSecret", !.key = publicKey]) /\ UNCHANGED keys
    <3>1. /\ [tasks[t] EXCEPT !.at = "readSecret", !.key = publicKey] \in KeyTask
          /\ [tasks[t] EXCEPT !.at = "readSecret", !.key = publicKey].at = "readSecret"
      BY <1>0 DEF KeyTask, Places, KeysTyped
    <3>2. QED
      BY <1>0, <1>2, <2>2, <3>1, QuietMove DEF ReadPublic, KeysTyped
  <2>3. QED
    BY <1>2, <2>1, <2>2 DEF ReadPublic
<1>3. ASSUME NEW t \in Callers, ReadSecret(t)
      PROVE  KeyInv'
  <2>1. /\ [tasks[t] EXCEPT !.at = "deletePublic"] \in KeyTask
        /\ [tasks[t] EXCEPT !.at = "deletePublic"].at = "deletePublic"
    BY <1>0 DEF KeyTask, Places
  <2>2. tasks[t].key \in Nat \cup {NoKey}
    BY <1>0 DEF KeyTask
  <2>3. \E task \in KeyTask : Move(t, task) /\ task.at \notin {"storeSecret", "storePublic"}
    BY <1>0, <1>3, <2>1, <2>2, HavingTyped DEF ReadSecret
  <2>4. QED
    BY <1>0, <1>3, <2>3, QuietMove DEF ReadSecret, KeysTyped
<1>4. ASSUME NEW t \in Callers, DeletePublic(t)
      PROVE  KeyInv'
  BY <1>0, <1>4, GeneratedMove DEF DeletePublic, KeysTyped
<1>5. ASSUME NEW t \in Callers, StoreSecret(t)
      PROVE  KeyInv'
  <2> DEFINE task == [tasks[t] EXCEPT !.at = "storePublic"]
  <2>1. task \in KeyTask /\ task.at = "storePublic" /\ task.key = tasks[t].key
    BY <1>0 DEF KeyTask, Places
  <2>2. /\ Move(t, task) /\ tasks[t].at = "storeSecret" /\ secretKey' = tasks[t].key
        /\ UNCHANGED <<publicKey, keys>>
    BY <1>5 DEF StoreSecret
  <2> HIDE DEF task
  <2>3. /\ tasks' \in [Callers -> KeyTask] /\ tasks'[t] = task
        /\ \A u \in Callers \ {t} : tasks'[u] = tasks[u]
        /\ overlapped' \/ (~ overlapped /\ \E u \in Callers : tasks'[u].at = "idle")
    BY <1>0, <2>1, <2>2, Moved
  <2>4. KeysTyped'
    BY <1>0, <2>2, <2>3 DEF KeysTyped
  <2>5. overlapped \/ \A u \in Callers \ {t} : tasks[u].at = "idle"
    BY <2>2 DEF KeyInv, PairInv, Callers
  <2>6. overlapped' \/ PairInv'
    BY <2>1, <2>2, <2>3, <2>5 DEF KeyInv, PairInv
  <2>7. QED
    BY <2>4, <2>6 DEF KeyInv
<1>6. ASSUME NEW t \in Callers, StorePublic(t)
      PROVE  KeyInv'
  <2> DEFINE task == Having(t, tasks[t].key)
  <2>1. tasks[t].key \in Nat \cup {NoKey}
    BY <1>0 DEF KeyTask
  <2>2. task \in KeyTask /\ task.at \in {"idle", "readPublic", "sign"}
    BY <1>0, <2>1, HavingTyped
  <2>3. /\ Move(t, task) /\ tasks[t].at = "storePublic" /\ publicKey' = tasks[t].key
        /\ UNCHANGED <<secretKey, keys>>
    BY <1>6 DEF StorePublic
  <2> HIDE DEF task
  <2>4. /\ tasks' \in [Callers -> KeyTask] /\ tasks'[t] = task
        /\ \A u \in Callers \ {t} : tasks'[u] = tasks[u]
        /\ overlapped' \/ (~ overlapped /\ \E u \in Callers : tasks'[u].at = "idle")
    BY <1>0, <2>2, <2>3, Moved
  <2>5. KeysTyped'
    BY <1>0, <2>1, <2>3, <2>4 DEF KeysTyped
  <2>6. overlapped \/ \A u \in Callers \ {t} : tasks[u].at = "idle"
    BY <2>3 DEF KeyInv, PairInv, Callers
  <2>7. overlapped' \/ PairInv'
    BY <2>2, <2>3, <2>4, <2>6 DEF KeyInv, PairInv
  <2>8. QED
    BY <2>5, <2>7 DEF KeyInv
<1>7. ASSUME NEW t \in Callers, SignDigest(t)
      PROVE  KeyInv'
  <2>1. Idle \in KeyTask /\ Idle.at = "idle"
    BY DEF Idle, KeyTask, Places
  <2>2. QED
    BY <1>0, <1>7, <2>1, QuietMove DEF SignDigest, KeysTyped
<1>8. CASE KillApp
  <2>1. Idle \in KeyTask /\ Idle.at = "idle"
    BY DEF Idle, KeyTask, Places
  <2>2. KeysTyped' /\ \A t \in Callers : tasks'[t].at = "idle"
    BY <1>0, <1>8, <2>1 DEF KillApp, KeysTyped
  <2>3. overlapped' \/ PairInv'
    BY <1>8, <2>2 DEF KillApp, KeyInv, PairInv, Callers
  <2>4. QED
    BY <2>2, <2>3 DEF KeyInv
<1>9. CASE SecretInvalidated
  BY <1>9 DEF SecretInvalidated, KeyInv, KeysTyped, PairInv
<1>10. CASE UNCHANGED keyVars
  BY <1>10 DEF keyVars, KeyInv, KeysTyped, PairInv
<1>11. QED
  BY <1>1, <1>2, <1>3, <1>4, <1>5, <1>6, <1>7, <1>8, <1>9, <1>10 DEF KeyNext

\* The stored halves of the key pair belong together, through kills between any
\* two accesses and entries the phone drops, unless the start of the app and a
\* redemption have overlapped.
THEOREM HalvesMatch == KeySpec => []KeysMatch
<1>1. KeyInit => KeyInv
  BY DEF KeyInit, KeyInv, KeysTyped, PairInv, KeyTask, Places, Idle, Callers
<1>2. KeyInv /\ [KeyNext]_keyVars => KeyInv'
  BY KeysNext
<1>3. KeyInv => KeysMatch
  BY DEF KeyInv, PairInv, KeysMatch
<1>4. QED
  BY <1>1, <1>2, <1>3, PTL DEF KeySpec

-----------------------------------------------------------------------------
(* The recorder page *)

TabTyped ==
  /\ starting \in Nat
  /\ response # Null => response.session_id \in Sessions
  /\ challengeState # Null => challengeState.session_id \in Sessions

\* The polls on their way are of the session that is shown.
PollsInv ==
  /\ polls # {} => challengeState # Null
  /\ "AUTHORIZED" \in polls => challengeState.session_id \in authorized

\* While a challenge is on its way to an empty page, nothing runs on it.
LoadingInv ==
  /\ response # Null => loadingChallenge
  /\ loadingChallenge /\ ~ renewed =>
       challengeState = Null /\ starting = 0 /\ recorderState \notin {"ready", "recording"}

Opening == recorderState \in {"ready", "recording"} \/ starting > 0

\* The microphone is open, or about to be, for a session that was authorized.
OpeningInv ==
  ~ renewed /\ challengeState # Null /\ Opening => challengeState.session_id \in authorized

TabInv == TabTyped /\ PollsInv /\ LoadingInv /\ OpeningInv

\* What the server holds as AUTHORIZED has been noted.
NotedInv == \A s \in Sessions : HasStatus(s, {"AUTHORIZED"}) => s \in authorized

\* An effect that is cleaned up forgets its polls.
LEMMA ShowKeepsPolls ==
  ASSUME PollsInv, NEW challenge, NEW session, NEW state, Show(challenge, session, state),
         authorized' = authorized
  PROVE  PollsInv'
<1>1. polls' = {} \/ (polls' = polls /\ challengeState' = challengeState)
  BY DEF Show
<1>2. QED
  BY <1>1 DEF PollsInv

LEMMA TabKeeps ==
  ASSUME TabInv, TabStep, UNCHANGED <<sessionVars, authorized>>
  PROVE  TabInv'
<1> USE DEF TabInv
<1>1. CASE CreateChallenge
  <2>1. PollsInv'
    BY <1>1, ShowKeepsPolls DEF CreateChallenge
  <2>2. /\ challengeState' = challengeState /\ recorderState' = "idle"
        /\ loadingChallenge' /\ UNCHANGED <<response, starting>>
    BY <1>1 DEF CreateChallenge, Show
  <2>3. ~ renewed' => challengeState = Null /\ ~ (starting > 0)
    BY <1>1, Zenon DEF CreateChallenge
  <2>4. ~ renewed' => challengeState = Null /\ starting = 0
    BY <2>3 DEF TabTyped
  <2>5. TabTyped' /\ LoadingInv'
    BY <2>2, <2>4 DEF TabTyped, LoadingInv
  <2>6. OpeningInv'
    BY <2>2, <2>4 DEF OpeningInv
  <2>7. QED
    BY <2>1, <2>5, <2>6
<1>2. CASE ChallengeArrives
  <2>1. PollsInv'
    BY <1>2, ShowKeepsPolls DEF ChallengeArrives
  <2>2. /\ response # Null /\ response' = Null /\ ~ loadingChallenge'
        /\ challengeState' = response
        /\ UNCHANGED <<recorderState, renewed, starting>>
    BY <1>2 DEF ChallengeArrives, Show, mediaVars
  <2>3. QED
    BY <2>1, <2>2 DEF TabTyped, LoadingInv, OpeningInv, Opening
<1>3. CASE CreateFails
  BY <1>3 DEF CreateFails, mediaVars, TabTyped, PollsInv, LoadingInv, OpeningInv, Opening
<1>4. ASSUME NEW status \in Statuses, PollArrives(status)
      PROVE  TabInv'
  <2>1. PollsInv'
    BY <1>4, ShowKeepsPolls DEF PollArrives
  <2>2. /\ challengeState # Null /\ challengeState' = challengeState
        /\ status = "AUTHORIZED" => challengeState.session_id \in authorized
        /\ \/ recorderState' = recorderState
           \/ status = "AUTHORIZED" /\ recorderState' = "ready"
        /\ UNCHANGED <<loadingChallenge, response, renewed, starting>>
    BY <1>4 DEF PollArrives, Show, PollsInv, mediaVars
  <2>3. QED
    BY <2>1, <2>2 DEF TabTyped, LoadingInv, OpeningInv, Opening
<1>5. ASSUME NEW status \in Statuses, PollLost(status)
      PROVE  TabInv'
  BY <1>5 DEF PollLost, mediaVars, TabTyped, PollsInv, LoadingInv, OpeningInv, Opening
<1>6. CASE StartRecording
  BY <1>6 DEF StartRecording, recorderVars, TabTyped, PollsInv, LoadingInv, OpeningInv, Opening
<1>7. CASE MicrophoneOpens
  <2>1. PollsInv'
    BY <1>7, ShowKeepsPolls DEF MicrophoneOpens
  <2>2. /\ starting > 0 /\ starting' = starting - 1 /\ recorderState' = "recording"
        /\ UNCHANGED <<challengeState, loadingChallenge, response, renewed>>
    BY <1>7 DEF MicrophoneOpens, Show
  <2>3. QED
    BY <2>1, <2>2 DEF TabTyped, LoadingInv, OpeningInv, Opening
<1>8. CASE MicrophoneDenied
  <2>1. starting > 0 /\ starting' = starting - 1 /\ UNCHANGED recorderVars
    BY <1>8 DEF MicrophoneDenied
  <2>2. QED
    BY <2>1 DEF recorderVars, TabTyped, PollsInv, LoadingInv, OpeningInv, Opening
<1>9. CASE StopRecording
  BY <1>9 DEF StopRecording, recorderVars, TabTyped, PollsInv, LoadingInv, OpeningInv, Opening
<1>10. CASE OnStop
  <2>1. PollsInv'
    BY <1>10, ShowKeepsPolls DEF OnStop
  <2>2. /\ recorderState' = "finished"
        /\ UNCHANGED <<challengeState, loadingChallenge, response, renewed, starting>>
    BY <1>10 DEF OnStop, Show
  <2>3. QED
    BY <2>1, <2>2 DEF TabTyped, LoadingInv, OpeningInv, Opening
<1>11. CASE Reset
  <2>1. PollsInv'
    BY <1>11, ShowKeepsPolls DEF Reset
  <2>2. /\ challengeState' = Null /\ recorderState' = "idle"
        /\ UNCHANGED <<loadingChallenge, response, starting>>
    BY <1>11 DEF Reset, Show
  <2>3. ~ renewed' => ~ loadingChallenge \/ ~ (starting > 0)
    BY <1>11, Zenon DEF Reset
  <2>4. ~ renewed' => ~ loadingChallenge \/ starting = 0
    BY <2>3 DEF TabTyped
  <2>5. TabTyped' /\ LoadingInv'
    BY <2>2, <2>4 DEF TabTyped, LoadingInv
  <2>6. OpeningInv'
    BY <2>2 DEF OpeningInv
  <2>7. QED
    BY <2>1, <2>5, <2>6
<1>12. QED
  BY <1>1, <1>2, <1>3, <1>4, <1>5, <1>6, <1>7, <1>8, <1>9, <1>10, <1>11 DEF TabStep

\* The server moves on and what it has authorized is noted; the page has at
\* most a challenge more on its way.
LEMMA ServerNoted ==
  ASSUME TabInv, Noted, \/ UNCHANGED tabVars
                        \/ \E s \in Sessions : HandleCreate(s)
  PROVE  TabInv' /\ NotedInv'
<1>1. NotedInv'
  BY DEF NotedInv, Noted, HasStatus, Known
<1>2. authorized \subseteq authorized'
  BY DEF Noted
<1>3. /\ UNCHANGED <<challengeState, recorderState, loadingChallenge, polls, renewed, starting>>
      /\ response' = response \/ (loadingChallenge /\ response'.session_id \in Sessions)
  BY DEF tabVars, recorderVars, mediaVars, HandleCreate, Answered
<1>4. QED
  BY <1>1, <1>2, <1>3 DEF TabInv, TabTyped, PollsInv, LoadingInv, OpeningInv, Opening

\* A poll reports the status the server holds.
LEMMA PollNoted ==
  ASSUME TabInv, NotedInv, SessionTypeOK, HandlePoll
  PROVE  TabInv' /\ NotedInv'
<1>1. NotedInv'
  BY DEF HandlePoll, NotedInv, HasStatus, Known, sessionVars, memory
<1> DEFINE status == challenges[challengeState.session_id].status
<1>2. /\ challengeState # Null /\ polls' = polls \cup {status}
      /\ UNCHANGED <<challengeState, recorderState, loadingChallenge, response, renewed, starting, authorized>>
  BY DEF HandlePoll, PollAnswered, mediaVars
<1>3. status = "AUTHORIZED" => challengeState.session_id \in authorized
  BY DEF HandlePoll, NotedInv, HasStatus, TabInv, TabTyped
<1>4. QED
  BY <1>1, <1>2, <1>3 DEF TabInv, TabTyped, PollsInv, LoadingInv, OpeningInv, Opening

LEMMA FlowStepKeeps ==
  ASSUME SessionInv, TabInv, NotedInv, [FlowNext]_flowVars
  PROVE  SessionInv' /\ TabInv' /\ NotedInv'
<1>1. CASE TabStep /\ UNCHANGED <<sessionVars, authorized>>
  <2>1. NotedInv'
    BY <1>1 DEF NotedInv, HasStatus, Known, sessionVars, memory
  <2>2. QED
    BY <1>1, <2>1, TabKeeps, SessionInvKept
<1>2. ASSUME NEW s \in Sessions, HandleCreate(s), Noted
      PROVE  SessionInv' /\ TabInv' /\ NotedInv'
  <2>1. SessionStep
    BY <1>2 DEF HandleCreate, SessionStep
  <2>2. QED
    BY <1>2, <2>1, SessionInvKept, ServerNoted
<1>3. CASE HandlePoll
  <2>1. UNCHANGED sessionVars
    BY <1>3 DEF HandlePoll
  <2>2. QED
    BY <1>3, <2>1, SessionInvKept, PollNoted DEF SessionInv
<1>4. CASE Elsewhere /\ Noted /\ UNCHANGED tabVars
  <2>1. SessionStep
    BY <1>4 DEF Elsewhere, SessionStep, Authorize, Authorizes
  <2>2. QED
    BY <1>4, <2>1, SessionInvKept, ServerNoted
<1>5. CASE UNCHANGED flowVars
  <2>1. UNCHANGED <<sessionVars, authorized>> /\ UNCHANGED tabVars
    BY <1>5 DEF flowVars
  <2>2. TabInv'
    BY <2>1 DEF tabVars, recorderVars, mediaVars, TabInv, TabTyped, PollsInv, LoadingInv,
                OpeningInv, Opening
  <2>3. NotedInv'
    BY <2>1 DEF NotedInv, HasStatus, Known, sessionVars, memory
  <2>4. QED
    BY <2>1, <2>2, <2>3, SessionInvKept
<1>6. QED
  BY <1>1, <1>2, <1>3, <1>4, <1>5 DEF FlowNext

\* The microphone is enabled only for a session the wallet has authorized,
\* however late the polls and the answers come and whatever is lost, unless the
\* challenge was asked for while another was shown or the microphone was being
\* opened: an effect that is cleaned up forgets the polls of its session.
THEOREM CaptureIsAuthorized == FlowSpec => []CaptureWasAuthorized
<1>1. FlowInit => SessionInv /\ TabInv /\ NotedInv
  <2>1. FlowInit => TabInv
    BY DEF FlowInit, TabInit, TabInv, TabTyped, PollsInv, LoadingInv, OpeningInv
  <2>2. FlowInit => NotedInv
    BY DEF FlowInit, SessionInit, Nothing, NotedInv, HasStatus, Known
  <2>3. QED
    BY <2>1, <2>2, SessionInvAtInit DEF FlowInit
<1>2. SessionInv /\ TabInv /\ NotedInv /\ [FlowNext]_flowVars
        => (SessionInv /\ TabInv /\ NotedInv)'
  BY FlowStepKeeps
<1>3. TabInv => CaptureWasAuthorized
  BY DEF TabInv, OpeningInv, Opening, CaptureWasAuthorized, CaptureNeedsAuthorization
<1>4. QED
  BY <1>1, <1>2, <1>3, PTL DEF FlowSpec
=============================================================================
