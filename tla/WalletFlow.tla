----------------------------- MODULE WalletFlow -----------------------------
(***************************************************************************)
(* The sessions a wallet takes part in: the confirmation of a scanned      *)
(* challenge (apps/wallet/app/confirm.tsx with redeemChallenge), the end   *)
(* of a session from the dashboard (dashboard.tsx with                     *)
(* cancelIdentitySession), and the list of redeemed sessions               *)
(* (store/sessions.ts).  Every change of the list ends in persist(), which *)
(* is taken as done before the app is killed: the list outlives it.        *)
(*                                                                         *)
(* A request is in "requests" from the fetch until the server handles it,  *)
(* also when the wallet has given up on it; one that is lost is never      *)
(* handled.  An answer reaches only a wallet that still waits.  The list   *)
(* is cut at fifty entries, which no instance reaches.                     *)
(*                                                                         *)
(* The wallet is composed with the session store of the server, and scans  *)
(* any challenge the server has issued.                                    *)
(***************************************************************************)
EXTENDS IdentitySessions, Sequences, FiniteSetsExt

CONSTANT MaxRequests    \* bound: the requests under way

ASSUME WalletAssumption == MaxRequests \in Nat

VARIABLES
  screen,         \* the challenge on the confirmation screen
  loading,        \* and this screen waits for its redemption
  redeeming,      \* the session doRedeem waits for, and
  ending,         \* the one handleEndSession waits for
  requests,       \* requests on their way to the server
  answers,        \* answers on their way to the wallet
  sessions        \* the store's list, latest first

walletVars == <<screen, loading, redeeming, ending, requests, answers, sessions>>

Request(op, s, stray) == [op |-> op, session_id |-> s, stray |-> stray]
Answer(op, s, code) == [op |-> op, session_id |-> s, code |-> code]
WithoutAnswers(op) == {a \in answers : a.op # op}

Updated(s, status) ==
  [i \in DOMAIN sessions |->
     IF sessions[i].session_id = s THEN [sessions[i] EXCEPT !.status = status] ELSE sessions[i]]

\* The dashboard shows the latest session that the list holds as AUTHORIZED.
ActiveSession ==
  LET open == {i \in DOMAIN sessions : sessions[i].status = "AUTHORIZED"}
  IN IF open = {} THEN Null ELSE sessions[Min(open)].session_id

-----------------------------------------------------------------------------
\* The expiry that the QR code carries is the one the server holds; a code
\* the server has forgotten is taken as good, and will be refused.
Fresh(s) == Known(s) => now < challenges[s].session_expires_at

\* handleBarcode: parseQRChallenge refuses a challenge that has expired.
Scan(s) ==
  /\ screen = Null
  /\ Fresh(s)
  /\ screen' = s /\ loading' = FALSE
  /\ UNCHANGED <<redeeming, ending, requests, answers, sessions>>

\* The screen can be left while a redemption is under way, which goes on.
LeaveScreen ==
  /\ screen # Null
  /\ screen' = Null /\ loading' = FALSE
  /\ UNCHANGED <<redeeming, ending, requests, answers, sessions>>

\* handleApprove and doRedeem, once the assertion is signed.  One redemption
\* at a time is a bound: a screen that is opened meanwhile has its own.
Approve ==
  /\ screen # Null /\ ~ loading /\ redeeming = Null
  /\ Fresh(screen)
  /\ Cardinality(requests) < MaxRequests
  /\ redeeming' = screen /\ loading' = TRUE
  /\ requests' = requests \cup {Request("redeem", screen, FALSE)}
  /\ UNCHANGED <<screen, ending, answers, sessions>>

\* doRedeem with its answer: the session is listed, or the failure shown.
RedeemAnswered(a) ==
  /\ a \in answers /\ a.op = "redeem"
  /\ redeeming' = Null /\ screen' = Null /\ loading' = FALSE
  /\ answers' = answers \ {a}
  /\ IF a.code = "ok"
       THEN sessions' = <<[session_id |-> a.session_id, status |-> "AUTHORIZED"]>> \o sessions
       ELSE UNCHANGED sessions
  /\ UNCHANGED <<ending, requests>>

\* The head of the answer says ok and its body never comes whole: nobody
\* catches that, so nothing is listed and the screen, unless it was left,
\* goes on waiting.
RedeemGarbled(a) ==
  /\ a \in answers /\ a.op = "redeem" /\ a.code = "ok"
  /\ redeeming' = Null
  /\ answers' = answers \ {a}
  /\ UNCHANGED <<screen, loading, ending, requests, sessions>>

\* fetch fails: the wallet reports no connection, whatever became of the
\* request.
StraysOf(op) ==
  {IF r.op = op THEN [r EXCEPT !.stray = TRUE] ELSE r : r \in requests}

RedeemFails ==
  /\ redeeming # Null
  /\ redeeming' = Null /\ screen' = Null /\ loading' = FALSE
  /\ requests' = StraysOf("redeem")
  /\ answers' = WithoutAnswers("redeem")
  /\ UNCHANGED <<ending, sessions>>

\* handleEndSession ends the latest session the list holds as AUTHORIZED;
\* the confirmation is a modal that covers the dashboard.
EndSession ==
  /\ ending = Null /\ ActiveSession # Null /\ screen = Null
  /\ Cardinality(requests) < MaxRequests
  /\ ending' = ActiveSession
  /\ requests' = requests \cup {Request("cancel", ActiveSession, FALSE)}
  /\ UNCHANGED <<screen, loading, redeeming, answers, sessions>>

\* A session the server does not have, or has as canceled, counts as ended.
EndAnswered(a) ==
  /\ a \in answers /\ a.op = "cancel"
  /\ ending' = Null
  /\ answers' = answers \ {a}
  /\ IF a.code \in {"ok", "already_canceled", "not_found"}
       THEN sessions' = Updated(a.session_id, "CANCELED")
       ELSE UNCHANGED sessions
  /\ UNCHANGED <<screen, loading, redeeming, requests>>

MutantEndAnyway ==
  /\ ending # Null
  /\ ending' = Null
  /\ requests' = StraysOf("cancel")
  /\ answers' = WithoutAnswers("cancel")
  /\ sessions' = Updated(ending, "CANCELED")
  /\ UNCHANGED <<screen, loading, redeeming>>

EndFails ==
  /\ ending # Null
  /\ ending' = Null
  /\ requests' = StraysOf("cancel")
  /\ answers' = WithoutAnswers("cancel")
  /\ UNCHANGED <<screen, loading, redeeming, sessions>>

\* "clear" of the session history; deleting the entry is a write as well.
ClearHistory ==
  /\ sessions # <<>>
  /\ sessions' = <<>>
  /\ UNCHANGED <<screen, loading, redeeming, ending, requests, answers>>

\* The app is killed and started again.
KillWallet ==
  /\ screen' = Null /\ loading' = FALSE /\ redeeming' = Null /\ ending' = Null
  /\ requests' = {[r EXCEPT !.stray = TRUE] : r \in requests}
  /\ answers' = {}
  /\ UNCHANGED sessions

\* The server has handled a request.
Handled(r, code) ==
  /\ requests' = requests \ {r}
  /\ answers' = answers \cup (IF r.stray THEN {} ELSE {Answer(r.op, r.session_id, code)})
  /\ UNCHANGED <<screen, loading, redeeming, ending, sessions>>

-----------------------------------------------------------------------------
\* POST /identity/redeem: the assertion verifies, or the store refuses it:
\* as too late, or because its signature is that of another key.
HandleRedeem(r) ==
  /\ r.op = "redeem"
  /\ \/ /\ Redeem(r.session_id)
        /\ Handled(r, IF Late(r.session_id) THEN "expired" ELSE "ok")
     \/ /\ ~ (HasStatus(r.session_id, {"PENDING"}) /\ Late(r.session_id))
        /\ Handled(r, "refused")
        /\ UNCHANGED sessionVars

\* POST /identity/sessions/:id/cancel.
HandleCancel(r) ==
  /\ r.op = "cancel"
  /\ \/ Cancel(r.session_id) /\ Handled(r, "ok")
     \/ /\ ~ HasStatus(r.session_id, {"PENDING", "AUTHORIZED"})
        /\ Handled(r, IF ~ Known(r.session_id) THEN "not_found"
                      ELSE IF HasStatus(r.session_id, {"CANCELED"}) THEN "already_canceled"
                      ELSE "refused")
        /\ UNCHANGED sessionVars

Screens ==
  \/ \E s \in issued : Scan(s)
  \/ LeaveScreen \/ Approve \/ RedeemFails \/ EndSession \/ EndFails
  \/ \E a \in answers : RedeemAnswered(a) \/ RedeemGarbled(a) \/ EndAnswered(a)
  \/ ClearHistory

\* The recorder, registrations, the clock and a restart.
Others ==
  \/ \E s \in Sessions : Issue(s) \/ Authorize(s, "recording")
  \/ Reload
  \/ Tick

WalletInit ==
  /\ screen = Null /\ loading = FALSE /\ redeeming = Null /\ ending = Null
  /\ requests = {} /\ answers = {}
  /\ sessions = <<>>

WalletNext ==
  \/ (Screens \/ KillWallet) /\ UNCHANGED sessionVars
  \/ \E r \in requests : HandleRedeem(r) \/ HandleCancel(r)
  \/ Others /\ UNCHANGED walletVars

WalletSpec == SessionInit /\ WalletInit /\ [][WalletNext]_<<sessionVars, walletVars>>

-----------------------------------------------------------------------------
\* A session the wallet shows as ended can no longer authorize anything:
\* whatever was lost, delayed or retried, the server has ended or forgotten
\* it.
EndedMeansEnded ==
  \A i \in DOMAIN sessions :
    sessions[i].status = "CANCELED" =>
      ~ HasStatus(sessions[i].session_id, {"PENDING", "AUTHORIZED"})
=============================================================================
