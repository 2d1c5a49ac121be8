---------------------------- MODULE RecorderFlow ----------------------------
(***************************************************************************)
(* The recorder page (apps/recorder/src/App.tsx): it asks the server for a *)
(* challenge, shows it as a QR code, polls the session and enables the     *)
(* microphone once a poll says AUTHORIZED.  React state is one variable    *)
(* each; an event handler, a response or an event of MediaRecorder is one  *)
(* step, its renderings and effects included.                              *)
(*                                                                         *)
(* The page is composed with the session store of the server and with any  *)
(* wallet at all: one that redeems and cancels whatever session it likes   *)
(* whenever it likes.  Requests and answers may be late or lost.           *)
(***************************************************************************)
EXTENDS IdentitySessions

CONSTANT MaxStarts    \* bound: the microphone requests under way

ASSUME RecorderAssumption == MaxStarts \in Nat

VARIABLES
  challengeState,    \* the challenge on the screen
  sessionState,      \* what the last accepted poll has reported: a session and its status
  recorderState,     \* idle, ready, recording, finished
  audioUrl,          \* there is a recording to play and to download
  loadingChallenge,  \* a challenge has been asked for
  response,          \* and this is the answer on its way
  polls,             \* the statuses on their way to the running effect, which polls for
                     \* the challenge on the screen
  starting,          \* how many calls of getUserMedia have not answered
  capturing,         \* the MediaRecorder the refs point to is running
  stopDue,           \* the stop event of a MediaRecorder is due
  renewed,           \* history: the challenge was on its way while another was shown,
                     \* or while the microphone was being opened
  authorized         \* history: the sessions that have been AUTHORIZED

recorderVars == <<challengeState, sessionState, recorderState, loadingChallenge, response, polls, renewed>>
mediaVars == <<starting, capturing, stopDue, audioUrl>>
tabVars == <<recorderVars, mediaVars>>
flowVars == <<sessionVars, tabVars, authorized>>

Final == {"AUTHORIZED", "CONSUMED", "EXPIRED", "CANCELED"}

Status(session) == IF session = Null THEN Null ELSE session.status

\* The last accepted poll has reported a decision, whichever session it was
\* of: the effect asks for the status alone.
StopsPolling(session) == Status(session) \in Final

MutantPollOnce == challengeState # Null /\ sessionState = Null

Polling == challengeState # Null /\ ~ StopsPolling(sessionState)

MutantNoCleanup(challenge, session, state) ==
  /\ challengeState' = challenge
  /\ sessionState' = session
  /\ recorderState' = state
  /\ UNCHANGED polls

\* The effect that polls depends on the challenge, the status and the state:
\* when one of them changes it is cleaned up, and what was on its way to it
\* is ignored.
Show(challenge, session, state) ==
  /\ challengeState' = challenge
  /\ sessionState' = session
  /\ recorderState' = state
  /\ polls' = IF <<challenge, Status(session), state>>
                   = <<challengeState, Status(sessionState), recorderState>>
                THEN polls ELSE {}

-----------------------------------------------------------------------------
\* The recording on the page is dropped.  The effect that holds its URL is
\* then cleaned up, which stops the tracks of the stream the ref points to:
\* of a later recording, if one is running, and with them, later, that
\* recording.
ForgetAudio ==
  /\ audioUrl' = FALSE
  /\ capturing' = (capturing /\ ~ audioUrl)
  /\ stopDue' = (stopDue \/ (capturing /\ audioUrl))

\* handleCreateChallenge, up to its request: the challenge shown stays.
CreateChallenge ==
  /\ ~ loadingChallenge
  /\ loadingChallenge' = TRUE
  /\ Show(challengeState, Null, "idle")
  /\ renewed' = (challengeState # Null \/ starting > 0)
  /\ ForgetAudio
  /\ UNCHANGED <<response, starting>>

\* The server has issued the challenge; the answer is on its way.
Answered(challenge) ==
  /\ loadingChallenge /\ response = Null
  /\ response' = challenge
  /\ UNCHANGED <<loadingChallenge, challengeState, sessionState, recorderState, polls, renewed, mediaVars>>

ChallengeArrives ==
  /\ response # Null
  /\ response' = Null
  /\ loadingChallenge' = FALSE
  /\ Show(response, sessionState, recorderState)
  /\ UNCHANGED <<renewed, mediaVars>>

\* The request or its answer is lost, or the TTL field is no number.
CreateFails ==
  /\ loadingChallenge
  /\ loadingChallenge' = FALSE
  /\ response' = Null
  /\ UNCHANGED <<challengeState, sessionState, recorderState, polls, renewed, mediaVars>>

\* One poll reaches the server, which reports the status it has stored.
PollAnswered(status) ==
  /\ Polling
  /\ polls' = polls \cup {status}
  /\ UNCHANGED <<challengeState, sessionState, recorderState, loadingChallenge, response, renewed, mediaVars>>

\* A poll is of the challenge shown; where there is none, no effect runs.
PollArrives(status) ==
  /\ challengeState # Null /\ status \in polls
  /\ Show(challengeState, [session_id |-> challengeState.session_id, status |-> status],
          IF status = "AUTHORIZED" /\ recorderState = "idle" THEN "ready" ELSE recorderState)
  /\ UNCHANGED <<loadingChallenge, response, renewed, mediaVars>>

PollLost(status) ==
  /\ status \in polls
  /\ polls' = polls \ {status}
  /\ UNCHANGED <<challengeState, sessionState, recorderState, loadingChallenge, response, renewed, mediaVars>>

\* handleStartRecording, up to its request for the microphone; the button
\* stays enabled meanwhile.
StartRecording ==
  /\ recorderState = "ready"
  /\ starting < MaxStarts
  /\ starting' = starting + 1
  /\ UNCHANGED <<recorderVars, capturing, stopDue, audioUrl>>

\* The microphone is there: the page records, in whatever state it is by
\* now.  A MediaRecorder that is still running is forgotten, not stopped.
MicrophoneOpens ==
  /\ starting > 0
  /\ starting' = starting - 1
  /\ capturing' = TRUE
  /\ Show(challengeState, sessionState, "recording")
  /\ UNCHANGED <<loadingChallenge, response, renewed, stopDue, audioUrl>>

MicrophoneDenied ==
  /\ starting > 0
  /\ starting' = starting - 1
  /\ UNCHANGED <<recorderVars, capturing, stopDue, audioUrl>>

StopRecording ==
  /\ recorderState = "recording" /\ capturing
  /\ capturing' = FALSE
  /\ stopDue' = TRUE
  /\ UNCHANGED <<recorderVars, starting, audioUrl>>

\* onstop also stops the tracks of whatever recording the refs point to.
OnStop ==
  /\ stopDue
  /\ stopDue' = capturing
  /\ capturing' = FALSE
  /\ audioUrl' = TRUE
  /\ Show(challengeState, sessionState, "finished")
  /\ UNCHANGED <<loadingChallenge, response, renewed, starting>>

\* handleReset drops the recording and stops the tracks, and with them,
\* later, the recording that runs; the requests for a challenge and for the
\* microphone go on.
Reset ==
  /\ Show(Null, Null, "idle")
  /\ stopDue' = (stopDue \/ capturing)
  /\ capturing' = FALSE
  /\ audioUrl' = FALSE
  /\ renewed' = (loadingChallenge /\ starting > 0)
  /\ UNCHANGED <<loadingChallenge, response, starting>>

TabInit ==
  /\ challengeState = Null /\ sessionState = Null
  /\ loadingChallenge = FALSE /\ response = Null
  /\ recorderState = "idle"
  /\ polls = {}
  /\ starting = 0
  /\ capturing = FALSE /\ stopDue = FALSE /\ audioUrl = FALSE /\ renewed = FALSE
  /\ authorized = {}

TabStep ==
  \/ CreateChallenge \/ ChallengeArrives \/ CreateFails
  \/ \E status \in Statuses : PollArrives(status) \/ PollLost(status)
  \/ StartRecording \/ MicrophoneOpens \/ MicrophoneDenied
  \/ StopRecording \/ OnStop \/ Reset

-----------------------------------------------------------------------------
\* POST /identity/challenges and GET /identity/sessions/:id.
HandleCreate(s) ==
  /\ Issue(s)
  /\ Answered([session_id |-> s, session_expires_at |-> now + Ttl])

HandlePoll ==
  /\ challengeState # Null
  /\ Known(challengeState.session_id)
  /\ PollAnswered(challenges[challengeState.session_id].status)
  /\ UNCHANGED <<sessionVars, authorized>>

\* Wallets, registrations, the clock and a restart of the server.
Elsewhere ==
  \/ \E s \in Sessions : Redeem(s) \/ Cancel(s) \/ Authorize(s, "recording")
  \/ Reload
  \/ Tick

Noted ==
  authorized' = authorized \cup
    {s \in Sessions : challenges'[s] # Null /\ challenges'[s].status = "AUTHORIZED"}

FlowInit == SessionInit /\ TabInit

FlowNext ==
  \/ TabStep /\ UNCHANGED <<sessionVars, authorized>>
  \/ \E s \in Sessions : HandleCreate(s) /\ Noted
  \/ HandlePoll
  \/ Elsewhere /\ Noted /\ UNCHANGED tabVars

FlowSpec == FlowInit /\ [][FlowNext]_flowVars

\* The page polls every two seconds as long as the effect runs, after an
\* error as well, and not every answer is lost.
APollArrives ==
  (\E status \in Statuses : PollArrives(status)) /\ UNCHANGED <<sessionVars, authorized>>

FlowFairness == WF_flowVars(HandlePoll) /\ SF_flowVars(APollArrives)

-----------------------------------------------------------------------------
\* The page waits for the wallet's authorization and only then enables the
\* microphone: while it does, the session on the screen has been authorized.
CaptureNeedsAuthorization ==
  recorderState \in {"ready", "recording"} /\ challengeState # Null =>
    challengeState.session_id \in authorized

\* That is so unless the challenge was asked for while another one was shown
\* or the microphone was being opened: polls of an earlier session that were
\* on their way when the page was reset do not enable it.
CaptureWasAuthorized == ~ renewed => CaptureNeedsAuthorization

\* A decision on the session that is shown reaches the page, as a decision on
\* that session, unless another challenge replaces it or the server forgets
\* the session, or the challenge was asked for while another one was shown
\* whose decision came first: it ends the polling for both.
Decided(s) ==
  challengeState # Null /\ challengeState.session_id = s /\ HasStatus(s, Final)

Learned(s) == StopsPolling(sessionState) /\ sessionState.session_id = s

Overtaken(s) == renewed /\ StopsPolling(sessionState) /\ sessionState.session_id # s

DecisionIsLearned ==
  \A s \in Sessions :
    Decided(s) ~> \/ Learned(s) \/ Overtaken(s)
                  \/ challengeState = Null \/ challengeState.session_id # s
                  \/ ~ Known(s)
=============================================================================
