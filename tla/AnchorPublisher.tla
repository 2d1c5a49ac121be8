--------------------------- MODULE AnchorPublisher ---------------------------
(***************************************************************************)
(* Publication of a batch to an external anchor: publish() of              *)
(* createHttpAnchorPublisher, with its retries and its timeout, and what   *)
(* publishBatchAnchor (FileLedger) makes of the answer.  One publication   *)
(* follows the other; an action is the code between two awaits.            *)
(*                                                                         *)
(* The provider may answer anything, late or never.                        *)
(***************************************************************************)
EXTENDS Naturals

CONSTANT Retries    \* how often a request is made

ASSUME PublisherAssumption == Retries \in Nat \ {0}

VARIABLES
  stage,      \* idle; checking the endpoint; waiting for the head of the
              \* answer; reading its body; settled
  attempt,    \* the request under way
  accepted,   \* response.ok of its answer
  outcome     \* what publishBatchAnchor resolves or rejects with

publisherVars == <<stage, attempt, accepted, outcome>>

\* What readJsonWithLimit and normalizeExternalAnchorResponse make of a body,
\* and what publishBatchAnchor then thinks of the publication.
Bodies == {"ODD_PUBLICATION", "PUBLISHED",
           "EXTERNAL_ANCHOR_RESPONSE_TOO_LARGE", "EXTERNAL_ANCHOR_INVALID_RESPONSE",
           "EXTERNAL_ANCHOR_REQUEST_FAILED"}
Publications == {"ODD_PUBLICATION", "PUBLISHED"}

Settle(result) ==
  /\ stage' = "settled"
  /\ outcome' = result
  /\ UNCHANGED <<attempt, accepted>>

\* The end of the loop's body for an attempt that has failed.
Failed(error) ==
  \/ attempt >= Retries /\ Settle(error)
  \/ /\ attempt < Retries
     /\ stage' = "fetching"
     /\ attempt' = attempt + 1
     /\ UNCHANGED <<accepted, outcome>>

-----------------------------------------------------------------------------
Publish ==
  /\ stage \in {"idle", "settled"}
  /\ stage' = "checking"
  /\ attempt' = 1
  /\ accepted' = FALSE
  /\ outcome' = "none"

\* validateAnchorEndpoint, whose lookup of the host is awaited.
EndpointChecked ==
  /\ stage = "checking"
  /\ \/ Settle("EXTERNAL_ANCHOR_INVALID_ENDPOINT")
     \/ stage' = "fetching" /\ UNCHANGED <<attempt, accepted, outcome>>

\* fetch resolves with the head of an answer, which ends the timeout.
HeadArrives(ok) ==
  /\ stage = "fetching"
  /\ stage' = "reading"
  /\ accepted' = ok
  /\ UNCHANGED <<attempt, outcome>>

FetchFails == stage = "fetching" /\ Failed("EXTERNAL_ANCHOR_REQUEST_FAILED")

MutantNoAbort ==
  /\ stage = "fetching" /\ attempt < Retries
  /\ Failed("EXTERNAL_ANCHOR_TIMEOUT")

\* The timeout aborts the request.
Aborted == stage = "fetching" /\ Failed("EXTERNAL_ANCHOR_TIMEOUT")

\* The body is read to its end, or as far as it comes.
BodyRead(body) ==
  /\ stage = "reading"
  /\ \/ accepted /\ body \in Publications /\ Settle(body)
     \/ ~ accepted /\ body \in Publications /\ Failed("EXTERNAL_ANCHOR_HTTP_ERROR")
     \/ body \notin Publications /\ Failed(body)

PublisherInit ==
  /\ stage = "idle" /\ attempt = 0
  /\ accepted = FALSE /\ outcome = "none"

PublisherNext ==
  \/ Publish \/ EndpointChecked
  \/ \E ok \in BOOLEAN : HeadArrives(ok)
  \/ FetchFails \/ Aborted
  \/ \E body \in Bodies : BodyRead(body)

\* The resolver of the system answers and timers fire; the provider owes
\* nothing.
PublisherFairness == WF_publisherVars(EndpointChecked) /\ WF_publisherVars(Aborted)

-----------------------------------------------------------------------------
\* Whatever the provider does, a publication settles, so that the worker that
\* waits for it goes on; all but one thing: the timeout no longer runs while
\* the body is read, and a provider that stops there keeps it waiting.
PublicationSettles ==
  \/ <>[](stage = "reading")
  \/ []<>(stage \in {"idle", "settled"})
=============================================================================
