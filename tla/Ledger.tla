------------------------------- MODULE Ledger -------------------------------
(***************************************************************************)
(* FileLedger of packages/ledger/src/index.js over the storage backends of *)
(* packages/ledger/src/storage.js: usage events are appended, anchored in  *)
(* Merkle batches, and batches are published to an external anchor.        *)
(*                                                                         *)
(* One Node process serves many calls.  A call runs without interruption   *)
(* from one await to the next, and between them any other call may run:    *)
(* every action below is the code between two awaits of one call.  What a  *)
(* call read before an await it keeps in its own locals (record, snapshot, *)
(* batch, batchSnap), which may be stale when it uses them.                *)
(*                                                                         *)
(* Each element of Calls is one call.  Its identity stands for the values  *)
(* that are unique to it: the content hash of its usage event, the random  *)
(* id of the batch it creates.  A chain anchor, the hash of the previous   *)
(* anchor and the record, is the sequence of everything hashed so far.     *)
(***************************************************************************)
EXTENDS MerkleTree, FiniteSets

CONSTANTS
  Calls,        \* the calls that may be made; each is made at most once
  Null,         \* null
  MaxInFlight,  \* how many calls may be in flight at once
  Hazards       \* what the environment may do, a subset of HazardKinds

HazardKinds ==
  { "publish",   \* publishBatchAnchor is called, not only appendUsageEvent
    "reuse",     \* a caller supplies an event id an earlier call has used
    "truncate",  \* replaceAll empties the file before it writes (JsonlStorage)
    "crash",     \* the process may stop between any two steps and restart
    "tear" }     \* ... and leave half a line at the end of a file

ASSUME LedgerAssumption ==
  /\ Null \notin Calls
  /\ MaxInFlight \in Nat \ {0}
  /\ Hazards \subseteq HazardKinds

VARIABLES
  events, batches,             \* the two stores, in file order
  eventsTorn, batchesTorn,     \* the file ends in half a line
  pc,                          \* the await each call is at
  op, eventId, anchorNow, target,       \* its arguments
  record, snapshot, batch, batchSnap,   \* its locals
  answer                       \* the event record it resolved with

stores == <<events, batches, eventsTorn, batchesTorn>>
args   == <<op, eventId, anchorNow, target>>
locals == <<record, snapshot, batch, batchSnap>>
vars   == <<stores, pc, args, locals, answer>>

Settled == {"done", "notFound", "failed", "crashed"}
InFlight(r) == pc[r] \notin Settled \cup {"idle"}

At(r, step) == pc[r] = step
Goto(r, step) == pc' = [pc EXCEPT ![r] = step]

-----------------------------------------------------------------------------
(* Storage *)

\* fs.appendFile: a line put after half a line is glued to it, and getAll
\* skips the two of them as one corrupted record.
AppendLine(file, torn, line) == IF torn THEN file ELSE Append(file, line)

\* What fs.writeFile may leave when it writes from the start of a file that
\* others have written to since it truncated it: whole lines beyond its own
\* content survive, a line it cut into does not.
WriteOver(file, content) ==
  {content \o SubSeq(file, k + 1, Len(file)) :
     k \in IF file = <<>> THEN {1} ELSE 1 .. Len(file)}

\* getEvent and getBatch: the first match in file order.
GetEvent(file, id) ==
  LET matches == {i \in DOMAIN file : file[i].event_id = id}
  IN  IF matches = {} THEN Null ELSE file[Min(matches)]

GetBatch(file, id) ==
  LET matches == {i \in DOMAIN file : file[i].batch_id = id}
  IN  IF matches = {} THEN Null ELSE file[Min(matches)]

-----------------------------------------------------------------------------
(* Records *)

MutantZeroBasedRecord(r, file) ==
  LET previous == IF file = <<>> THEN <<>> ELSE file[Len(file)].chain_anchor
  IN  [event_id |-> eventId[r], content_hash |-> r, sequence |-> Len(file),
       previous_anchor |-> previous, chain_anchor |-> Append(previous, r),
       ledger_batch_id |-> Null, ledger_anchor |-> Null]

MutantLinkToGrandparent(r, file) ==
  LET previous == IF file = <<>> THEN <<>> ELSE file[Len(file)].previous_anchor
  IN  [event_id |-> eventId[r], content_hash |-> r, sequence |-> Len(file) + 1,
       previous_anchor |-> previous, chain_anchor |-> Append(previous, r),
       ledger_batch_id |-> Null, ledger_anchor |-> Null]

\* The record appendUsageEvent builds for call r after it has read the last
\* record of the store (the chain starts at ZERO_HASH, here <<>>).
NewRecord(r, file) ==
  LET previous == IF file = <<>> THEN <<>> ELSE file[Len(file)].chain_anchor
  IN  [event_id        |-> eventId[r],
       content_hash    |-> r,
       sequence        |-> IF file = <<>> THEN 1 ELSE file[Len(file)].sequence + 1,
       previous_anchor |-> previous,
       chain_anchor    |-> Append(previous, r),
       ledger_batch_id |-> Null,
       ledger_anchor   |-> Null]

MutantAllPending(file) == DOMAIN file
MutantLastPending(file) ==
  {i \in DOMAIN file : i = Len(file) /\ file[i].ledger_batch_id = Null}

Pending(file) == {i \in DOMAIN file : file[i].ledger_batch_id = Null}
BatchEvents(file, b) == {i \in DOMAIN file : file[i].ledger_batch_id = b}

\* The values of a function on positions, in the order of the positions: the
\* k-th is at the position that has k positions up to and including itself.
InOrder(f) ==
  [k \in 1 .. Cardinality(DOMAIN f) |->
     f[CHOOSE i \in DOMAIN f : Cardinality({j \in DOMAIN f : j <= i}) = k]]

Hashes(file, I) == InOrder([i \in I |-> file[i].content_hash])
EventIds(file, I) == {file[i].event_id : i \in I}

MutantRootOverAll(r, file, batchFile) ==
  LET previous == IF batchFile = <<>> THEN <<>> ELSE batchFile[Len(batchFile)].batch_anchor
  IN  [batch_id |-> r, root_hash |-> BuildMerkleRoot(Hashes(file, DOMAIN file)),
       event_ids |-> EventIds(file, Pending(file)), previous_batch_anchor |-> previous,
       batch_anchor |-> Append(previous, r), blockchain_tx |-> Null]

\* The batch record anchorPendingEvents builds for call r.
NewBatch(r, file, batchFile) ==
  LET previous == IF batchFile = <<>> THEN <<>> ELSE batchFile[Len(batchFile)].batch_anchor
  IN  [batch_id              |-> r,
       root_hash             |-> BuildMerkleRoot(Hashes(file, Pending(file))),
       event_ids             |-> EventIds(file, Pending(file)),
       previous_batch_anchor |-> previous,
       batch_anchor          |-> Append(previous, r),
       blockchain_tx         |-> Null]

Stamp(event, b) ==
  [event EXCEPT !.ledger_batch_id = b.batch_id, !.ledger_anchor = b.root_hash]

MutantKeepOnlyStamped(file, b) ==
  LET InBatch(event) == event.event_id \in b.event_ids
      chosen == SelectSeq(file, InBatch)
  IN  [i \in DOMAIN chosen |-> Stamp(chosen[i], b)]

\* updatedEvents: every event whose id is one of the batch's is stamped.
Stamped(file, b) ==
  [i \in DOMAIN file |->
     IF file[i].event_id \in b.event_ids THEN Stamp(file[i], b) ELSE file[i]]

MutantWriteOldBatches(file, r) == file

MutantWriteOneBatch(file, r) ==
  LET i == CHOOSE k \in DOMAIN file : file[k].batch_id = target[r]
  IN  <<[file[i] EXCEPT !.blockchain_tx = r]>>

\* The batches publishBatchAnchor of call r writes back.
Published(file, r) ==
  LET targetIndex == Min({i \in DOMAIN file : file[i].batch_id = target[r]})
  IN  [i \in DOMAIN file |->
         IF i = targetIndex THEN [file[i] EXCEPT !.blockchain_tx = r] ELSE file[i]]

\* getMerkleProof(event).verified, where both stores are read at one moment.
MerkleProofVerified(event) ==
  LET b == GetBatch(batches, event.ledger_batch_id)
      batchEvents == BatchEvents(events, event.ledger_batch_id)
      matches == {i \in batchEvents : events[i].event_id = event.event_id}
      targetIndex == Cardinality({i \in batchEvents : i < Min(matches)})
  IN  /\ event.ledger_batch_id # Null
      /\ b # Null
      /\ matches # {}
      /\ VerifyMerkleProof(event.content_hash,
                           BuildMerkleProof(Hashes(events, batchEvents), targetIndex),
                           b.root_hash)

\* verifyProofPackage answers LEDGER_CONFIRMED for the proof of call r, which
\* carries the event id and the ledger anchor the call was answered with.
LedgerConfirmed(r) ==
  LET event == GetEvent(events, answer[r].event_id)
  IN  /\ answer[r].ledger_anchor # Null
      /\ event # Null
      /\ event.content_hash = r
      /\ event.ledger_anchor = answer[r].ledger_anchor
      /\ MerkleProofVerified(event)
-----------------------------------------------------------------------------
(* appendUsageEvent and the anchorPendingEvents it may end in *)

MayStart(r) == /\ At(r, "idle")
               /\ Cardinality({q \in Calls : InFlight(q)}) < MaxInFlight

\* A random id, or, when callers choose ids, one that is already in use.
IdsFor(r) ==
  {r} \cup (IF "reuse" \in Hazards THEN {eventId[q] : q \in Calls} \ {Null} ELSE {})

StartAppend(r) ==
  /\ MayStart(r)
  /\ \E id \in IdsFor(r) : eventId' = [eventId EXCEPT ![r] = id]
  /\ \E anchor \in BOOLEAN : anchorNow' = [anchorNow EXCEPT ![r] = anchor]
  /\ op' = [op EXCEPT ![r] = "append"]
  /\ Goto(r, "readLatest")
  /\ UNCHANGED <<stores, target, locals, answer>>

ReadLatest(r) ==
  /\ At(r, "readLatest")
  /\ record' = [record EXCEPT ![r] = NewRecord(r, events)]
  /\ Goto(r, "appendEvent")
  /\ UNCHANGED <<stores, args, snapshot, batch, batchSnap, answer>>

AppendEvent(r) ==
  /\ At(r, "appendEvent")
  /\ events' = AppendLine(events, eventsTorn, record[r])
  /\ eventsTorn' = FALSE
  /\ IF anchorNow[r]
       THEN /\ Goto(r, "readPending")
            /\ UNCHANGED <<record, answer>>
       ELSE /\ Goto(r, "done")
            /\ record' = [record EXCEPT ![r] = Null]
            /\ answer' = [answer EXCEPT ![r] = record[r]]
  /\ UNCHANGED <<batches, batchesTorn, args, snapshot, batch, batchSnap>>

ReadPending(r) ==
  /\ At(r, "readPending")
  /\ IF Pending(events) = {}
       THEN /\ Goto(r, "done")
            /\ record' = [record EXCEPT ![r] = Null]
            /\ answer' = [answer EXCEPT ![r] = record[r]]
            /\ UNCHANGED snapshot
       ELSE /\ Goto(r, "readLatestBatch")
            /\ snapshot' = [snapshot EXCEPT ![r] = events]
            /\ UNCHANGED <<record, answer>>
  /\ UNCHANGED <<stores, args, batch, batchSnap>>

ReadLatestBatch(r) ==
  /\ At(r, "readLatestBatch")
  /\ batch' = [batch EXCEPT ![r] = NewBatch(r, snapshot[r], batches)]
  /\ Goto(r, "appendBatch")
  /\ UNCHANGED <<stores, args, record, snapshot, batchSnap, answer>>

MutantStampBeforeBatch(r) ==
  /\ At(r, "appendBatch")
  /\ events' = Stamped(snapshot[r], batch[r])
  /\ Goto(r, "rewriteEvents")
  /\ UNCHANGED <<batches, eventsTorn, batchesTorn, args, locals, answer>>

AppendBatch(r) ==
  /\ At(r, "appendBatch")
  /\ batches' = AppendLine(batches, batchesTorn, batch[r])
  /\ batchesTorn' = FALSE
  /\ Goto(r, "rewriteEvents")
  /\ UNCHANGED <<events, eventsTorn, args, locals, answer>>

RewriteEvents(r) ==
  /\ At(r, "rewriteEvents")
  /\ IF "truncate" \in Hazards
       THEN Goto(r, "writeEvents") /\ events' = <<>>
       ELSE Goto(r, "readAnchored") /\ events' = Stamped(snapshot[r], batch[r])
  /\ eventsTorn' = FALSE
  /\ UNCHANGED <<batches, batchesTorn, args, locals, answer>>

WriteEvents(r) ==
  /\ At(r, "writeEvents")
  /\ events' \in WriteOver(events, Stamped(snapshot[r], batch[r]))
  /\ Goto(r, "readAnchored")
  /\ UNCHANGED <<batches, eventsTorn, batchesTorn, args, locals, answer>>

ReadAnchored(r) ==
  /\ At(r, "readAnchored")
  /\ answer' = [answer EXCEPT ![r] = GetEvent(events, eventId[r])]
  /\ Goto(r, "done")
  /\ snapshot' = [snapshot EXCEPT ![r] = <<>>]
  /\ record' = [record EXCEPT ![r] = Null]
  /\ UNCHANGED <<stores, args, batch, batchSnap>>

AppendSteps(r) ==
  \/ StartAppend(r) \/ ReadLatest(r) \/ AppendEvent(r) \/ ReadPending(r)
  \/ ReadLatestBatch(r) \/ AppendBatch(r) \/ RewriteEvents(r) \/ WriteEvents(r)
  \/ ReadAnchored(r)

-----------------------------------------------------------------------------
(* publishBatchAnchor *)

StartPublish(r) ==
  /\ "publish" \in Hazards
  /\ MayStart(r)
  /\ \E i \in DOMAIN batches : target' = [target EXCEPT ![r] = batches[i].batch_id]
  /\ op' = [op EXCEPT ![r] = "publish"]
  /\ Goto(r, "readBatches")
  /\ UNCHANGED <<stores, eventId, anchorNow, locals, answer>>

ReadBatches(r) ==
  /\ At(r, "readBatches")
  /\ IF GetBatch(batches, target[r]) = Null
       THEN Goto(r, "notFound") /\ UNCHANGED batchSnap
       ELSE Goto(r, "publish") /\ batchSnap' = [batchSnap EXCEPT ![r] = batches]
  /\ UNCHANGED <<stores, args, record, snapshot, batch, answer>>

\* The publisher has given its answer: after its retries an error, or a
\* response, which the field checks may still refuse with an error.
PublisherAnswers(r) ==
  /\ At(r, "publish")
  /\ Goto(r, "rewriteBatches") \/ Goto(r, "failed")
  /\ UNCHANGED <<stores, args, locals, answer>>

RewriteBatches(r) ==
  /\ At(r, "rewriteBatches")
  /\ IF "truncate" \in Hazards
       THEN Goto(r, "writeBatches") /\ batches' = <<>>
       ELSE Goto(r, "done") /\ batches' = Published(batchSnap[r], r)
  /\ batchesTorn' = FALSE
  /\ UNCHANGED <<events, eventsTorn, args, locals, answer>>

WriteBatches(r) ==
  /\ At(r, "writeBatches")
  /\ batches' \in WriteOver(batches, Published(batchSnap[r], r))
  /\ Goto(r, "done")
  /\ UNCHANGED <<events, eventsTorn, batchesTorn, args, locals, answer>>

PublishSteps(r) ==
  \/ StartPublish(r) \/ ReadBatches(r) \/ PublisherAnswers(r)
  \/ RewriteBatches(r) \/ WriteBatches(r)
-----------------------------------------------------------------------------
(* The process stops and is started again on the same files *)

\* A file that was being rewritten is left with any number of its new lines.
AfterCrash(file, contents) == {file} \cup UNION {Prefixes(c) : c \in contents}

Crash ==
  /\ "crash" \in Hazards
  /\ \E r \in Calls : InFlight(r)
  /\ events' \in AfterCrash(events,
       {Stamped(snapshot[r], batch[r]) : r \in {q \in Calls : At(q, "writeEvents")}})
  /\ batches' \in AfterCrash(batches,
       {Published(batchSnap[r], r) : r \in {q \in Calls : At(q, "writeBatches")}})
  /\ eventsTorn' \in {eventsTorn,
       eventsTorn \/ ("tear" \in Hazards /\ \E r \in Calls : At(r, "appendEvent"))}
  /\ batchesTorn' \in {batchesTorn,
       batchesTorn \/ ("tear" \in Hazards /\ \E r \in Calls : At(r, "appendBatch"))}
  /\ pc' = [r \in Calls |-> IF InFlight(r) THEN "crashed" ELSE pc[r]]
  /\ record' = [r \in Calls |-> Null]
  /\ snapshot' = [r \in Calls |-> <<>>]
  /\ batchSnap' = [r \in Calls |-> <<>>]
  /\ UNCHANGED <<args, batch, answer>>

-----------------------------------------------------------------------------
Init ==
  /\ events = <<>> /\ batches = <<>>
  /\ eventsTorn = FALSE /\ batchesTorn = FALSE
  /\ pc = [r \in Calls |-> "idle"]
  /\ op = [r \in Calls |-> Null]
  /\ eventId = [r \in Calls |-> Null]
  /\ anchorNow = [r \in Calls |-> FALSE]
  /\ target = [r \in Calls |-> Null]
  /\ record = [r \in Calls |-> Null]
  /\ snapshot = [r \in Calls |-> <<>>]
  /\ batch = [r \in Calls |-> Null]
  /\ batchSnap = [r \in Calls |-> <<>>]
  /\ answer = [r \in Calls |-> Null]

\* Every call there was has been settled.
AllSettled == (\A r \in Calls : pc[r] \in Settled) /\ UNCHANGED vars

Next ==
  \/ \E r \in Calls : AppendSteps(r) \/ PublishSteps(r)
  \/ Crash
  \/ AllSettled

Spec == Init /\ [][Next]_vars

-----------------------------------------------------------------------------
(* Type correctness *)

IsEvent(e) ==
  e \in [event_id : Calls, content_hash : Calls, sequence : Nat \ {0},
         previous_anchor : Seq(Calls), chain_anchor : Seq(Calls),
         ledger_batch_id : Calls \cup {Null}, ledger_anchor : {e.ledger_anchor}]

IsBatch(b) ==
  b \in [batch_id : Calls, root_hash : {b.root_hash}, event_ids : SUBSET Calls,
         previous_batch_anchor : Seq(Calls), batch_anchor : Seq(Calls),
         blockchain_tx : Calls \cup {Null}]

AllEvents(file) == \A i \in DOMAIN file : IsEvent(file[i])
AllBatches(file) == \A i \in DOMAIN file : IsBatch(file[i])

Steps == {"idle", "readLatest", "appendEvent", "readPending", "readLatestBatch",
          "appendBatch", "rewriteEvents", "writeEvents", "readAnchored",
          "readBatches", "publish", "rewriteBatches", "writeBatches"} \cup Settled

\* The stores hold records of the shape FileLedger writes, every local has the
\* shape its code expects, and a local that is about to be used is there.
TypeOK ==
  /\ AllEvents(events) /\ AllBatches(batches)
  /\ eventsTorn \in BOOLEAN /\ batchesTorn \in BOOLEAN
  /\ pc \in [Calls -> Steps]
  /\ op \in [Calls -> {"append", "publish", Null}]
  /\ eventId \in [Calls -> Calls \cup {Null}]
  /\ anchorNow \in [Calls -> BOOLEAN]
  /\ target \in [Calls -> Calls \cup {Null}]
  /\ \A r \in Calls :
       /\ record[r] = Null \/ IsEvent(record[r])
       /\ batch[r] = Null \/ IsBatch(batch[r])
       /\ answer[r] = Null \/ IsEvent(answer[r])
       /\ AllEvents(snapshot[r]) /\ AllBatches(batchSnap[r])
       /\ At(r, "appendEvent") => IsEvent(record[r])
       /\ pc[r] \in {"appendBatch", "rewriteEvents", "writeEvents"} => IsBatch(batch[r])

-----------------------------------------------------------------------------
(* What the ledger promises *)

\* No replaceAll has emptied a file that it has not written yet.
Whole == \A r \in Calls : pc[r] \notin {"writeEvents", "writeBatches"}

Acked(r) == At(r, "done") /\ op[r] = "append"
AckedAnchored(r) == Acked(r) /\ anchorNow[r]

\* No event refers to a batch that is not stored: anchorPendingEvents writes
\* the batch before it stamps the events, so that a crash between the two
\* writes leaves a batch without events, never events without their batch.
ReferencedBatchExists ==
  \A i \in DOMAIN events :
    events[i].ledger_batch_id # Null =>
      \E k \in DOMAIN batches : batches[k].batch_id = events[i].ledger_batch_id

\* Overlapping appends keep that order on files that are truncated before they
\* are written; it takes a publication, or a torn line, to lose a batch.
ReferencedUntilPublished ==
  (\A r \in Calls : op[r] # "publish" /\ pc[r] # "crashed") => ReferencedBatchExists

\* The ledger anchor of a stamped event is the Merkle root of exactly the
\* stored events that carry its batch id, in the order they are stored, and
\* the root of that batch wherever the batch is stored: this is what
\* getMerkleProof recomputes from whatever stale snapshot was written last.
RootsMatch ==
  \A i \in DOMAIN events :
    LET b == events[i].ledger_batch_id IN
    b # Null =>
      /\ events[i].ledger_anchor = BuildMerkleRoot(Hashes(events, BatchEvents(events, b)))
      /\ \A k \in DOMAIN batches :
           batches[k].batch_id = b => batches[k].root_hash = events[i].ledger_anchor

\* The stored events form one hash chain: numbered from 1 without a gap, each
\* one hashed onto the anchor of the one stored before it.  So do the
\* batches, whatever was interrupted or published in between.
EventsChained ==
  \A i \in DOMAIN events :
    /\ events[i].sequence = i
    /\ events[i].previous_anchor = IF i = 1 THEN <<>> ELSE events[i - 1].chain_anchor

BatchesChained ==
  \A k \in DOMAIN batches :
    batches[k].previous_batch_anchor = IF k = 1 THEN <<>> ELSE batches[k - 1].batch_anchor

ChainsIntact == EventsChained /\ BatchesChained

\* An event whose append has been answered stays in the store, once.
AckedEventsKept ==
  \A r \in Calls :
    (Whole /\ Acked(r)) => Cardinality({i \in DOMAIN events : events[i].content_hash = r}) = 1

\* A proof that was answered with a ledger anchor is confirmed by
\* verifyProofPackage from then on, whatever is appended, anchored, published
\* or interrupted later.
AnchoredStaysConfirmed ==
  \A r \in Calls : (Whole /\ AckedAnchored(r)) => LedgerConfirmed(r)

\* Anchoring leaves nothing behind: no pending event precedes an anchored one.
NoEventSkipped ==
  \A i, j \in DOMAIN events :
    (i < j /\ events[j].ledger_batch_id # Null) => events[i].ledger_batch_id # Null

\* A publication that was reported as stored stays on the batch.
PublicationKept ==
  \A r \in Calls :
    (Whole /\ At(r, "done") /\ op[r] = "publish") =>
      \E k \in DOMAIN batches :
        batches[k].batch_id = target[r] /\ batches[k].blockchain_tx # Null

\* No step moves a stamped event to another batch or takes its stamp away.
StampsAreFinal ==
  [][ \A i \in DOMAIN events :
        events[i].ledger_batch_id # Null =>
          \E j \in DOMAIN events' :
            /\ events'[j].content_hash = events[i].content_hash
            /\ events'[j].ledger_batch_id = events[i].ledger_batch_id
            /\ events'[j].ledger_anchor = events[i].ledger_anchor ]_vars
=============================================================================
