------------------------- MODULE LedgerAnchorProofs -------------------------
(***************************************************************************)
(* What the ledger promises, for every set of calls.                       *)
(*                                                                         *)
(* Whatever overlaps, two guarantees of anchoring survive:                 *)
(*   - no event refers to a batch that is not stored, as long as nothing   *)
(*     is published and no line is torn (BatchBeforeReference,             *)
(*     ReferencedBeforePublication);                                       *)
(*   - every stamp agrees with the events it stands for and with the       *)
(*     stored batch, as long as files are replaced in one step and no      *)
(*     caller reuses an event id (StampsMatchRoots).                       *)
(* Where calls do not overlap and files are replaced in one step, whatever *)
(* is published and wherever the process stops, the rest holds as well:    *)
(* the chains, the events that were answered, the order of anchoring, the  *)
(* publications, the stamps, and that a proof stays confirmed.             *)
(* Each of these conditions is needed: see the divergences in the README.  *)
(***************************************************************************)
EXTENDS LedgerProofs

-----------------------------------------------------------------------------
(* Batches are stored before they are referred to *)

StoredIn(batchFile, id) == \E k \in DOMAIN batchFile : batchFile[k].batch_id = id

References(file, batchFile) ==
  \A i \in DOMAIN file :
    file[i].ledger_batch_id # Null => StoredIn(batchFile, file[i].ledger_batch_id)

\* Why ReferencedBatchExists is kept: what a call is about to write back, its
\* snapshot and its batch, refers to stored batches only as well.
ReferenceInv ==
  /\ batchesTorn = FALSE
  /\ References(events, batches)
  /\ \A r \in Calls :
       /\ References(snapshot[r], batches)
       /\ pc[r] = "appendEvent" => record[r].ledger_batch_id = Null
       /\ pc[r] \in {"rewriteEvents", "writeEvents"} => StoredIn(batches, batch[r].batch_id)
       /\ pc[r] \notin {"readBatches", "publish", "rewriteBatches", "writeBatches"}

(* A file of batches that keeps its batches keeps what refers to them.      *)
LEMMA ReferencesGrow ==
  ASSUME NEW file, NEW old, NEW new, References(file, old),
         \A id : StoredIn(old, id) => StoredIn(new, id)
  PROVE  References(file, new)
  BY DEF References

(* Stamping with a stored batch adds no reference to a batch that is not.   *)
LEMMA StampedReferences ==
  ASSUME NEW file \in Seq(EventType), NEW b \in BatchType, NEW batchFile,
         References(file, batchFile), StoredIn(batchFile, b.batch_id)
  PROVE  References(Stamped(file, b), batchFile)
<1>1. ASSUME NEW i \in DOMAIN file, Stamped(file, b)[i].ledger_batch_id # Null
      PROVE  StoredIn(batchFile, Stamped(file, b)[i].ledger_batch_id)
  <2>1. CASE file[i].event_id \in b.event_ids
    <3>1. Stamped(file, b)[i].ledger_batch_id = b.batch_id
      BY <2>1, StampedProperties
    <3>2. QED
      BY <3>1
  <2>2. CASE file[i].event_id \notin b.event_ids
    <3>1. Stamped(file, b)[i] = file[i]
      BY <2>2, StampedProperties
    <3>2. QED
      BY <1>1, <3>1 DEF References
  <2>3. QED
    BY <2>1, <2>2
<1>2. DOMAIN Stamped(file, b) = DOMAIN file
  BY StampedProperties
<1>3. QED
  BY <1>1, <1>2 DEF References

(* Any selection of the lines of two files refers to what they refer to.    *)
LEMMA LinesReferences ==
  ASSUME NEW f, NEW g, NEW out, NEW batchFile,
         References(f, batchFile), References(g, batchFile),
         \A i \in DOMAIN out : \/ \E j \in DOMAIN f : out[i] = f[j]
                               \/ \E j \in DOMAIN g : out[i] = g[j]
  PROVE  References(out, batchFile)
<1>1. ASSUME NEW i \in DOMAIN out, out[i].ledger_batch_id # Null
      PROVE  StoredIn(batchFile, out[i].ledger_batch_id)
  <2>1. CASE \E j \in DOMAIN f : out[i] = f[j]
    BY <1>1, <2>1 DEF References
  <2>2. CASE \E j \in DOMAIN g : out[i] = g[j]
    BY <1>1, <2>2 DEF References
  <2>3. QED
    BY <2>1, <2>2
<1>2. QED
  BY <1>1 DEF References

(* No step but the end of a batch's append changes which batches are stored *)
(* and no step forgets one.                                                *)
LEMMA ReferenceNext ==
  ASSUME \A r \in Calls : ~ StartPublish(r), Crash => "tear" \notin Hazards,
         TypeInv, ReferenceInv, [Next]_vars
  PROVE  ReferenceInv'
<1> USE DEF stores, args, locals, At, Goto
<1>t. /\ events \in Seq(EventType) /\ batches \in Seq(BatchType)
      /\ pc \in [Calls -> Steps]
      /\ record \in [Calls -> EventType \cup {Null}]
      /\ snapshot \in [Calls -> Seq(EventType)]
      /\ batch \in [Calls -> BatchType \cup {Null}]
  BY DEF TypeInv, StoresTyped, CallsTyped, LocalsTyped
<1>e. References(<<>>, batches)
  BY DEF References
<1>1. ASSUME NEW r \in Calls, StartAppend(r)
      PROVE  ReferenceInv'
  BY <1>t, <1>1 DEF StartAppend, ReferenceInv
<1>2. ASSUME NEW r \in Calls, ReadLatest(r)
      PROVE  ReferenceInv'
  <2>1. NewRecord(r, events).ledger_batch_id = Null
    BY DEF NewRecord
  <2>2. QED
    BY <1>t, <1>2, <2>1 DEF ReadLatest, ReferenceInv
<1>3. ASSUME NEW r \in Calls, AppendEvent(r)
      PROVE  ReferenceInv'
  <2>1. record[r] \in EventType /\ record[r].ledger_batch_id = Null
    BY <1>3 DEF AppendEvent, ReferenceInv, TypeInv, LocalsReady
  <2>2. References(<<record[r]>>, batches)
    BY <2>1 DEF References
  <2>3. \A i \in DOMAIN AppendLine(events, eventsTorn, record[r]) :
          \/ \E j \in DOMAIN events : AppendLine(events, eventsTorn, record[r])[i] = events[j]
          \/ \E j \in DOMAIN <<record[r]>> :
               AppendLine(events, eventsTorn, record[r])[i] = <<record[r]>>[j]
    BY <1>t, <2>1 DEF AppendLine
  <2>4. References(events', batches)
    BY <1>3, <2>2, <2>3, LinesReferences DEF AppendEvent, ReferenceInv
  <2>5. UNCHANGED <<batches, batchesTorn, snapshot, batch>>
    BY <1>3 DEF AppendEvent
  <2>6. \A q \in Calls : pc'[q] # pc[q] => pc'[q] \in {"readPending", "done"}
    BY <1>t, <1>3 DEF AppendEvent
  <2>7. \A q \in Calls : pc'[q] = "appendEvent" => record'[q] = record[q]
    BY <1>t, <1>3 DEF AppendEvent
  <2>8. QED
    BY <2>4, <2>5, <2>6, <2>7 DEF ReferenceInv
<1>4. ASSUME NEW r \in Calls, ReadPending(r)
      PROVE  ReferenceInv'
  <2>1. UNCHANGED <<events, batches, batchesTorn, batch>>
    BY <1>4 DEF ReadPending
  <2>2. \A q \in Calls : pc'[q] # pc[q] => pc'[q] \in {"readLatestBatch", "done"}
    BY <1>t, <1>4 DEF ReadPending
  <2>3. \A q \in Calls : snapshot'[q] = snapshot[q] \/ snapshot'[q] = events
    BY <1>t, <1>4 DEF ReadPending
  <2>4. \A q \in Calls : pc'[q] = "appendEvent" => record'[q] = record[q]
    BY <1>t, <1>4 DEF ReadPending
  <2>5. QED
    BY <2>1, <2>2, <2>3, <2>4 DEF ReferenceInv
<1>5. ASSUME NEW r \in Calls, ReadLatestBatch(r)
      PROVE  ReferenceInv'
  BY <1>t, <1>5 DEF ReadLatestBatch, ReferenceInv
<1>6. ASSUME NEW r \in Calls, AppendBatch(r)
      PROVE  ReferenceInv'
  <2>1. batch[r] \in BatchType
    BY <1>6 DEF AppendBatch, TypeInv, LocalsReady
  <2>2. batches' = Append(batches, batch[r]) /\ batchesTorn' = FALSE
    BY <1>6 DEF AppendBatch, AppendLine, ReferenceInv
  <2>3. ASSUME NEW id, StoredIn(batches, id)
        PROVE  StoredIn(batches', id)
    <3>1. PICK k \in DOMAIN batches : batches[k].batch_id = id
      BY <2>3 DEF StoredIn
    <3>2. k \in DOMAIN batches' /\ batches'[k] = batches[k]
      BY <1>t, <2>1, <2>2, <3>1
    <3>3. QED
      BY <3>1, <3>2 DEF StoredIn
  <2>4. StoredIn(batches', batch[r].batch_id)
    <3>1. Len(batches') \in DOMAIN batches' /\ batches'[Len(batches')] = batch[r]
      BY <1>t, <2>1, <2>2
    <3>2. QED
      BY <3>1 DEF StoredIn
  <2>5. References(events', batches')
    BY <1>6, <2>3, ReferencesGrow DEF AppendBatch, ReferenceInv
  <2>6. \A q \in Calls : References(snapshot'[q], batches')
    BY <1>6, <2>3, ReferencesGrow DEF AppendBatch, ReferenceInv
  <2>7. \A q \in Calls :
          /\ pc'[q] = "appendEvent" => pc[q] = "appendEvent"
          /\ pc'[q] \in {"rewriteEvents", "writeEvents"} =>
               q = r \/ pc[q] \in {"rewriteEvents", "writeEvents"}
          /\ pc'[q] \in {"readBatches", "publish", "rewriteBatches", "writeBatches"} =>
               pc[q] = pc'[q]
    BY <1>t, <1>6 DEF AppendBatch
  <2>8. UNCHANGED <<record, batch>>
    BY <1>6 DEF AppendBatch
  <2>9. QED
    BY <2>2, <2>3, <2>4, <2>5, <2>6, <2>7, <2>8 DEF ReferenceInv
<1>7. ASSUME NEW r \in Calls, RewriteEvents(r)
      PROVE  ReferenceInv'
  <2>1. batch[r] \in BatchType /\ StoredIn(batches, batch[r].batch_id)
    BY <1>7 DEF RewriteEvents, ReferenceInv, TypeInv, LocalsReady
  <2>2. References(Stamped(snapshot[r], batch[r]), batches)
    BY <1>t, <2>1, StampedReferences DEF ReferenceInv
  <2>3. events' = <<>> \/ events' = Stamped(snapshot[r], batch[r])
    BY <1>7 DEF RewriteEvents
  <2>4. References(events', batches)
    BY <1>e, <2>2, <2>3
  <2>5. UNCHANGED <<batches, batchesTorn, record, snapshot, batch>>
    BY <1>7 DEF RewriteEvents
  <2>6. \A q \in Calls : /\ pc'[q] # pc[q] => pc'[q] \in {"writeEvents", "readAnchored"}
                         /\ q # r => pc'[q] = pc[q]
    BY <1>t, <1>7 DEF RewriteEvents
  <2>7. QED
    BY <2>1, <2>4, <2>5, <2>6 DEF ReferenceInv
<1>8. ASSUME NEW r \in Calls, WriteEvents(r)
      PROVE  ReferenceInv'
  <2>1. batch[r] \in BatchType /\ StoredIn(batches, batch[r].batch_id)
    BY <1>8 DEF WriteEvents, ReferenceInv, TypeInv, LocalsReady
  <2>2. /\ References(Stamped(snapshot[r], batch[r]), batches)
        /\ Stamped(snapshot[r], batch[r]) \in Seq(EventType)
    BY <1>t, <2>1, StampedReferences, StampedProperties DEF ReferenceInv
  <2>3. References(events', batches)
    <3>1. events' \in WriteOver(events, Stamped(snapshot[r], batch[r]))
      BY <1>8 DEF WriteEvents
    <3>2. \A i \in DOMAIN events' :
            \/ \E j \in DOMAIN Stamped(snapshot[r], batch[r]) :
                 events'[i] = Stamped(snapshot[r], batch[r])[j]
            \/ \E j \in DOMAIN events : events'[i] = events[j]
      <4>1. events \in Seq(EventType)
        BY <1>t DEF TypeInv, StoresTyped
      <4>2. QED
        BY <2>2, <3>1, <4>1, WriteOverType
    <3>3. QED
      BY <2>2, <3>2, LinesReferences DEF ReferenceInv
  <2>4. QED
    BY <1>t, <1>8, <2>3 DEF WriteEvents, ReferenceInv
<1>9. ASSUME NEW r \in Calls, ReadAnchored(r)
      PROVE  ReferenceInv'
  BY <1>t, <1>9, <1>e DEF ReadAnchored, ReferenceInv
<1>10. ASSUME NEW r \in Calls, PublishSteps(r)
       PROVE  ReferenceInv'
  BY <1>10 DEF PublishSteps, StartPublish, ReadBatches, PublisherAnswers,
               RewriteBatches, WriteBatches, ReferenceInv
<1>11. ASSUME Crash
       PROVE  ReferenceInv'
  <2>1. batchesTorn' = FALSE
    BY <1>11, Zenon DEF Crash, ReferenceInv
  <2>2. batches' = batches
    <3>1. {q \in Calls : At(q, "writeBatches")} = {}
      BY DEF ReferenceInv
    <3>2. QED
      BY <1>11, <3>1 DEF Crash, AfterCrash
  <2>3. References(events', batches)
    <3>1. CASE events' = events
      BY <3>1 DEF ReferenceInv
    <3>2. CASE \E q \in Calls : /\ At(q, "writeEvents")
                                /\ events' \in Prefixes(Stamped(snapshot[q], batch[q]))
      <4>1. PICK q \in Calls : /\ pc[q] = "writeEvents"
                               /\ events' \in Prefixes(Stamped(snapshot[q], batch[q]))
        BY <3>2
      <4>2. batch[q] \in BatchType /\ StoredIn(batches, batch[q].batch_id)
        BY <4>1 DEF ReferenceInv, TypeInv, LocalsReady
      <4>3. /\ References(Stamped(snapshot[q], batch[q]), batches)
            /\ Stamped(snapshot[q], batch[q]) \in Seq(EventType)
        BY <1>t, <4>2, StampedReferences, StampedProperties DEF ReferenceInv
      <4>4. \A i \in DOMAIN events' : /\ i \in DOMAIN Stamped(snapshot[q], batch[q])
                                      /\ events'[i] = Stamped(snapshot[q], batch[q])[i]
        BY <4>1, <4>3, PrefixType
      <4>5. QED
        BY <4>3, <4>4, LinesReferences
    <3>3. QED
      BY <1>11, <3>1, <3>2 DEF Crash, AfterCrash
  <2>4. \A q \in Calls : pc'[q] \in Settled \cup {"idle"} /\ snapshot'[q] = <<>>
    BY <1>11 DEF Crash, InFlight, Settled
  <2>5. QED
    BY <1>e, <2>1, <2>2, <2>3, <2>4 DEF ReferenceInv, Settled
<1>12. CASE UNCHANGED vars
  BY <1>12 DEF vars, ReferenceInv
<1>13. QED
  BY <1>1, <1>2, <1>3, <1>4, <1>5, <1>6, <1>7, <1>8, <1>9, <1>10, <1>11, <1>12
     DEF Next, AppendSteps, AllSettled

(* Whatever calls overlap, and wherever a crash interrupts them, no stored  *)
(* event refers to a batch that is not stored: anchorPendingEvents persists *)
(* the batch before it rewrites the events.  This needs a store of batches  *)
(* that is only appended to, and no half lines in it.                      *)
THEOREM BatchBeforeReference ==
  ASSUME {"publish", "tear"} \cap Hazards = {}
  PROVE  Spec => []ReferencedBatchExists
<1>1. Init => ReferenceInv
  BY DEF Init, ReferenceInv, References
<1>2. TypeInv /\ ReferenceInv /\ [Next]_vars => ReferenceInv'
  BY ReferenceNext DEF StartPublish
<1>3. ReferenceInv => ReferencedBatchExists
  BY DEF ReferenceInv, References, StoredIn, ReferencedBatchExists
<1>4. QED
  BY TypeCorrect, <1>1, <1>2, <1>3, PTL DEF Spec

\* Nothing has been published, and no process has stopped.
Undisturbed == \A r \in Calls : op[r] # "publish" /\ pc[r] # "crashed"

UndisturbedInv ==
  /\ \A r \in Calls : pc[r] = "idle" => op[r] = Null
  /\ Undisturbed => ReferenceInv

(* What has been disturbed stays so.                                        *)
LEMMA UndisturbedBefore ==
  ASSUME TypeInv, \A r \in Calls : pc[r] = "idle" => op[r] = Null, [Next]_vars,
         Null # "publish"
  PROVE  /\ \A r \in Calls : pc'[r] = "idle" => op'[r] = Null
         /\ Undisturbed' => /\ Undisturbed /\ ~ Crash
                            /\ \A r \in Calls : ~ StartPublish(r)
<1> USE DEF args, Goto, At
<1>t. pc \in [Calls -> Steps] /\ op \in [Calls -> {"append", "publish", Null}]
  BY DEF TypeInv, CallsTyped
<1>1. ASSUME NEW q \in Calls, AppendSteps(q)
      PROVE  /\ \A r \in Calls \ {q} : pc'[r] = pc[r] /\ op'[r] = op[r]
             /\ pc[q] # "crashed" /\ pc'[q] # "idle"
             /\ op'[q] = op[q] \/ pc[q] = "idle"
  <2>1. CASE StartAppend(q)
    BY <1>t, <2>1 DEF StartAppend, MayStart
  <2>2. CASE ReadLatest(q)
    BY <1>t, <2>2 DEF ReadLatest
  <2>3. CASE AppendEvent(q) \/ ReadPending(q)
    BY <1>t, <2>3 DEF AppendEvent, ReadPending
  <2>4. CASE ReadLatestBatch(q) \/ AppendBatch(q)
    BY <1>t, <2>4 DEF ReadLatestBatch, AppendBatch
  <2>5. CASE RewriteEvents(q) \/ WriteEvents(q) \/ ReadAnchored(q)
    BY <1>t, <2>5 DEF RewriteEvents, WriteEvents, ReadAnchored
  <2>6. QED
    BY <1>1, <2>1, <2>2, <2>3, <2>4, <2>5 DEF AppendSteps
<1>2. ASSUME NEW q \in Calls, PublishSteps(q)
      PROVE  /\ \A r \in Calls \ {q} : pc'[r] = pc[r] /\ op'[r] = op[r]
             /\ pc[q] # "crashed" /\ pc'[q] # "idle"
             /\ op'[q] = op[q] \/ pc[q] = "idle"
  <2>1. CASE StartPublish(q)
    BY <1>t, <2>1 DEF StartPublish, MayStart
  <2>2. CASE ReadBatches(q) \/ PublisherAnswers(q)
    BY <1>t, <2>2 DEF ReadBatches, PublisherAnswers
  <2>3. CASE RewriteBatches(q) \/ WriteBatches(q)
    BY <1>t, <2>3 DEF RewriteBatches, WriteBatches
  <2>4. QED
    BY <1>2, <2>1, <2>2, <2>3 DEF PublishSteps
<1>3. ASSUME NEW q \in Calls, StartPublish(q)
      PROVE  op'[q] = "publish"
  BY <1>t, <1>3 DEF StartPublish
<1>4. ASSUME Crash
      PROVE  /\ \E q \in Calls : pc'[q] = "crashed"
             /\ \A r \in Calls : pc'[r] = "idle" => pc[r] = "idle" /\ op'[r] = op[r]
  BY <1>t, <1>4 DEF Crash
<1>d. Undisturbed' => ~ Crash /\ \A r \in Calls : ~ StartPublish(r)
  BY <1>3, <1>4 DEF Undisturbed
<1>5. CASE \E q \in Calls : AppendSteps(q) \/ PublishSteps(q)
  <2>1. PICK q \in Calls : AppendSteps(q) \/ PublishSteps(q)
    BY <1>5
  <2>2. /\ \A r \in Calls \ {q} : pc'[r] = pc[r] /\ op'[r] = op[r]
        /\ pc[q] # "crashed" /\ pc'[q] # "idle"
        /\ op'[q] = op[q] \/ op[q] = Null
    BY <1>1, <1>2, <2>1
  <2>3. \A r \in Calls : pc'[r] = "idle" => op'[r] = Null
    BY <2>2
  <2>4. Undisturbed' => Undisturbed
    BY <2>2 DEF Undisturbed
  <2>5. QED
    BY <1>d, <2>3, <2>4
<1>6. CASE Crash
  BY <1>4, <1>6 DEF Undisturbed
<1>7. CASE UNCHANGED vars
  BY <1>3, <1>4, <1>7 DEF vars, Undisturbed
<1>8. QED
  BY <1>5, <1>6, <1>7 DEF Next, AllSettled

(* Whatever calls overlap, on files that are emptied before they are written *)
(* and with any event ids: as long as nothing is published and no process   *)
(* has stopped, every batch an event refers to is stored.                  *)
THEOREM ReferencedBeforePublication ==
  ASSUME Null # "publish"
  PROVE  Spec => []ReferencedUntilPublished
<1>1. Init => UndisturbedInv
  BY DEF Init, UndisturbedInv, ReferenceInv, References
<1>2. TypeInv /\ UndisturbedInv /\ [Next]_vars => UndisturbedInv'
  <2>1. ASSUME TypeInv, UndisturbedInv, [Next]_vars, Undisturbed'
        PROVE  ReferenceInv'
    BY <2>1, UndisturbedBefore, ReferenceNext DEF UndisturbedInv
  <2>2. QED
    BY <2>1, UndisturbedBefore DEF UndisturbedInv
<1>3. UndisturbedInv => ReferencedUntilPublished
  BY DEF UndisturbedInv, Undisturbed, ReferenceInv, References, StoredIn,
         ReferencedUntilPublished, ReferencedBatchExists
<1>4. QED
  BY TypeCorrect, <1>1, <1>2, <1>3, PTL DEF Spec

-----------------------------------------------------------------------------
(* Stamps agree with events and batches *)

\* Where a call has stored its batch, and where it has stamped its events.
StoredPcs == {"rewriteEvents", "readAnchored", "done", "crashed"}
StampedPcs == {"readAnchored", "done", "crashed"}
EarlyPcs == {"idle", "readLatest", "appendEvent"}

\* A file of events is sound: ids are unique and come from calls that have
\* appended; a stamp is the root of the events that carry it, and the root of
\* the batch the stamping call built.
Sound(file, pcs, built) ==
  /\ \A i, j \in DOMAIN file : file[i].event_id = file[j].event_id => i = j
  /\ \A i \in DOMAIN file : pcs[file[i].event_id] \notin EarlyPcs
  /\ \A i \in DOMAIN file :
       file[i].ledger_batch_id # Null =>
         /\ file[i].ledger_anchor =
              BuildMerkleRoot(Hashes(file, BatchEvents(file, file[i].ledger_batch_id)))
         /\ pcs[file[i].ledger_batch_id] \in StampedPcs
         /\ built[file[i].ledger_batch_id].root_hash = file[i].ledger_anchor

\* A file of batches holds what the calls it is keyed by have built.
Built(file, pcs, built) ==
  \A k \in DOMAIN file : /\ pcs[file[k].batch_id] \in StoredPcs
                         /\ built[file[k].batch_id].root_hash = file[k].root_hash

\* Why RootsMatch is kept: every file that is written back later, however
\* stale, is as sound as the one it replaces.
RootInv ==
  /\ Sound(events, pc, batch) /\ Built(batches, pc, batch)
  /\ \A r \in Calls :
       /\ Sound(snapshot[r], pc, batch) /\ Built(batchSnap[r], pc, batch)
       /\ pc[r] \notin {"writeEvents", "writeBatches"}
       /\ eventId[r] \in {r, Null}
       /\ pc[r] = "appendEvent" => record[r].event_id = r /\ record[r].ledger_batch_id = Null
       /\ pc[r] \in {"appendBatch", "rewriteEvents"} =>
            /\ batch[r].batch_id = r
            /\ batch[r].root_hash = BuildMerkleRoot(Hashes(snapshot[r], Pending(snapshot[r])))
            /\ batch[r].event_ids = EventIds(snapshot[r], Pending(snapshot[r]))

\* Calls only move forwards, and what a call has built stays what it is once
\* its batch is stored.
Forward(pcs, built, pcs2, built2) ==
  \A q \in Calls :
    /\ pcs[q] \notin EarlyPcs => pcs2[q] \notin EarlyPcs
    /\ pcs[q] \in StampedPcs => pcs2[q] \in StampedPcs
    /\ pcs[q] \in StoredPcs => pcs2[q] \in StoredPcs /\ built2[q] = built[q]

(* A file stays sound while calls move forwards.                            *)
LEMMA SoundForward ==
  ASSUME NEW file \in Seq(EventType), NEW pcs, NEW built, NEW pcs2, NEW built2,
         Forward(pcs, built, pcs2, built2), Sound(file, pcs, built)
  PROVE  Sound(file, pcs2, built2)
<1>1. \A i \in DOMAIN file : file[i] \in EventType
  OBVIOUS
<1>2. \A i \in DOMAIN file : /\ file[i].event_id \in Calls
                             /\ file[i].ledger_batch_id \in Calls \cup {Null}
  BY <1>1 DEF EventType
<1>3. QED
  BY <1>2 DEF Sound, Forward, StampedPcs, StoredPcs

LEMMA BuiltForward ==
  ASSUME NEW file \in Seq(BatchType), NEW pcs, NEW built, NEW pcs2, NEW built2,
         Forward(pcs, built, pcs2, built2), Built(file, pcs, built)
  PROVE  Built(file, pcs2, built2)
<1>1. \A k \in DOMAIN file : file[k] \in BatchType
  OBVIOUS
<1>2. \A k \in DOMAIN file : file[k].batch_id \in Calls
  BY <1>1 DEF BatchType
<1>3. QED
  BY <1>2 DEF Built, Forward

(* The root over some positions depends only on the contents there.         *)
LEMMA HashesAgree ==
  ASSUME NEW f, NEW g, NEW I, \A i \in I : f[i].content_hash = g[i].content_hash
  PROVE  Hashes(f, I) = Hashes(g, I)
<1>1. [i \in I |-> f[i].content_hash] = [i \in I |-> g[i].content_hash]
  OBVIOUS
<1>2. QED
  BY <1>1 DEF Hashes

(* A new event, not in a batch yet, leaves the batches of a file alone.     *)
LEMMA SoundAppend ==
  ASSUME NEW file \in Seq(EventType), NEW e \in EventType, NEW pcs, NEW built,
         Sound(file, pcs, built), e.ledger_batch_id = Null,
         \A i \in DOMAIN file : file[i].event_id # e.event_id,
         pcs[e.event_id] \notin EarlyPcs
  PROVE  Sound(Append(file, e), pcs, built)
<1> DEFINE new == Append(file, e)
           n == Len(file) + 1
<1>1. /\ DOMAIN new = DOMAIN file \cup {n} /\ n \notin DOMAIN file
      /\ new[n] = e /\ \A i \in DOMAIN file : new[i] = file[i]
  OBVIOUS
<1> HIDE DEF new, n
<1>2. ASSUME NEW b, b # Null
      PROVE  /\ BatchEvents(new, b) = BatchEvents(file, b)
             /\ Hashes(new, BatchEvents(new, b)) = Hashes(file, BatchEvents(file, b))
  <2>1. BatchEvents(new, b) = BatchEvents(file, b)
    BY <1>1, <1>2 DEF BatchEvents
  <2>2. \A i \in BatchEvents(file, b) : new[i].content_hash = file[i].content_hash
    BY <1>1 DEF BatchEvents
  <2>3. QED
    BY <2>1, <2>2, HashesAgree
<1>3. \A i, j \in DOMAIN new : new[i].event_id = new[j].event_id => i = j
  BY <1>1 DEF Sound
<1>4. \A i \in DOMAIN new : pcs[new[i].event_id] \notin EarlyPcs
  BY <1>1 DEF Sound
<1>5. ASSUME NEW i \in DOMAIN new, new[i].ledger_batch_id # Null
      PROVE  /\ new[i].ledger_anchor =
                  BuildMerkleRoot(Hashes(new, BatchEvents(new, new[i].ledger_batch_id)))
             /\ pcs[new[i].ledger_batch_id] \in StampedPcs
             /\ built[new[i].ledger_batch_id].root_hash = new[i].ledger_anchor
  <2>1. i \in DOMAIN file /\ new[i] = file[i]
    BY <1>1, <1>5
  <2>2. QED
    BY <1>2, <1>5, <2>1 DEF Sound
<1>6. Sound(new, pcs, built)
  BY <1>3, <1>4, <1>5 DEF Sound
<1>7. QED
  BY <1>6 DEF new

(* Stamping the pending events of a sound file with their own root gives a  *)
(* sound file: ids are unique, so exactly the pending events are stamped.   *)
LEMMA SoundStamped ==
  ASSUME NEW file \in Seq(EventType), NEW b \in BatchType, NEW pcs, NEW built,
         Sound(file, pcs, built),
         b.event_ids = EventIds(file, Pending(file)),
         b.root_hash = BuildMerkleRoot(Hashes(file, Pending(file))),
         \A i \in DOMAIN file : file[i].ledger_batch_id # b.batch_id,
         pcs[b.batch_id] \in StampedPcs,
         built[b.batch_id].root_hash = b.root_hash
  PROVE  Sound(Stamped(file, b), pcs, built)
<1> DEFINE new == Stamped(file, b)
<1>1. /\ DOMAIN new = DOMAIN file
      /\ \A i \in DOMAIN file :
           /\ new[i].event_id = file[i].event_id
           /\ new[i].content_hash = file[i].content_hash
           /\ file[i].event_id \in b.event_ids =>
                /\ new[i].ledger_batch_id = b.batch_id
                /\ new[i].ledger_anchor = b.root_hash
           /\ file[i].event_id \notin b.event_ids => new[i] = file[i]
  BY StampedProperties
<1> HIDE DEF new
<1>2. \A i \in DOMAIN file : file[i].event_id \in b.event_ids <=> i \in Pending(file)
  BY DEF EventIds, Pending, Sound
<1>3. b.batch_id # Null
  BY LedgerAssumption DEF BatchType
<1>4. BatchEvents(new, b.batch_id) = Pending(file)
  BY <1>1, <1>2 DEF BatchEvents, Pending
<1>5. Hashes(new, Pending(file)) = Hashes(file, Pending(file))
  <2>1. \A i \in Pending(file) : new[i].content_hash = file[i].content_hash
    BY <1>1 DEF Pending
  <2>2. QED
    BY <2>1, HashesAgree
<1>6. ASSUME NEW c, c # Null, c # b.batch_id
      PROVE  /\ BatchEvents(new, c) = BatchEvents(file, c)
             /\ Hashes(new, BatchEvents(new, c)) = Hashes(file, BatchEvents(file, c))
  <2>1. BatchEvents(new, c) = BatchEvents(file, c)
    BY <1>1, <1>2, <1>6 DEF BatchEvents, Pending
  <2>2. \A i \in BatchEvents(file, c) : new[i].content_hash = file[i].content_hash
    BY <1>1 DEF BatchEvents
  <2>3. QED
    BY <2>1, <2>2, HashesAgree
<1>7. ASSUME NEW i \in DOMAIN new, new[i].ledger_batch_id # Null
      PROVE  /\ new[i].ledger_anchor =
                  BuildMerkleRoot(Hashes(new, BatchEvents(new, new[i].ledger_batch_id)))
             /\ pcs[new[i].ledger_batch_id] \in StampedPcs
             /\ built[new[i].ledger_batch_id].root_hash = new[i].ledger_anchor
  <2>1. CASE i \in Pending(file)
    BY <1>1, <1>2, <1>4, <1>5, <2>1
  <2>2. CASE i \notin Pending(file)
    <3>1. new[i] = file[i] /\ new[i].ledger_batch_id # b.batch_id
      BY <1>1, <1>2, <2>2
    <3>2. QED
      BY <1>1, <1>6, <1>7, <3>1 DEF Sound
  <2>3. QED
    BY <2>1, <2>2
<1>8. Sound(new, pcs, built)
  BY <1>1, <1>7 DEF Sound
<1>9. QED
  BY <1>8 DEF new

(* What an already sound file becomes when the call r steps.                *)
LEMMA RootFrame ==
  ASSUME TypeInv, RootInv, Forward(pc, batch, pc', batch')
  PROVE  /\ Sound(events, pc', batch') /\ Built(batches, pc', batch')
         /\ \A r \in Calls : /\ Sound(snapshot[r], pc', batch')
                             /\ Built(batchSnap[r], pc', batch')
<1>1. /\ events \in Seq(EventType) /\ batches \in Seq(BatchType)
      /\ \A r \in Calls : snapshot[r] \in Seq(EventType) /\ batchSnap[r] \in Seq(BatchType)
  BY DEF TypeInv, StoresTyped, LocalsTyped
<1>2. /\ Sound(events, pc, batch) /\ Built(batches, pc, batch)
      /\ \A r \in Calls : Sound(snapshot[r], pc, batch) /\ Built(batchSnap[r], pc, batch)
  BY DEF RootInv
<1>3. QED
  BY <1>1, <1>2, SoundForward, BuiltForward

LEMMA RootNext ==
  ASSUME {"truncate", "reuse"} \cap Hazards = {}, TypeInv, RootInv, [Next]_vars
  PROVE  RootInv'
<1> USE DEF stores, args, locals, At, Goto
<1>t. /\ events \in Seq(EventType) /\ batches \in Seq(BatchType)
      /\ pc \in [Calls -> Steps]
      /\ eventId \in [Calls -> Calls \cup {Null}]
      /\ record \in [Calls -> EventType \cup {Null}]
      /\ snapshot \in [Calls -> Seq(EventType)]
      /\ batch \in [Calls -> BatchType \cup {Null}]
      /\ batchSnap \in [Calls -> Seq(BatchType)]
  BY DEF TypeInv, StoresTyped, CallsTyped, LocalsTyped
<1>e. Sound(<<>>, pc', batch') /\ Built(<<>>, pc', batch')
  BY DEF Sound, Built
<1>1. ASSUME NEW r \in Calls, StartAppend(r)
      PROVE  RootInv'
  <2>1. Forward(pc, batch, pc', batch')
    BY <1>t, <1>1 DEF StartAppend, MayStart, Forward, EarlyPcs, StampedPcs, StoredPcs
  <2>2. QED
    <3>1. UNCHANGED <<events, batches, record, snapshot, batch, batchSnap>>
      BY <1>1 DEF StartAppend
    <3>2. \A q \in Calls : pc'[q] # pc[q] => pc'[q] = "readLatest"
      BY <1>t, <1>1 DEF StartAppend
    <3>3. \A q \in Calls : eventId'[q] \in {q, Null}
      BY <1>t, <1>1 DEF StartAppend, IdsFor, RootInv
    <3>4. QED
      BY <2>1, <3>1, <3>2, <3>3, RootFrame DEF RootInv
<1>2. ASSUME NEW r \in Calls, ReadLatest(r)
      PROVE  RootInv'
  <2>1. Forward(pc, batch, pc', batch')
    BY <1>t, <1>2 DEF ReadLatest, Forward, EarlyPcs, StampedPcs, StoredPcs
  <2>2. eventId[r] = r
    BY <1>2, LedgerAssumption DEF ReadLatest, RootInv, TypeInv, LocalsReady, AppendPcs
  <2>3. /\ NewRecord(r, events).event_id = r
        /\ NewRecord(r, events).ledger_batch_id = Null
    BY <2>2 DEF NewRecord
  <2>4. record' = [record EXCEPT ![r] = NewRecord(r, events)]
    BY <1>2 DEF ReadLatest
  <2>5. /\ pc' = [pc EXCEPT ![r] = "appendEvent"]
        /\ UNCHANGED <<events, batches, snapshot, batch, batchSnap, eventId>>
    BY <1>2 DEF ReadLatest
  <2>6. \A q \in Calls : pc'[q] = "appendEvent" =>
          record'[q].event_id = q /\ record'[q].ledger_batch_id = Null
    BY <2>3, <2>4, <2>5 DEF RootInv, TypeInv, LocalsTyped, CallsTyped
  <2>7. QED
    BY <1>t, <2>1, <2>5, <2>6, RootFrame DEF RootInv
<1>3. ASSUME NEW r \in Calls, AppendEvent(r)
      PROVE  RootInv'
  <2>1. Forward(pc, batch, pc', batch')
    BY <1>t, <1>3 DEF AppendEvent, Forward, EarlyPcs, StampedPcs, StoredPcs
  <2>2. record[r] \in EventType /\ record[r].event_id = r /\ record[r].ledger_batch_id = Null
    BY <1>3 DEF AppendEvent, RootInv, TypeInv, LocalsReady
  <2>3. Sound(events', pc', batch')
    <3>1. \A i \in DOMAIN events : events[i].event_id # record[r].event_id
      BY <1>3, <2>2 DEF AppendEvent, RootInv, Sound, EarlyPcs
    <3>2. pc'[record[r].event_id] \notin EarlyPcs
      BY <1>t, <1>3, <2>2 DEF AppendEvent, EarlyPcs
    <3>3. Sound(events, pc', batch')
      BY <2>1, RootFrame
    <3>4. Sound(Append(events, record[r]), pc', batch')
      BY <1>t, <2>2, <3>1, <3>2, <3>3, SoundAppend
    <3>5. events' = events \/ events' = Append(events, record[r])
      BY <1>3 DEF AppendEvent, AppendLine
    <3>6. QED
      BY <3>3, <3>4, <3>5
  <2>4. UNCHANGED <<batches, eventId, snapshot, batch, batchSnap>>
    BY <1>3 DEF AppendEvent
  <2>5. \A q \in Calls : /\ pc'[q] # pc[q] => pc'[q] \in {"readPending", "done"}
                         /\ pc'[q] = "appendEvent" => record'[q] = record[q]
    BY <1>t, <1>3 DEF AppendEvent
  <2>6. QED
    BY <2>1, <2>3, <2>4, <2>5, RootFrame DEF RootInv
<1>4. ASSUME NEW r \in Calls, ReadPending(r)
      PROVE  RootInv'
  <2>1. Forward(pc, batch, pc', batch')
    BY <1>t, <1>4 DEF ReadPending, Forward, EarlyPcs, StampedPcs, StoredPcs
  <2>2. UNCHANGED <<events, batches, eventId, batch, batchSnap>>
    BY <1>4 DEF ReadPending
  <2>3. \A q \in Calls :
          /\ pc'[q] # pc[q] => pc'[q] \in {"readLatestBatch", "done"}
          /\ pc'[q] = "appendEvent" => record'[q] = record[q]
          /\ snapshot'[q] = snapshot[q] \/ snapshot'[q] = events
          /\ pc'[q] \in {"appendBatch", "rewriteEvents"} => snapshot'[q] = snapshot[q]
    BY <1>t, <1>4 DEF ReadPending
  <2>4. \A q \in Calls : Sound(snapshot'[q], pc', batch')
    BY <2>1, <2>3, RootFrame
  <2>5. QED
    BY <2>1, <2>2, <2>3, <2>4, RootFrame DEF RootInv
<1>5. ASSUME NEW r \in Calls, ReadLatestBatch(r)
      PROVE  RootInv'
  <2>1. Forward(pc, batch, pc', batch')
    BY <1>t, <1>5 DEF ReadLatestBatch, Forward, EarlyPcs, StampedPcs, StoredPcs
  <2>2. LET b == NewBatch(r, snapshot[r], batches)
        IN  /\ b.batch_id = r
            /\ b.root_hash = BuildMerkleRoot(Hashes(snapshot[r], Pending(snapshot[r])))
            /\ b.event_ids = EventIds(snapshot[r], Pending(snapshot[r]))
    BY DEF NewBatch
  <2>3. batch'[r] = NewBatch(r, snapshot[r], batches)
    BY <1>t, <1>5 DEF ReadLatestBatch
  <2>4. UNCHANGED <<events, batches, eventId, record, snapshot, batchSnap>>
    BY <1>5 DEF ReadLatestBatch
  <2>5. \A q \in Calls : /\ pc'[q] # pc[q] => pc'[q] = "appendBatch"
                         /\ q # r => batch'[q] = batch[q] /\ pc'[q] = pc[q]
    BY <1>t, <1>5 DEF ReadLatestBatch
  <2>6. \A q \in Calls : pc'[q] \in {"appendBatch", "rewriteEvents"} =>
          /\ batch'[q].batch_id = q
          /\ batch'[q].root_hash = BuildMerkleRoot(Hashes(snapshot[q], Pending(snapshot[q])))
          /\ batch'[q].event_ids = EventIds(snapshot[q], Pending(snapshot[q]))
    BY <2>2, <2>3, <2>5 DEF RootInv
  <2>7. QED
    BY <2>1, <2>4, <2>5, <2>6, RootFrame DEF RootInv
<1>6. ASSUME NEW r \in Calls, AppendBatch(r)
      PROVE  RootInv'
  <2>1. Forward(pc, batch, pc', batch')
    BY <1>t, <1>6 DEF AppendBatch, Forward, EarlyPcs, StampedPcs, StoredPcs
  <2>2. batch[r] \in BatchType /\ batch[r].batch_id = r
    BY <1>6 DEF AppendBatch, RootInv, TypeInv, LocalsReady
  <2>3. Built(batches', pc', batch')
    <3>1. Built(batches, pc', batch')
      BY <2>1, RootFrame
    <3>2. Built(Append(batches, batch[r]), pc', batch')
      <4>1. pc'[r] \in StoredPcs /\ batch' = batch
        BY <1>t, <1>6 DEF AppendBatch, StoredPcs
      <4>2. \A k \in DOMAIN Append(batches, batch[r]) :
              \/ k \in DOMAIN batches /\ Append(batches, batch[r])[k] = batches[k]
              \/ Append(batches, batch[r])[k] = batch[r]
        BY <1>t
      <4>3. QED
        BY <2>2, <3>1, <4>1, <4>2 DEF Built
    <3>3. batches' = batches \/ batches' = Append(batches, batch[r])
      BY <1>6 DEF AppendBatch, AppendLine
    <3>4. QED
      BY <3>1, <3>2, <3>3
  <2>4. UNCHANGED <<events, eventId, record, snapshot, batch, batchSnap>>
    BY <1>6 DEF AppendBatch
  <2>5. \A q \in Calls :
          /\ pc'[q] \in {"appendEvent", "writeEvents", "writeBatches"} => pc[q] = pc'[q]
          /\ pc'[q] \in {"appendBatch", "rewriteEvents"} =>
               pc[q] \in {"appendBatch", "rewriteEvents"}
    BY <1>t, <1>6 DEF AppendBatch
  <2>6. QED
    BY <2>1, <2>3, <2>4, <2>5, RootFrame DEF RootInv
<1>7. ASSUME NEW r \in Calls, RewriteEvents(r)
      PROVE  RootInv'
  <2>1. Forward(pc, batch, pc', batch')
    BY <1>t, <1>7 DEF RewriteEvents, Forward, EarlyPcs, StampedPcs, StoredPcs
  <2>2. /\ batch[r] \in BatchType /\ batch[r].batch_id = r
        /\ batch[r].root_hash = BuildMerkleRoot(Hashes(snapshot[r], Pending(snapshot[r])))
        /\ batch[r].event_ids = EventIds(snapshot[r], Pending(snapshot[r]))
    BY <1>7 DEF RewriteEvents, RootInv, TypeInv, LocalsReady
  <2>3. /\ events' = Stamped(snapshot[r], batch[r])
        /\ pc' = [pc EXCEPT ![r] = "readAnchored"]
    BY <1>7 DEF RewriteEvents
  <2>4. Sound(events', pc', batch')
    <3>1. \A i \in DOMAIN snapshot[r] : snapshot[r][i].ledger_batch_id # batch[r].batch_id
      BY <1>7, <2>2, LedgerAssumption DEF RewriteEvents, RootInv, Sound, StampedPcs
    <3>2. Sound(snapshot[r], pc', batch')
      BY <2>1, RootFrame
    <3>3. pc'[batch[r].batch_id] \in StampedPcs
      BY <1>t, <2>2, <2>3 DEF StampedPcs
    <3>4. batch'[batch[r].batch_id].root_hash = batch[r].root_hash
      BY <1>7, <2>2 DEF RewriteEvents
    <3>5. snapshot[r] \in Seq(EventType)
      BY <1>t
    <3>6. QED
      BY <2>2, <2>3, <3>1, <3>2, <3>3, <3>4, <3>5, SoundStamped
  <2>5. UNCHANGED <<batches, eventId, record, snapshot, batch, batchSnap>>
    BY <1>7 DEF RewriteEvents
  <2>6. \A q \in Calls : pc'[q] # pc[q] => pc'[q] = "readAnchored"
    BY <1>t, <2>3
  <2>7. QED
    BY <2>1, <2>4, <2>5, <2>6, RootFrame DEF RootInv
<1>8. ASSUME NEW r \in Calls, WriteEvents(r) \/ WriteBatches(r)
      PROVE  RootInv'
  BY <1>8 DEF WriteEvents, WriteBatches, RootInv
<1>9. ASSUME NEW r \in Calls, ReadAnchored(r)
      PROVE  RootInv'
  <2>1. Forward(pc, batch, pc', batch')
    BY <1>t, <1>9 DEF ReadAnchored, Forward, EarlyPcs, StampedPcs, StoredPcs
  <2>2. UNCHANGED <<events, batches, eventId, batch, batchSnap>>
    BY <1>9 DEF ReadAnchored
  <2>3. \A q \in Calls :
          /\ pc'[q] # pc[q] => pc'[q] = "done"
          /\ pc'[q] = "appendEvent" => record'[q] = record[q]
          /\ snapshot'[q] = snapshot[q] \/ snapshot'[q] = <<>>
          /\ pc'[q] \in {"appendBatch", "rewriteEvents"} => snapshot'[q] = snapshot[q]
    BY <1>t, <1>9 DEF ReadAnchored
  <2>4. \A q \in Calls : Sound(snapshot'[q], pc', batch')
    BY <1>e, <2>1, <2>3, RootFrame
  <2>5. QED
    BY <2>1, <2>2, <2>3, <2>4, RootFrame DEF RootInv
<1>10. ASSUME NEW r \in Calls, StartPublish(r)
      PROVE  RootInv'
  <2>1. Forward(pc, batch, pc', batch')
    BY <1>t, <1>10 DEF StartPublish, MayStart, Forward, EarlyPcs, StampedPcs, StoredPcs
  <2>2. QED
    <3>1. UNCHANGED <<events, batches, eventId, record, snapshot, batch, batchSnap>>
      BY <1>10 DEF StartPublish
    <3>2. \A q \in Calls : pc'[q] # pc[q] => pc'[q] = "readBatches"
      BY <1>t, <1>10 DEF StartPublish
    <3>3. QED
      BY <2>1, <3>1, <3>2, RootFrame DEF RootInv
<1>11. ASSUME NEW r \in Calls, ReadBatches(r)
      PROVE  RootInv'
  <2>1. Forward(pc, batch, pc', batch')
    BY <1>t, <1>11 DEF ReadBatches, Forward, EarlyPcs, StampedPcs, StoredPcs
  <2>2. UNCHANGED <<events, batches, eventId, record, snapshot, batch>>
    BY <1>11 DEF ReadBatches
  <2>3. \A q \in Calls : /\ pc'[q] # pc[q] => pc'[q] \in {"notFound", "publish"}
                         /\ batchSnap'[q] = batchSnap[q] \/ batchSnap'[q] = batches
    BY <1>t, <1>11 DEF ReadBatches
  <2>4. QED
    BY <2>1, <2>2, <2>3, RootFrame DEF RootInv
<1>12. ASSUME NEW r \in Calls, PublisherAnswers(r)
      PROVE  RootInv'
  <2>1. Forward(pc, batch, pc', batch')
    BY <1>t, <1>12 DEF PublisherAnswers, Forward, EarlyPcs, StampedPcs, StoredPcs
  <2>2. QED
    BY <1>t, <1>12, <2>1, RootFrame DEF PublisherAnswers, RootInv
<1>13. ASSUME NEW r \in Calls, RewriteBatches(r)
      PROVE  RootInv'
  <2>1. Forward(pc, batch, pc', batch')
    BY <1>t, <1>13 DEF RewriteBatches, Forward, EarlyPcs, StampedPcs, StoredPcs
  <2>2. /\ batches' = Published(batchSnap[r], r)
        /\ pc' = [pc EXCEPT ![r] = "done"]
    BY <1>13 DEF RewriteBatches
  <2>3. Built(batches', pc', batch')
    <3>1. Built(batchSnap[r], pc', batch')
      BY <2>1, RootFrame
    <3>2. batchSnap[r] \in Seq(BatchType)
      BY <1>t
    <3>3. /\ DOMAIN batches' = DOMAIN batchSnap[r]
          /\ \A k \in DOMAIN batches' : /\ batches'[k].batch_id = batchSnap[r][k].batch_id
                                        /\ batches'[k].root_hash = batchSnap[r][k].root_hash
      BY <2>2, <3>2, PublishedType
    <3>4. QED
      BY <3>1, <3>3 DEF Built
  <2>4. UNCHANGED <<events, eventId, record, snapshot, batch, batchSnap>>
    BY <1>13 DEF RewriteBatches
  <2>5. \A q \in Calls : pc'[q] # pc[q] => pc'[q] = "done"
    BY <1>t, <2>2
  <2>6. QED
    BY <2>1, <2>3, <2>4, <2>5, RootFrame DEF RootInv
<1>14. ASSUME Crash
       PROVE  RootInv'
  <2>1. Forward(pc, batch, pc', batch')
    BY <1>t, <1>14 DEF Crash, InFlight, Settled, Forward, EarlyPcs, StampedPcs, StoredPcs
  <2>2. events' = events /\ batches' = batches
    <3>1. /\ {q \in Calls : At(q, "writeEvents")} = {}
          /\ {q \in Calls : At(q, "writeBatches")} = {}
      BY DEF RootInv
    <3>2. QED
      BY <1>14, <3>1 DEF Crash, AfterCrash
  <2>3. \A q \in Calls : /\ pc'[q] \in Settled \cup {"idle"}
                         /\ snapshot'[q] = <<>> /\ batchSnap'[q] = <<>>
    BY <1>14 DEF Crash, InFlight, Settled
  <2>4. UNCHANGED <<eventId, batch>>
    BY <1>14 DEF Crash
  <2>5. QED
    BY <1>e, <2>1, <2>2, <2>3, <2>4, RootFrame DEF RootInv, Settled
<1>15. CASE UNCHANGED vars
  BY <1>15 DEF vars, RootInv
<1>16. QED
  BY <1>1, <1>2, <1>3, <1>4, <1>5, <1>6, <1>7, <1>8, <1>9, <1>10, <1>11, <1>12,
     <1>13, <1>14, <1>15
     DEF Next, AppendSteps, PublishSteps, AllSettled

LEMMA RootAtInit == Init => RootInv
  BY DEF Init, RootInv, Sound, Built

(* However many calls append, anchor and publish at once on stale copies of *)
(* the files, and wherever a crash stops them, the anchor of a stamped event *)
(* is the Merkle root of the stored events of its batch, and of the batch:  *)
(* no rewrite ever mixes two batches.  This needs files that are replaced in *)
(* one step and event ids that are unique.                                 *)
THEOREM StampsMatchRoots ==
  ASSUME {"truncate", "reuse"} \cap Hazards = {}
  PROVE  Spec => []RootsMatch
<1>1. Init => RootInv
  BY RootAtInit
<1>2. TypeInv /\ RootInv /\ [Next]_vars => RootInv'
  BY RootNext
<1>3. RootInv => RootsMatch
  BY DEF RootInv, Sound, Built, RootsMatch
<1>4. QED
  BY TypeCorrect, <1>1, <1>2, <1>3, PTL DEF Spec

-----------------------------------------------------------------------------
(* Calls that do not overlap *)

PublishPcs == {"readBatches", "publish", "rewriteBatches", "writeBatches"}

\* Call r is what its step says: what it has read is still what is stored, and
\* what it is about to write follows from it.
Fresh(r) ==
  /\ pc[r] \in AppendPcs => op[r] = "append"
  /\ pc[r] \in PublishPcs => op[r] = "publish"
  /\ pc[r] \notin {"writeEvents", "writeBatches"}
  /\ pc[r] = "appendEvent" => record[r] = NewRecord(r, events)
  /\ pc[r] \in {"readLatestBatch", "appendBatch", "rewriteEvents"} => snapshot[r] = events
  /\ pc[r] = "appendBatch" => batch[r] = NewBatch(r, events, batches)
  /\ pc[r] = "rewriteEvents" => batch[r].event_ids = EventIds(events, Pending(events))
  /\ pc[r] \in {"publish", "rewriteBatches"} =>
       /\ batchSnap[r] = batches
       /\ \E k \in DOMAIN batches : batches[k].batch_id = target[r]

\* Where one call is in flight at a time, and files are written in one step,
\* nothing a call has read is stale.
FreshInv ==
  /\ eventsTorn = FALSE /\ batchesTorn = FALSE
  /\ \A q, r \in Calls : InFlight(q) /\ InFlight(r) => q = r
  /\ \A r \in Calls : Fresh(r)

SerialStore == MaxInFlight = 1 /\ {"truncate", "tear"} \cap Hazards = {}

(* The stored batches were built from what is stored, the events stamped.   *)
Appended(r) == events' = Append(events, NewRecord(r, events)) /\ batches' = batches

Batched(r) == events' = events /\ batches' = Append(batches, NewBatch(r, events, batches))

Anchored(b) ==
  /\ b \in BatchType /\ b.event_ids = EventIds(events, Pending(events))
  /\ events' = Stamped(events, b) /\ batches' = batches

Republished(r) ==
  /\ \E k \in DOMAIN batches : batches[k].batch_id = target[r]
  /\ events' = events /\ batches' = Published(batches, r)

Wrote(r) ==
  \/ AppendEvent(r) /\ Appended(r)
  \/ AppendBatch(r) /\ Batched(r)
  \/ RewriteEvents(r) /\ Anchored(batch[r])
  \/ RewriteBatches(r) /\ Republished(r)

(* When call r steps, the others are settled or have not started.           *)
LEMMA OthersRest ==
  ASSUME MaxInFlight = 1, TypeInv, FreshInv, NEW r \in Calls, InFlight(r) \/ MayStart(r),
         \A q \in Calls \ {r} : pc'[q] = pc[q]
  PROVE  /\ \A q \in Calls \ {r} : ~ InFlight(q) /\ Fresh(q)'
         /\ \A p, q \in Calls : InFlight(p)' /\ InFlight(q)' => p = q
<1>1. \A q \in Calls \ {r} : ~ InFlight(q)
  <2>1. CASE InFlight(r)
    BY <2>1 DEF FreshInv
  <2>2. CASE MayStart(r)
    <3> DEFINE F == {q \in Calls : InFlight(q)}
    <3>1. Cardinality(F) < 1
      BY <2>2 DEF MayStart
    <3>2. ASSUME NEW q \in F
          PROVE  FALSE
      <4>1. F = {q}
        BY DEF FreshInv
      <4>2. Cardinality({q}) = 1
        BY FS_Singleton
      <4> HIDE DEF F
      <4>3. QED
        BY <3>1, <4>1, <4>2
    <3>3. QED
      BY <3>2
  <2>3. QED
    BY <2>1, <2>2
<1>2. \A q \in Calls \ {r} : pc'[q] \in Settled \cup {"idle"}
  BY <1>1 DEF InFlight
<1>3. \A q \in Calls \ {r} : Fresh(q)'
  BY <1>2 DEF Fresh, Settled, AppendPcs, PublishPcs
<1>4. QED
  BY <1>1, <1>2, <1>3 DEF InFlight

(* What one step does to the stores, when nothing is stale.                 *)
LEMMA FreshNext ==
  ASSUME SerialStore, TypeInv, FreshInv, [Next]_vars
  PROVE  /\ FreshInv'
         /\ \/ UNCHANGED <<events, batches>>
            \/ \E r \in Calls : Wrote(r)
<1> USE DEF SerialStore, stores, args, locals, At, Goto
<1>t. /\ events \in Seq(EventType) /\ batches \in Seq(BatchType)
      /\ pc \in [Calls -> Steps] /\ op \in [Calls -> {"append", "publish", Null}]
      /\ target \in [Calls -> Calls \cup {Null}]
      /\ record \in [Calls -> EventType \cup {Null}]
      /\ snapshot \in [Calls -> Seq(EventType)]
      /\ batch \in [Calls -> BatchType \cup {Null}]
      /\ batchSnap \in [Calls -> Seq(BatchType)]
  BY DEF TypeInv, StoresTyped, CallsTyped, LocalsTyped
<1>f. eventsTorn = FALSE /\ batchesTorn = FALSE /\ \A r \in Calls : Fresh(r)
  BY DEF FreshInv
<1>q. ASSUME NEW r \in Calls, InFlight(r) \/ MayStart(r), \A q \in Calls \ {r} : pc'[q] = pc[q],
             Fresh(r)', eventsTorn' = FALSE, batchesTorn' = FALSE
      PROVE  FreshInv'
  BY <1>q, OthersRest DEF FreshInv
<1>p. ASSUME NEW r \in Calls, pc[r] \in AppendPcs \cup PublishPcs
      PROVE  InFlight(r)
  BY <1>p DEF InFlight, Settled, AppendPcs, PublishPcs
<1>1. ASSUME NEW r \in Calls, StartAppend(r)
      PROVE  FreshInv' /\ UNCHANGED <<events, batches>>
  <2>1. pc' = [pc EXCEPT ![r] = "readLatest"] /\ op' = [op EXCEPT ![r] = "append"]
        /\ MayStart(r) /\ UNCHANGED <<events, batches, eventsTorn, batchesTorn>>
    BY <1>1 DEF StartAppend
  <2>2. Fresh(r)'
    BY <1>t, <2>1 DEF Fresh, AppendPcs, PublishPcs
  <2>3. QED
    BY <1>t, <1>f, <1>q, <2>1, <2>2
<1>2. ASSUME NEW r \in Calls, ReadLatest(r)
      PROVE  FreshInv' /\ UNCHANGED <<events, batches>>
  <2>1. /\ pc[r] = "readLatest" /\ pc' = [pc EXCEPT ![r] = "appendEvent"]
        /\ record' = [record EXCEPT ![r] = NewRecord(r, events)]
        /\ UNCHANGED <<events, batches, eventsTorn, batchesTorn, op, eventId>>
    BY <1>2 DEF ReadLatest
  <2>2. NewRecord(r, events)' = NewRecord(r, events)
    BY <2>1 DEF NewRecord
  <2>3. record'[r] = NewRecord(r, events)' /\ op'[r] = "append"
    BY <1>t, <1>f, <2>1, <2>2 DEF Fresh, AppendPcs
  <2>4. Fresh(r)'
    BY <1>t, <2>1, <2>3 DEF Fresh, AppendPcs, PublishPcs
  <2>5. QED
    BY <1>t, <1>f, <1>p, <1>q, <2>1, <2>4 DEF AppendPcs
<1>3. ASSUME NEW r \in Calls, AppendEvent(r)
      PROVE  FreshInv' /\ AppendEvent(r) /\ Appended(r)
  <2>1. /\ pc[r] = "appendEvent" /\ record[r] = NewRecord(r, events)
        /\ pc' = [pc EXCEPT ![r] = "readPending"] \/ pc' = [pc EXCEPT ![r] = "done"]
        /\ events' = Append(events, record[r])
        /\ eventsTorn' = FALSE /\ UNCHANGED <<batches, batchesTorn, op>>
    BY <1>3, <1>f DEF AppendEvent, AppendLine, Fresh
  <2>2. Fresh(r)'
    BY <1>t, <1>f, <2>1 DEF Fresh, AppendPcs, PublishPcs
  <2>3. QED
    BY <1>3, <1>t, <1>f, <1>p, <1>q, <2>1, <2>2 DEF AppendPcs, Appended
<1>4. ASSUME NEW r \in Calls, ReadPending(r)
      PROVE  FreshInv' /\ UNCHANGED <<events, batches>>
  <2>1. /\ pc[r] = "readPending"
        /\ \/ pc' = [pc EXCEPT ![r] = "done"]
           \/ pc' = [pc EXCEPT ![r] = "readLatestBatch"]
              /\ snapshot' = [snapshot EXCEPT ![r] = events]
        /\ UNCHANGED <<events, batches, eventsTorn, batchesTorn, op>>
    BY <1>4 DEF ReadPending
  <2>2. Fresh(r)'
    BY <1>t, <1>f, <2>1 DEF Fresh, AppendPcs, PublishPcs
  <2>3. QED
    BY <1>t, <1>f, <1>p, <1>q, <2>1, <2>2 DEF AppendPcs
<1>5. ASSUME NEW r \in Calls, ReadLatestBatch(r)
      PROVE  FreshInv' /\ UNCHANGED <<events, batches>>
  <2>1. /\ pc[r] = "readLatestBatch" /\ pc' = [pc EXCEPT ![r] = "appendBatch"]
        /\ batch' = [batch EXCEPT ![r] = NewBatch(r, snapshot[r], batches)]
        /\ UNCHANGED <<events, batches, eventsTorn, batchesTorn, op, snapshot>>
    BY <1>5 DEF ReadLatestBatch
  <2>2. snapshot'[r] = events' /\ op'[r] = "append"
    BY <1>f, <2>1 DEF Fresh, AppendPcs
  <2>3. batch'[r] = NewBatch(r, events', batches')
    BY <1>t, <2>1, <2>2
  <2>4. Fresh(r)'
    BY <1>t, <2>1, <2>2, <2>3 DEF Fresh, AppendPcs, PublishPcs
  <2>5. QED
    BY <1>t, <1>f, <1>p, <1>q, <2>1, <2>4 DEF AppendPcs
<1>6. ASSUME NEW r \in Calls, AppendBatch(r)
      PROVE  FreshInv' /\ AppendBatch(r) /\ Batched(r)
  <2>1. /\ pc[r] = "appendBatch" /\ pc' = [pc EXCEPT ![r] = "rewriteEvents"]
        /\ batches' = Append(batches, batch[r]) /\ batch[r] = NewBatch(r, events, batches)
        /\ snapshot[r] = events /\ op[r] = "append" /\ batchesTorn' = FALSE
        /\ UNCHANGED <<events, eventsTorn, op, snapshot, batch>>
    BY <1>6, <1>f DEF AppendBatch, AppendLine, Fresh, AppendPcs
  <2>2. batch'[r].event_ids = EventIds(events', Pending(events'))
    BY <2>1 DEF NewBatch
  <2>3. Fresh(r)'
    BY <1>t, <2>1, <2>2 DEF Fresh, AppendPcs, PublishPcs
  <2>4. QED
    BY <1>6, <1>t, <1>f, <1>p, <1>q, <2>1, <2>3 DEF AppendPcs, Batched
<1>7. ASSUME NEW r \in Calls, RewriteEvents(r)
      PROVE  FreshInv' /\ RewriteEvents(r) /\ Anchored(batch[r])
  <2>1. /\ pc[r] = "rewriteEvents" /\ pc' = [pc EXCEPT ![r] = "readAnchored"]
        /\ events' = Stamped(snapshot[r], batch[r]) /\ eventsTorn' = FALSE
        /\ UNCHANGED <<batches, batchesTorn, op>>
    BY <1>7 DEF RewriteEvents
  <2>2. /\ snapshot[r] = events /\ op[r] = "append" /\ batch[r] \in BatchType
        /\ batch[r].event_ids = EventIds(events, Pending(events))
    BY <1>f, <2>1 DEF Fresh, AppendPcs, TypeInv, LocalsReady
  <2>3. Fresh(r)'
    BY <1>t, <2>1, <2>2 DEF Fresh, AppendPcs, PublishPcs
  <2>4. QED
    BY <1>7, <1>t, <1>f, <1>p, <1>q, <2>1, <2>2, <2>3 DEF AppendPcs, Anchored
<1>8. ASSUME NEW r \in Calls, ReadAnchored(r)
      PROVE  FreshInv' /\ UNCHANGED <<events, batches>>
  <2>1. /\ pc[r] = "readAnchored" /\ pc' = [pc EXCEPT ![r] = "done"]
        /\ UNCHANGED <<events, batches, eventsTorn, batchesTorn>>
    BY <1>8 DEF ReadAnchored
  <2>2. Fresh(r)'
    BY <1>t, <2>1 DEF Fresh, AppendPcs, PublishPcs
  <2>3. QED
    BY <1>t, <1>f, <1>p, <1>q, <2>1, <2>2 DEF AppendPcs
<1>9. ASSUME NEW r \in Calls, WriteEvents(r) \/ WriteBatches(r)
      PROVE  FALSE
  BY <1>f, <1>9 DEF WriteEvents, WriteBatches, Fresh
<1>10. ASSUME NEW r \in Calls, StartPublish(r)
       PROVE  FreshInv' /\ UNCHANGED <<events, batches>>
  <2>1. pc' = [pc EXCEPT ![r] = "readBatches"] /\ op' = [op EXCEPT ![r] = "publish"]
        /\ MayStart(r) /\ UNCHANGED <<events, batches, eventsTorn, batchesTorn>>
    BY <1>10 DEF StartPublish
  <2>2. Fresh(r)'
    BY <1>t, <2>1 DEF Fresh, AppendPcs, PublishPcs
  <2>3. QED
    BY <1>t, <1>f, <1>q, <2>1, <2>2
<1>11. ASSUME NEW r \in Calls, ReadBatches(r)
       PROVE  FreshInv' /\ UNCHANGED <<events, batches>>
  <2>1. /\ pc[r] = "readBatches" /\ UNCHANGED <<events, batches, eventsTorn, batchesTorn, op, target>>
        /\ \/ pc' = [pc EXCEPT ![r] = "notFound"]
           \/ /\ pc' = [pc EXCEPT ![r] = "publish"] /\ batchSnap' = [batchSnap EXCEPT ![r] = batches]
              /\ GetBatch(batches, target[r]) # Null
    BY <1>11 DEF ReadBatches
  <2>2. GetBatch(batches, target[r]) # Null => \E k \in DOMAIN batches : batches[k].batch_id = target[r]
    BY DEF GetBatch
  <2>3. Fresh(r)'
    BY <1>t, <1>f, <2>1, <2>2 DEF Fresh, AppendPcs, PublishPcs
  <2>4. QED
    BY <1>t, <1>f, <1>p, <1>q, <2>1, <2>3 DEF PublishPcs
<1>12. ASSUME NEW r \in Calls, PublisherAnswers(r)
       PROVE  FreshInv' /\ UNCHANGED <<events, batches>>
  <2>1. /\ pc[r] = "publish"
        /\ pc' = [pc EXCEPT ![r] = "rewriteBatches"] \/ pc' = [pc EXCEPT ![r] = "failed"]
        /\ UNCHANGED <<events, batches, eventsTorn, batchesTorn, op, target, batchSnap>>
    BY <1>12 DEF PublisherAnswers
  <2>2. Fresh(r)'
    BY <1>t, <1>f, <2>1 DEF Fresh, AppendPcs, PublishPcs
  <2>3. QED
    BY <1>t, <1>f, <1>p, <1>q, <2>1, <2>2 DEF PublishPcs
<1>13. ASSUME NEW r \in Calls, RewriteBatches(r)
       PROVE  FreshInv' /\ RewriteBatches(r) /\ Republished(r)
  <2>1. /\ pc[r] = "rewriteBatches" /\ pc' = [pc EXCEPT ![r] = "done"]
        /\ batches' = Published(batchSnap[r], r) /\ batchesTorn' = FALSE
        /\ UNCHANGED <<events, eventsTorn>>
    BY <1>13 DEF RewriteBatches
  <2>2. batchSnap[r] = batches /\ \E k \in DOMAIN batches : batches[k].batch_id = target[r]
    BY <1>f, <2>1 DEF Fresh
  <2>3. Fresh(r)'
    BY <1>t, <2>1 DEF Fresh, AppendPcs, PublishPcs
  <2>4. QED
    BY <1>13, <1>t, <1>f, <1>p, <1>q, <2>1, <2>2, <2>3 DEF PublishPcs, Republished
<1>14. ASSUME Crash
       PROVE  FreshInv' /\ UNCHANGED <<events, batches>>
  <2>1. events' = events /\ batches' = batches
    <3>1. /\ {q \in Calls : At(q, "writeEvents")} = {}
          /\ {q \in Calls : At(q, "writeBatches")} = {}
      BY <1>f DEF Fresh
    <3>2. QED
      BY <1>14, <3>1 DEF Crash, AfterCrash
  <2>2. eventsTorn' = FALSE /\ batchesTorn' = FALSE
    BY <1>14, <1>f, Zenon DEF Crash
  <2>3. \A q \in Calls : pc'[q] \in Settled \cup {"idle"}
    BY <1>14 DEF Crash, InFlight, Settled
  <2>4. \A q \in Calls : Fresh(q)' /\ ~ InFlight(q)'
    BY <2>3 DEF Fresh, InFlight, Settled, AppendPcs, PublishPcs
  <2>5. QED
    BY <2>1, <2>2, <2>4 DEF FreshInv
<1>15. CASE UNCHANGED vars
  BY <1>15 DEF vars, FreshInv, Fresh, InFlight, NewRecord
<1>16. FreshInv'
  BY <1>1, <1>2, <1>3, <1>4, <1>5, <1>6, <1>7, <1>8, <1>9, <1>10, <1>11, <1>12,
     <1>13, <1>14, <1>15
     DEF Next, AppendSteps, PublishSteps, AllSettled
<1>17. ASSUME NEW r \in Calls,
              AppendEvent(r) \/ AppendBatch(r) \/ RewriteEvents(r) \/ RewriteBatches(r)
       PROVE  Wrote(r)
  BY <1>3, <1>6, <1>7, <1>13, <1>17 DEF Wrote
<1>18. (\A r \in Calls : /\ ~ AppendEvent(r) /\ ~ AppendBatch(r)
                         /\ ~ RewriteEvents(r) /\ ~ RewriteBatches(r))
         => UNCHANGED <<events, batches>>
  BY <1>1, <1>2, <1>4, <1>5, <1>8, <1>9, <1>10, <1>11, <1>12, <1>14, <1>15
     DEF Next, AppendSteps, PublishSteps, AllSettled, vars
<1>19. QED
  BY <1>16, <1>17, <1>18

(* What the steps that write do, when nothing is stale.                     *)
LEMMA WriteEffects ==
  ASSUME SerialStore, TypeInv, FreshInv, NEW r \in Calls
  PROVE  /\ AppendEvent(r) => Appended(r)
         /\ AppendBatch(r) => Batched(r)
         /\ RewriteEvents(r) => Anchored(batch[r])
         /\ RewriteBatches(r) => Republished(r)
<1> USE DEF At, SerialStore
<1>f. Fresh(r) /\ eventsTorn = FALSE /\ batchesTorn = FALSE
  BY DEF FreshInv
<1>1. AppendEvent(r) => Appended(r)
  BY <1>f DEF AppendEvent, AppendLine, Fresh, Appended
<1>2. AppendBatch(r) => Batched(r)
  BY <1>f DEF AppendBatch, AppendLine, Fresh, Batched
<1>3. RewriteEvents(r) => Anchored(batch[r])
  BY <1>f DEF RewriteEvents, Fresh, Anchored, TypeInv, LocalsReady
<1>4. RewriteBatches(r) => Republished(r)
  BY <1>f DEF RewriteBatches, Fresh, Republished
<1>5. QED
  BY <1>1, <1>2, <1>3, <1>4

LEMMA FreshHolds ==
  ASSUME SerialStore
  PROVE  Spec => [](TypeInv /\ FreshInv)
<1>1. Init => FreshInv
  BY DEF Init, FreshInv, Fresh, InFlight, AppendPcs, PublishPcs
<1>2. QED
  BY TypeCorrect, FreshNext, <1>1, PTL DEF Spec

(* Which steps end a call, and what they leave of its arguments.            *)
LEMMA DoneFrame ==
  ASSUME SerialStore, TypeInv, FreshInv, [Next]_vars, NEW r \in Calls, pc'[r] = "done"
  PROVE  /\ op'[r] = op[r] /\ target'[r] = target[r]
         /\ op[r] = "publish" => pc[r] = "done" \/ RewriteBatches(r)
<1> USE DEF args, Goto, At
<1>t. pc \in [Calls -> Steps] /\ op \in [Calls -> {"append", "publish", Null}]
      /\ target \in [Calls -> Calls \cup {Null}]
  BY DEF TypeInv, CallsTyped
<1>f. Fresh(r)
  BY DEF FreshInv
<1>1. ASSUME NEW q \in Calls, AppendSteps(q)
      PROVE  /\ op'[r] = op[r] /\ target'[r] = target[r]
             /\ op[r] = "publish" => pc[r] = "done"
  <2>1. CASE q = r
    BY <1>t, <1>f, <1>1, <2>1
       DEF AppendSteps, StartAppend, ReadLatest, AppendEvent, ReadPending, ReadLatestBatch,
           AppendBatch, RewriteEvents, WriteEvents, ReadAnchored, Fresh, AppendPcs
  <2>2. CASE q # r
    BY <1>t, <1>1, <2>2
       DEF AppendSteps, StartAppend, ReadLatest, AppendEvent, ReadPending, ReadLatestBatch,
           AppendBatch, RewriteEvents, WriteEvents, ReadAnchored
  <2>3. QED
    BY <2>1, <2>2
<1>2. ASSUME NEW q \in Calls, PublishSteps(q)
      PROVE  /\ op'[r] = op[r] /\ target'[r] = target[r]
             /\ pc[r] = "done" \/ RewriteBatches(r)
  <2>1. CASE q = r
    <3>1. ~ WriteBatches(r)
      BY <1>f DEF WriteBatches, Fresh
    <3>2. QED
      BY <1>t, <1>2, <2>1, <3>1
         DEF PublishSteps, StartPublish, ReadBatches, PublisherAnswers, RewriteBatches
  <2>2. CASE q # r
    BY <1>t, <1>2, <2>2
       DEF PublishSteps, StartPublish, ReadBatches, PublisherAnswers, RewriteBatches,
           WriteBatches
  <2>3. QED
    BY <2>1, <2>2
<1>3. CASE Crash
  BY <1>t, <1>3 DEF Crash
<1>4. CASE UNCHANGED vars
  BY <1>4 DEF vars
<1>5. QED
  BY <1>1, <1>2, <1>3, <1>4 DEF Next, AllSettled

(* A publication touches one batch, the first with the target's id, and of  *)
(* that batch only what it was published as.                               *)
LEMMA PublishedProperties ==
  ASSUME NEW file \in Seq(BatchType), NEW r \in Calls
  PROVE  \A k \in DOMAIN file :
           /\ Published(file, r)[k].batch_id = file[k].batch_id
           /\ Published(file, r)[k].previous_batch_anchor = file[k].previous_batch_anchor
           /\ Published(file, r)[k].batch_anchor = file[k].batch_anchor
           /\ Published(file, r)[k].blockchain_tx \in {file[k].blockchain_tx, r}
<1>1. \A k \in DOMAIN file : file[k] \in BatchType
  OBVIOUS
<1>2. \A k \in DOMAIN file :
        Published(file, r)[k] \in {file[k], [file[k] EXCEPT !.blockchain_tx = r]}
  BY DEF Published
<1>3. QED
  BY <1>1, <1>2 DEF BatchType

(* ... and that batch is marked as published.                               *)
LEMMA TargetPublished ==
  ASSUME NEW file \in Seq(BatchType), NEW r \in Calls,
         \E k \in DOMAIN file : file[k].batch_id = target[r]
  PROVE  \E k \in DOMAIN Published(file, r) :
           /\ Published(file, r)[k].batch_id = target[r]
           /\ Published(file, r)[k].blockchain_tx = r
<1> DEFINE I == {i \in DOMAIN file : file[i].batch_id = target[r]}
<1>1. I \in SUBSET Nat /\ I # {} /\ I \subseteq DOMAIN file
  OBVIOUS
<1>2. Min(I) \in I
  BY <1>1, MinIsIn
<1>3. file[Min(I)] \in BatchType /\ Min(I) \in DOMAIN file
  BY <1>1, <1>2
<1>4. Published(file, r)[Min(I)] = [file[Min(I)] EXCEPT !.blockchain_tx = r]
      /\ DOMAIN Published(file, r) = DOMAIN file
  BY <1>3 DEF Published
<1>5. QED
  BY <1>2, <1>3, <1>4 DEF BatchType

(* Where calls do not overlap, a publication that was reported as stored    *)
(* stays on its batch: later batches are added behind it, later             *)
(* publications, and crashes, leave it published.                          *)
THEOREM PublicationStays ==
  ASSUME SerialStore
  PROVE  Spec => []PublicationKept
<1> USE DEF At
<1>1. Init => PublicationKept
  BY DEF Init, PublicationKept
<1>2. ASSUME TypeInv, FreshInv, PublicationKept, [Next]_vars
      PROVE  PublicationKept'
  <2>t. batches \in Seq(BatchType)
    BY <1>2 DEF TypeInv, StoresTyped
  <2>1. SUFFICES ASSUME NEW r \in Calls, pc'[r] = "done", op'[r] = "publish"
                 PROVE  \E k \in DOMAIN batches' :
                          batches'[k].batch_id = target'[r] /\ batches'[k].blockchain_tx # Null
    BY DEF PublicationKept
  <2>2. /\ op[r] = "publish" /\ target'[r] = target[r]
        /\ pc[r] = "done" \/ RewriteBatches(r)
    BY <1>2, <2>1, DoneFrame
  <2>3. CASE RewriteBatches(r)
    <3>1. pc[r] = "rewriteBatches" /\ batches' = Published(batchSnap[r], r)
      BY <2>3 DEF RewriteBatches, SerialStore
    <3>2. batchSnap[r] = batches /\ \E k \in DOMAIN batches : batches[k].batch_id = target[r]
      BY <1>2, <3>1 DEF FreshInv, Fresh
    <3>3. QED
      BY <2>t, <2>2, <3>1, <3>2, TargetPublished, LedgerAssumption
  <2>4. CASE pc[r] = "done"
    <3>1. PICK k \in DOMAIN batches :
            batches[k].batch_id = target[r] /\ batches[k].blockchain_tx # Null
      BY <1>2, <2>2, <2>4 DEF PublicationKept, Whole, FreshInv, Fresh
    <3>2. CASE batches' = batches
      BY <2>2, <3>1, <3>2
    <3>3. ASSUME NEW q \in Calls, batches' = Append(batches, NewBatch(q, events, batches))
          PROVE  k \in DOMAIN batches' /\ batches'[k] = batches[k]
      BY <2>t, <3>3
    <3>4. ASSUME NEW q \in Calls, batches' = Published(batches, q)
          PROVE  /\ k \in DOMAIN batches' /\ batches'[k].batch_id = batches[k].batch_id
                 /\ batches'[k].blockchain_tx # Null
      BY <2>t, <3>1, <3>4, PublishedType, PublishedProperties, LedgerAssumption
    <3>5. QED
      BY <1>2, <2>2, <3>1, <3>2, <3>3, <3>4, FreshNext
         DEF Wrote, Appended, Batched, Anchored, Republished
  <2>5. QED
    BY <2>2, <2>3, <2>4
<1>3. QED
  BY FreshHolds, <1>1, <1>2, PTL DEF Spec

(* A stamp leaves the place of an event in the chain alone.                 *)
LEMMA StampedLinks ==
  ASSUME NEW file \in Seq(EventType), NEW b \in BatchType
  PROVE  /\ DOMAIN Stamped(file, b) = DOMAIN file
         /\ \A i \in DOMAIN file :
              /\ Stamped(file, b)[i].sequence = file[i].sequence
              /\ Stamped(file, b)[i].previous_anchor = file[i].previous_anchor
              /\ Stamped(file, b)[i].chain_anchor = file[i].chain_anchor
<1>1. \A i \in DOMAIN file : file[i] \in EventType
  OBVIOUS
<1>2. /\ DOMAIN Stamped(file, b) = DOMAIN file
      /\ \A i \in DOMAIN file : Stamped(file, b)[i] \in {file[i], Stamp(file[i], b)}
  BY DEF Stamped
<1>3. \A e \in EventType : /\ Stamp(e, b).sequence = e.sequence
                           /\ Stamp(e, b).previous_anchor = e.previous_anchor
                           /\ Stamp(e, b).chain_anchor = e.chain_anchor
  BY DEF Stamp, EventType
<1>4. QED
  BY <1>1, <1>2, <1>3

(* An anchoring that nothing is stale for leaves no event pending, and an   *)
(* event whose id is its own keeps the stamp it has.                       *)
LEMMA AnchoredStamps ==
  ASSUME events \in Seq(EventType), NEW b, Anchored(b)
  PROVE  /\ DOMAIN events' = DOMAIN events
         /\ \A i \in DOMAIN events :
              /\ events'[i].ledger_batch_id # Null
              /\ events'[i].content_hash = events[i].content_hash
              /\ (/\ events[i].ledger_batch_id # Null
                  /\ \A j \in DOMAIN events : events[i].event_id = events[j].event_id => i = j)
                 => events'[i] = events[i]
<1>1. b \in BatchType /\ events' = Stamped(events, b)
      /\ b.event_ids = {events[i].event_id : i \in Pending(events)}
  BY DEF Anchored, EventIds
<1>2. b.batch_id # Null
  BY <1>1, LedgerAssumption DEF BatchType
<1>3. DOMAIN events' = DOMAIN events
  BY <1>1, StampedProperties
<1>4. ASSUME NEW i \in DOMAIN events
      PROVE  /\ events'[i].ledger_batch_id # Null
             /\ events'[i].content_hash = events[i].content_hash
             /\ (/\ events[i].ledger_batch_id # Null
                 /\ \A j \in DOMAIN events : events[i].event_id = events[j].event_id => i = j)
                => events'[i] = events[i]
  <2>1. CASE events[i].event_id \in b.event_ids
    <3>1. /\ events'[i].ledger_batch_id = b.batch_id
          /\ events'[i].content_hash = events[i].content_hash
      BY <1>1, <2>1, StampedProperties
    <3>2. PICK j \in Pending(events) : events[i].event_id = events[j].event_id
      BY <1>1, <2>1
    <3>3. j \in DOMAIN events /\ events[j].ledger_batch_id = Null
      BY <3>2 DEF Pending
    <3>4. QED
      BY <1>2, <3>1, <3>2, <3>3
  <2>2. CASE events[i].event_id \notin b.event_ids
    <3>1. events'[i] = events[i]
      BY <1>1, <2>2, StampedProperties
    <3>2. i \notin Pending(events)
      BY <1>1, <2>2
    <3>3. QED
      BY <3>1, <3>2 DEF Pending
  <2>3. QED
    BY <2>1, <2>2
<1>5. QED
  BY <1>3, <1>4

(* The records that are appended continue the chains.                       *)
LEMMA ChainsNext ==
  ASSUME SerialStore, TypeInv, FreshInv, ChainsIntact, [Next]_vars
  PROVE  ChainsIntact'
<1>t. events \in Seq(EventType) /\ batches \in Seq(BatchType)
  BY DEF TypeInv, StoresTyped
<1>1. CASE UNCHANGED <<events, batches>>
  BY <1>1 DEF ChainsIntact, EventsChained, BatchesChained
<1>2. ASSUME NEW r \in Calls, Appended(r)
      PROVE  ChainsIntact'
  <2> DEFINE n == Len(events) + 1
             e == NewRecord(r, events)
  <2>1. /\ DOMAIN events' = DOMAIN events \cup {n} /\ n \notin DOMAIN events
        /\ events'[n] = e /\ \A i \in DOMAIN events : events'[i] = events[i]
        /\ DOMAIN events = 1 .. Len(events) /\ Len(events) \in Nat
    BY <1>t, <1>2 DEF Appended
  <2>2. /\ e.sequence = n
        /\ e.previous_anchor = IF n = 1 THEN <<>> ELSE events[n - 1].chain_anchor
    <3>1. CASE events = <<>>
      BY <3>1 DEF NewRecord
    <3>2. CASE events # <<>>
      <4>1. Len(events) \in DOMAIN events /\ n # 1 /\ n - 1 = Len(events)
        BY <1>t, <3>2
      <4>2. events[Len(events)].sequence = Len(events)
        BY <4>1 DEF ChainsIntact, EventsChained
      <4>3. QED
        BY <3>2, <4>1, <4>2 DEF NewRecord
    <3>3. QED
      BY <3>1, <3>2
  <2> HIDE DEF n, e
  <2>3. \A i \in DOMAIN events : i # 1 => i - 1 \in DOMAIN events
    BY <2>1
  <2>4. n # 1 => n - 1 \in DOMAIN events
    BY <2>1 DEF n
  <2>5. EventsChained'
    BY <2>1, <2>2, <2>3, <2>4 DEF ChainsIntact, EventsChained
  <2>6. QED
    BY <1>2, <2>5 DEF ChainsIntact, BatchesChained, Appended
<1>3. ASSUME NEW r \in Calls, Batched(r)
      PROVE  ChainsIntact'
  <2> DEFINE n == Len(batches) + 1
             b == NewBatch(r, events, batches)
  <2>1. /\ DOMAIN batches' = DOMAIN batches \cup {n} /\ n \notin DOMAIN batches
        /\ batches'[n] = b /\ \A k \in DOMAIN batches : batches'[k] = batches[k]
        /\ DOMAIN batches = 1 .. Len(batches) /\ Len(batches) \in Nat
    BY <1>t, <1>3 DEF Batched
  <2>2. b.previous_batch_anchor = IF n = 1 THEN <<>> ELSE batches[n - 1].batch_anchor
    BY <1>t DEF NewBatch
  <2> HIDE DEF n, b
  <2>3. \A k \in DOMAIN batches : k # 1 => k - 1 \in DOMAIN batches
    BY <2>1
  <2>4. n # 1 => n - 1 \in DOMAIN batches
    BY <2>1 DEF n
  <2>5. BatchesChained'
    BY <2>1, <2>2, <2>3, <2>4 DEF ChainsIntact, BatchesChained
  <2>6. QED
    BY <1>3, <2>5 DEF ChainsIntact, EventsChained, Batched
<1>4. ASSUME NEW b, Anchored(b)
      PROVE  ChainsIntact'
  <2>1. /\ DOMAIN events' = DOMAIN events
        /\ \A i \in DOMAIN events :
             /\ events'[i].sequence = events[i].sequence
             /\ events'[i].previous_anchor = events[i].previous_anchor
             /\ events'[i].chain_anchor = events[i].chain_anchor
    BY <1>t, <1>4, StampedLinks DEF Anchored
  <2>2. \A i \in DOMAIN events : i # 1 => i - 1 \in DOMAIN events
    BY <1>t
  <2>3. EventsChained'
    BY <2>1, <2>2 DEF ChainsIntact, EventsChained
  <2>4. QED
    BY <1>4, <2>3 DEF ChainsIntact, BatchesChained, Anchored
<1>5. ASSUME NEW r \in Calls, Republished(r)
      PROVE  ChainsIntact'
  <2>1. /\ DOMAIN batches' = DOMAIN batches
        /\ \A k \in DOMAIN batches :
             /\ batches'[k].previous_batch_anchor = batches[k].previous_batch_anchor
             /\ batches'[k].batch_anchor = batches[k].batch_anchor
    BY <1>t, <1>5, PublishedType, PublishedProperties DEF Republished
  <2>2. \A k \in DOMAIN batches : k # 1 => k - 1 \in DOMAIN batches
    BY <1>t
  <2>3. BatchesChained'
    BY <2>1, <2>2 DEF ChainsIntact, BatchesChained
  <2>4. QED
    BY <1>5, <2>3 DEF ChainsIntact, EventsChained, Republished
<1>6. QED
  BY <1>1, <1>2, <1>3, <1>4, <1>5, FreshNext DEF Wrote

(* Where calls do not overlap, the stored events are numbered without a gap *)
(* and hashed onto each other, and so are the batches, whatever a crash     *)
(* interrupts and whatever is published.                                   *)
THEOREM ChainsHold ==
  ASSUME SerialStore
  PROVE  Spec => []ChainsIntact
<1>1. Init => ChainsIntact
  BY DEF Init, ChainsIntact, EventsChained, BatchesChained
<1>2. TypeInv /\ FreshInv /\ ChainsIntact /\ [Next]_vars => ChainsIntact'
  BY ChainsNext
<1>3. QED
  BY FreshHolds, <1>1, <1>2, PTL DEF Spec

(* Where calls do not overlap, an anchoring that is carried through stamps  *)
(* every event that waits, so no pending event precedes an anchored one.    *)
THEOREM NothingSkipped ==
  ASSUME SerialStore
  PROVE  Spec => []NoEventSkipped
<1>1. Init => NoEventSkipped
  BY DEF Init, NoEventSkipped
<1>2. ASSUME TypeInv, FreshInv, NoEventSkipped, [Next]_vars
      PROVE  NoEventSkipped'
  <2>t. events \in Seq(EventType)
    BY <1>2 DEF TypeInv, StoresTyped
  <2>1. CASE events' = events
    BY <1>2, <2>1 DEF NoEventSkipped
  <2>2. ASSUME NEW r \in Calls, Appended(r)
        PROVE  NoEventSkipped'
    <3> DEFINE n == Len(events) + 1
    <3>1. /\ DOMAIN events' = DOMAIN events \cup {n} /\ \A i \in DOMAIN events : i < n
          /\ events'[n].ledger_batch_id = Null
          /\ \A i \in DOMAIN events : events'[i] = events[i]
      BY <2>t, <2>2 DEF Appended, NewRecord
    <3> HIDE DEF n
    <3>2. DOMAIN events \subseteq Int /\ n \in Int
      BY <2>t DEF n
    <3>3. QED
      BY <1>2, <3>1, <3>2 DEF NoEventSkipped
  <2>3. ASSUME NEW b, Anchored(b)
        PROVE  NoEventSkipped'
    <3>1. \A i \in DOMAIN events' : i \in DOMAIN events /\ events'[i].ledger_batch_id # Null
      BY <2>t, <2>3, AnchoredStamps
    <3>2. QED
      BY <3>1 DEF NoEventSkipped
  <2>4. QED
    BY <1>2, <2>1, <2>2, <2>3, FreshNext DEF Wrote, Batched, Republished
<1>3. QED
  BY FreshHolds, <1>1, <1>2, PTL DEF Spec

\* The event of call r has been stored.
Placed(r) ==
  \/ pc[r] \in {"readPending", "readLatestBatch", "appendBatch", "rewriteEvents", "readAnchored"}
  \/ Acked(r)

StoredOf(r) == \E i \in DOMAIN events : events[i].content_hash = r

\* Why AckedEventsKept is kept: a call stores one event, once, and from then on
\* it is there.
KeptInv ==
  /\ \A i, j \in DOMAIN events : events[i].content_hash = events[j].content_hash => i = j
  /\ \A i \in DOMAIN events : pc[events[i].content_hash] \notin EarlyPcs
  /\ \A r \in Calls : Placed(r) => StoredOf(r)

(* Calls only move forwards, and only an append places an event.            *)
LEMMA PlacedFrame ==
  ASSUME SerialStore, TypeInv, FreshInv, [Next]_vars, NEW r \in Calls
  PROVE  /\ pc[r] \notin EarlyPcs => pc'[r] \notin EarlyPcs
         /\ Placed(r)' => Placed(r) \/ AppendEvent(r)
         /\ AppendEvent(r) => pc[r] = "appendEvent" /\ pc'[r] \notin EarlyPcs
                              /\ events' = Append(events, NewRecord(r, events))
<1> USE DEF args, Goto, At, EarlyPcs, Placed, Acked
<1>t. pc \in [Calls -> Steps] /\ op \in [Calls -> {"append", "publish", Null}]
  BY DEF TypeInv, CallsTyped
<1>f. Fresh(r) /\ eventsTorn = FALSE
  BY DEF FreshInv
<1>1. ASSUME NEW q \in Calls, AppendSteps(q)
      PROVE  /\ pc[r] \notin EarlyPcs => pc'[r] \notin EarlyPcs
             /\ Placed(r)' => Placed(r) \/ AppendEvent(r)
  <2>1. CASE q = r
    <3>1. ~ WriteEvents(r)
      BY <1>f DEF WriteEvents, Fresh
    <3>2. QED
      BY <1>t, <1>f, <1>1, <2>1, <3>1
         DEF AppendSteps, StartAppend, MayStart, ReadLatest, AppendEvent, ReadPending,
             ReadLatestBatch, AppendBatch, RewriteEvents, ReadAnchored, Fresh, AppendPcs
  <2>2. CASE q # r
    BY <1>t, <1>1, <2>2
       DEF AppendSteps, StartAppend, ReadLatest, AppendEvent, ReadPending, ReadLatestBatch,
           AppendBatch, RewriteEvents, WriteEvents, ReadAnchored
  <2>3. QED
    BY <2>1, <2>2
<1>2. ASSUME NEW q \in Calls, PublishSteps(q)
      PROVE  /\ pc[r] \notin EarlyPcs => pc'[r] \notin EarlyPcs
             /\ Placed(r)' => Placed(r)
  <2>1. CASE q = r
    BY <1>t, <1>f, <1>2, <2>1
       DEF PublishSteps, StartPublish, MayStart, ReadBatches, PublisherAnswers, RewriteBatches,
           WriteBatches, Fresh, PublishPcs
  <2>2. CASE q # r
    BY <1>t, <1>2, <2>2
       DEF PublishSteps, StartPublish, ReadBatches, PublisherAnswers, RewriteBatches,
           WriteBatches
  <2>3. QED
    BY <2>1, <2>2
<1>3. ASSUME Crash
      PROVE  /\ pc[r] \notin EarlyPcs => pc'[r] \notin EarlyPcs
             /\ Placed(r)' => Placed(r)
  BY <1>t, <1>3 DEF Crash, InFlight, Settled
<1>4. ASSUME UNCHANGED vars
      PROVE  /\ pc[r] \notin EarlyPcs => pc'[r] \notin EarlyPcs
             /\ Placed(r)' => Placed(r)
  BY <1>4 DEF vars, args
<1>5. ASSUME AppendEvent(r)
      PROVE  /\ pc[r] = "appendEvent" /\ pc'[r] \notin EarlyPcs
             /\ events' = Append(events, NewRecord(r, events))
  BY <1>t, <1>f, <1>5 DEF AppendEvent, AppendLine, Fresh
<1>6. QED
  BY <1>1, <1>2, <1>3, <1>4, <1>5 DEF Next, AllSettled

(* The event each call has stored stays, and no step stores a second one.   *)
LEMMA KeptNext ==
  ASSUME SerialStore, TypeInv, FreshInv, KeptInv, [Next]_vars
  PROVE  KeptInv'
<1>t. /\ events \in Seq(EventType)
      /\ \A i \in DOMAIN events : events[i].content_hash \in Calls
  <2>1. events \in Seq(EventType)
    BY DEF TypeInv, StoresTyped
  <2>2. \A i \in DOMAIN events : events[i] \in EventType
    BY <2>1
  <2>3. QED
    BY <2>1, <2>2 DEF EventType
<1>1. \A r \in Calls : pc[r] \notin EarlyPcs => pc'[r] \notin EarlyPcs
  BY PlacedFrame
<1>2. CASE \E r \in Calls : AppendEvent(r)
  <2> DEFINE n == Len(events) + 1
  <2>1. PICK r \in Calls : AppendEvent(r)
    BY <1>2
  <2>2. /\ pc[r] = "appendEvent" /\ pc'[r] \notin EarlyPcs
        /\ events' = Append(events, NewRecord(r, events))
    BY <2>1, PlacedFrame
  <2>3. /\ DOMAIN events' = DOMAIN events \cup {n} /\ n \notin DOMAIN events
        /\ events'[n].content_hash = r
        /\ \A i \in DOMAIN events : events'[i] = events[i]
    BY <1>t, <2>2 DEF NewRecord
  <2> HIDE DEF n
  <2>4. \A i \in DOMAIN events : events[i].content_hash # r
    BY <2>2 DEF KeptInv, EarlyPcs
  <2>5. \A i \in DOMAIN events' : pc'[events'[i].content_hash] \notin EarlyPcs
    BY <1>t, <1>1, <2>2, <2>3 DEF KeptInv
  <2>6. ASSUME NEW q \in Calls, Placed(q)'
        PROVE  StoredOf(q)'
    <3>1. CASE q = r
      BY <2>3, <3>1 DEF StoredOf
    <3>2. CASE q # r
      <4>1. pc'[q] = pc[q]
        BY <2>1, <3>2 DEF AppendEvent, Goto, At, TypeInv, CallsTyped
      <4>2. pc[q] # "appendEvent"
        BY <2>2, <3>2 DEF FreshInv, InFlight, Settled
      <4>3. ~ AppendEvent(q)
        BY <4>2 DEF AppendEvent, At
      <4>4. Placed(q)
        BY <2>6, <4>3, PlacedFrame
      <4>5. QED
        BY <2>3, <4>4 DEF KeptInv, StoredOf
    <3>3. QED
      BY <3>1, <3>2
  <2>7. QED
    BY <2>3, <2>4, <2>5, <2>6 DEF KeptInv
<1>3. CASE ~ \E r \in Calls : AppendEvent(r)
  <2>1. /\ DOMAIN events' = DOMAIN events
        /\ \A i \in DOMAIN events : events'[i].content_hash = events[i].content_hash
    BY <1>t, <1>3, FreshNext, AnchoredStamps DEF Wrote, Batched, Republished
  <2>2. \A q \in Calls : Placed(q)' => Placed(q)
    BY <1>3, PlacedFrame
  <2>3. \A q \in Calls : StoredOf(q) => StoredOf(q)'
    BY <2>1 DEF StoredOf
  <2>4. QED
    BY <1>t, <1>1, <2>1, <2>2, <2>3 DEF KeptInv
<1>4. QED
  BY <1>2, <1>3

LEMMA KeptAtInit == Init => KeptInv
  BY DEF Init, KeptInv, Placed, Acked, At

(* Where calls do not overlap, an event whose append was answered stays in  *)
(* the store, once, whatever is anchored, published or interrupted later,   *)
(* even if callers reuse event ids.                                        *)
THEOREM AckedEventsStay ==
  ASSUME SerialStore
  PROVE  Spec => []AckedEventsKept
<1>1. Init => KeptInv
  BY KeptAtInit
<1>2. TypeInv /\ FreshInv /\ KeptInv /\ [Next]_vars => KeptInv'
  BY KeptNext
<1>3. ASSUME KeptInv, NEW r \in Calls, Acked(r)
      PROVE  Cardinality({i \in DOMAIN events : events[i].content_hash = r}) = 1
  <2>1. PICK i \in DOMAIN events : events[i].content_hash = r
    BY <1>3 DEF KeptInv, Placed, StoredOf
  <2>2. {j \in DOMAIN events : events[j].content_hash = r} = {i}
    BY <1>3, <2>1 DEF KeptInv
  <2>3. QED
    BY <2>2, FS_Singleton
<1>4. KeptInv => AckedEventsKept
  BY <1>3 DEF AckedEventsKept
<1>5. QED
  BY FreshHolds, <1>1, <1>2, <1>4, PTL DEF Spec

(* A stamped event stays where it is and what it is.                        *)
LEMMA StampedStay ==
  ASSUME SerialStore, TypeInv, FreshInv, RootInv, [Next]_vars,
         NEW i \in DOMAIN events, events[i].ledger_batch_id # Null
  PROVE  i \in DOMAIN events' /\ events'[i] = events[i]
<1>t. events \in Seq(EventType)
  BY DEF TypeInv, StoresTyped
<1>1. CASE events' = events
  BY <1>1
<1>2. ASSUME NEW r \in Calls, Appended(r)
      PROVE  i \in DOMAIN events' /\ events'[i] = events[i]
  BY <1>t, <1>2 DEF Appended
<1>3. ASSUME NEW b, Anchored(b)
      PROVE  i \in DOMAIN events' /\ events'[i] = events[i]
  BY <1>t, <1>3, AnchoredStamps DEF RootInv, Sound
<1>4. QED
  BY <1>1, <1>2, <1>3, FreshNext DEF Wrote, Batched, Republished

(* Where calls do not overlap and event ids are not reused, no step moves a *)
(* stamped event to another batch, takes its stamp away or drops it.        *)
THEOREM StampsStay ==
  ASSUME SerialStore, "reuse" \notin Hazards
  PROVE  Spec => StampsAreFinal
<1> DEFINE Keeps == \A i \in DOMAIN events :
                      events[i].ledger_batch_id # Null =>
                        \E j \in DOMAIN events' :
                          /\ events'[j].content_hash = events[i].content_hash
                          /\ events'[j].ledger_batch_id = events[i].ledger_batch_id
                          /\ events'[j].ledger_anchor = events[i].ledger_anchor
<1>1. ASSUME TypeInv, FreshInv, RootInv, [Next]_vars
      PROVE  Keeps
  BY <1>1, StampedStay
<1>2. TypeInv /\ FreshInv /\ RootInv /\ [Next]_vars => [Keeps]_vars
  BY <1>1
<1>3. Init => RootInv
  BY RootAtInit
<1>4. TypeInv /\ RootInv /\ [Next]_vars => RootInv'
  BY RootNext DEF SerialStore
<1> HIDE DEF Keeps
<1>5. Spec => [][Keeps]_vars
  BY FreshHolds, <1>2, <1>3, <1>4, PTL DEF Spec
<1>6. QED
  BY <1>5 DEF StampsAreFinal, Keeps

-----------------------------------------------------------------------------
(* Anchored proofs stay confirmed *)

(* The hashes of some events are a list in which event i is as far down as  *)
(* there are events before it.                                             *)
LEMMA HashAt ==
  ASSUME NEW file \in Seq(EventType), NEW I \in SUBSET DOMAIN file, NEW i \in I
  PROVE  LET t == Cardinality({j \in I : j < i})
         IN  /\ IsLevel(Hashes(file, I))
             /\ t \in 0 .. Len(Hashes(file, I)) - 1
             /\ Hashes(file, I)[t + 1] = file[i].content_hash
<1> DEFINE f == [k \in I |-> file[k].content_hash]
           n == Cardinality(I)
           Upto(k) == {j \in I : j <= k}
           t == Cardinality({j \in I : j < i})
<1>1. I \subseteq Nat /\ I \subseteq 1 .. Len(file) /\ IsFiniteSet(I)
  <2>1. I \subseteq 1 .. Len(file) /\ Len(file) \in Int /\ I \subseteq Nat
    OBVIOUS
  <2>2. IsFiniteSet(1 .. Len(file))
    BY <2>1, FS_Interval
  <2>3. IsFiniteSet(I)
    BY <2>1, <2>2, FS_Subset
  <2>4. QED
    BY <2>1, <2>3
<1>2. \A k \in I : /\ IsFiniteSet(Upto(k)) /\ Cardinality(Upto(k)) \in Nat
                   /\ Cardinality(Upto(k)) <= n /\ n \in Nat
  BY <1>1, FS_Subset, FS_CardinalityType
<1>3. Cardinality(Upto(i)) = t + 1 /\ t \in Nat
  <2> DEFINE Below == {j \in I : j < i}
  <2>1. Upto(i) = Below \cup {i} /\ i \notin Below
    BY <1>1
  <2>2. IsFiniteSet(Below) /\ Cardinality(Below) \in Nat
    BY <1>1, FS_Subset, FS_CardinalityType
  <2>3. Cardinality(Below \cup {i}) = Cardinality(Below) + 1
    BY <2>1, <2>2, FS_AddElement
  <2>4. QED
    BY <2>1, <2>2, <2>3
<1>4. ASSUME NEW k \in I, Cardinality(Upto(k)) = t + 1
      PROVE  k = i
  <2>1. Upto(k) \subseteq Upto(i) \/ Upto(i) \subseteq Upto(k)
    BY <1>1
  <2>2. Upto(k) = Upto(i)
    <3>1. CASE Upto(k) \subseteq Upto(i)
      BY <1>2, <1>3, <1>4, <3>1, FS_Subset
    <3>2. CASE Upto(i) \subseteq Upto(k)
      BY <1>2, <1>3, <1>4, <3>2, FS_Subset
    <3>3. QED
      BY <2>1, <3>1, <3>2
  <2>3. k \in Upto(i) /\ i \in Upto(k)
    BY <1>1, <2>2
  <2>4. QED
    BY <1>1, <2>3
<1>5. Hashes(file, I) = [c \in 1 .. n |-> f[CHOOSE k \in I : Cardinality(Upto(k)) = c]]
  BY DEF Hashes, InOrder
<1>6. (CHOOSE k \in I : Cardinality(Upto(k)) = t + 1) = i
  BY <1>3, <1>4
<1>7. n \in Nat /\ t \in 0 .. n - 1 /\ t + 1 \in 1 .. n
  <2>1. n \in Nat /\ t + 1 <= n
    BY <1>2, <1>3
  <2> HIDE DEF n, t
  <2>2. QED
    BY <1>3, <2>1
<1>8. Hashes(file, I)[t + 1] = file[i].content_hash
  BY <1>5, <1>6, <1>7
<1>9. IsLevel(Hashes(file, I)) /\ Len(Hashes(file, I)) = n
  <2>1. Hashes(file, I) = [c \in 1 .. n |-> Hashes(file, I)[c]]
    BY <1>5
  <2> HIDE DEF n
  <2>2. QED
    BY <1>7, <2>1, AsSequence DEF IsLevel
<1>10. QED
  BY <1>7, <1>8, <1>9

(* The proof that getMerkleProof builds for an event of a batch leads to    *)
(* the root of the events of that batch, which is a hash.                  *)
LEMMA BatchProofVerifies ==
  ASSUME NEW file \in Seq(EventType), NEW I \in SUBSET DOMAIN file, NEW i \in I
  PROVE  /\ VerifyMerkleProof(file[i].content_hash,
              BuildMerkleProof(Hashes(file, I), Cardinality({j \in I : j < i})),
              BuildMerkleRoot(Hashes(file, I)))
         /\ \/ BuildMerkleRoot(Hashes(file, I)) \in Calls
            \/ \E left, right : BuildMerkleRoot(Hashes(file, I)) = HashPair(left, right)
<1> DEFINE t == Cardinality({j \in I : j < i})
           hashes == Hashes(file, I)
<1>1. /\ IsLevel(hashes) /\ t \in 0 .. Len(hashes) - 1
      /\ hashes[t + 1] = file[i].content_hash
  BY HashAt
<1>c. file[i].content_hash \in Calls
  <2>1. file[i] \in EventType
    OBVIOUS
  <2>2. QED
    BY <2>1 DEF EventType
<1> HIDE DEF t, hashes
<1>2. PICK S : hashes \in Seq(S)
  BY <1>1 DEF IsLevel
<1>3. hashes # <<>> /\ Len(hashes) \in Nat
  BY <1>1, <1>2
<1>4. VerifyMerkleProof(hashes[t + 1], BuildMerkleProof(hashes, t), BuildMerkleRoot(hashes))
  BY <1>1, <1>2, <1>3, MerkleProofsVerify
<1> DEFINE h == Height(hashes)
           L == Levels(hashes)
<1>5. /\ h \in 0 .. Len(hashes) /\ Len(L[h]) = 1 /\ \A k \in 0 .. Len(hashes) : IsLevel(L[k])
      /\ \A k \in 0 .. Len(hashes) : L[k] = IF k = 0 THEN hashes ELSE NextLevel(L[k - 1])
  <2>1. LevelsUpTo(hashes, Len(hashes), L)
    BY <1>3, LevelsEquation
  <2> HIDE DEF L
  <2>2. \A k \in 0 .. Len(hashes) : L[k] = IF k = 0 THEN hashes ELSE NextLevel(L[k - 1])
    BY <2>1 DEF LevelsUpTo
  <2>3. QED
    BY <1>1, <1>3, <2>2, HeightReached DEF L
<1>6. BuildMerkleRoot(hashes) = L[h][1]
  BY <1>3 DEF BuildMerkleRoot
<1> HIDE DEF h, L
<1>7. CASE h = 0
  <2>1. L[h] = hashes
    BY <1>5, <1>7
  <2>2. t = 0
    <3>1. Len(hashes) = 1
      BY <1>5, <2>1
    <3>2. QED
      BY <1>1, <3>1
  <2>3. QED
    BY <1>1, <1>4, <1>6, <1>c, <2>1, <2>2 DEF t, hashes
<1>8. CASE h # 0
  <2>1. /\ L[h] = NextLevel(L[h - 1]) /\ IsLevel(L[h - 1])
    BY <1>3, <1>5, <1>8
  <2>2. \E left, right : NextLevel(L[h - 1])[1] = HashPair(left, right)
    <3>1. DOMAIN NextLevel(L[h - 1]) = 1 .. 1
      BY <1>5, <2>1, NextLevelLength
    <3>2. 1 \in 1 .. 1
      OBVIOUS
    <3>3. 1 \in DOMAIN NextLevel(L[h - 1])
      BY <3>1, <3>2
    <3>4. QED
      BY <3>3 DEF NextLevel
  <2>3. QED
    BY <1>1, <1>4, <1>6, <2>1, <2>2 DEF t, hashes
<1>9. QED
  BY <1>7, <1>8

(* null is not a hash, and not a record.                                    *)
NullIsNothingElse ==
  /\ \A left, right : HashPair(left, right) # Null
  /\ Null \notin EventType /\ Null \notin BatchType

\* The event of call r is stored under its own id with the anchor the call was
\* answered with.
Standing(r) ==
  /\ answer[r].event_id = r
  /\ \E i \in DOMAIN events :
       /\ events[i].event_id = r /\ events[i].content_hash = r
       /\ events[i].ledger_batch_id # Null
       /\ events[i].ledger_anchor = answer[r].ledger_anchor

\* Why AnchoredStaysConfirmed is kept: an anchoring call finds its own event
\* pending when it starts and stamped when it ends, and the batch of a stamp
\* is stored before the stamp is.
ConfirmInv ==
  /\ References(events, batches)
  /\ \A i \in DOMAIN events : events[i].event_id = events[i].content_hash
  /\ \A r \in Calls :
       /\ pc[r] = "readPending" => Pending(events) # {}
       /\ pc[r] = "rewriteEvents" => StoredIn(batches, batch[r].batch_id)
       /\ pc[r] = "readAnchored" => Pending(events) = {}
       /\ AckedAnchored(r) => Standing(r)

(* What is stored confirms the answer of a call that stands.                *)
LEMMA StandingConfirmed ==
  ASSUME NullIsNothingElse, TypeInv, RootInv, References(events, batches),
         NEW r \in Calls, Standing(r)
  PROVE  LedgerConfirmed(r)
<1>t. events \in Seq(EventType) /\ batches \in Seq(BatchType)
  BY DEF TypeInv, StoresTyped
<1>1. PICK i \in DOMAIN events :
        /\ events[i].event_id = r /\ events[i].content_hash = r
        /\ events[i].ledger_batch_id # Null
        /\ events[i].ledger_anchor = answer[r].ledger_anchor
  BY DEF Standing
<1> DEFINE id == events[i].ledger_batch_id
           I == BatchEvents(events, id)
<1>2. /\ events[i].ledger_anchor = BuildMerkleRoot(Hashes(events, I))
      /\ \A j \in DOMAIN events : events[i].event_id = events[j].event_id => i = j
      /\ \A k \in DOMAIN batches : batches[k].batch_id = id =>
           batches[k].root_hash = events[i].ledger_anchor
  BY <1>1 DEF RootInv, Sound, Built
<1>3. GetEvent(events, r) = events[i] /\ events[i] # Null
  <2>1. {j \in DOMAIN events : events[j].event_id = r} = {i}
    BY <1>1, <1>2
  <2>2. i \in Nat /\ events[i] \in EventType
    BY <1>t
  <2>3. Min({i}) = i
    BY <2>2, MinIsIn
  <2>4. QED
    BY <2>1, <2>2, <2>3 DEF GetEvent, NullIsNothingElse
<1>4. /\ GetBatch(batches, id) # Null
      /\ GetBatch(batches, id).root_hash = events[i].ledger_anchor
  <2> DEFINE M == {k \in DOMAIN batches : batches[k].batch_id = id}
  <2>1. M # {} /\ M \in SUBSET Nat
    BY <1>t, <1>1 DEF References, StoredIn
  <2>2. Min(M) \in M
    BY <2>1, MinIsIn
  <2>3. GetBatch(batches, id) = batches[Min(M)]
    BY <2>1 DEF GetBatch
  <2>4. batches[Min(M)] \in BatchType
    BY <1>t, <2>2
  <2>5. QED
    BY <1>2, <2>2, <2>3, <2>4 DEF NullIsNothingElse
<1>5. /\ {j \in I : events[j].event_id = events[i].event_id} = {i} /\ i \in I
      /\ Min({i}) = i /\ I \in SUBSET DOMAIN events
  <2>1. i \in I /\ I \in SUBSET DOMAIN events
    BY DEF BatchEvents
  <2>2. {j \in I : events[j].event_id = events[i].event_id} = {i}
    BY <1>2, <2>1
  <2>3. Min({i}) \in {i}
    <3>1. i \in Nat
      BY <1>t
    <3>2. QED
      BY <3>1, MinIsIn
  <2>4. QED
    BY <2>1, <2>2, <2>3
<1>6. /\ VerifyMerkleProof(events[i].content_hash,
           BuildMerkleProof(Hashes(events, I), Cardinality({j \in I : j < i})),
           events[i].ledger_anchor)
      /\ events[i].ledger_anchor # Null
  <2>1. \A c \in Calls : c # Null
    BY LedgerAssumption
  <2> HIDE DEF I
  <2>2. /\ VerifyMerkleProof(events[i].content_hash,
              BuildMerkleProof(Hashes(events, I), Cardinality({j \in I : j < i})),
              BuildMerkleRoot(Hashes(events, I)))
        /\ \/ BuildMerkleRoot(Hashes(events, I)) \in Calls
           \/ \E left, right : BuildMerkleRoot(Hashes(events, I)) = HashPair(left, right)
    BY <1>t, <1>5, BatchProofVerifies
  <2>3. BuildMerkleRoot(Hashes(events, I)) # Null
    BY <2>1, <2>2 DEF NullIsNothingElse
  <2>4. QED
    BY <1>2, <2>2, <2>3
<1>7. MerkleProofVerified(events[i])
  BY <1>1, <1>4, <1>5, <1>6 DEF MerkleProofVerified
<1>8. QED
  BY <1>1, <1>3, <1>6, <1>7 DEF LedgerConfirmed, Standing

(* How a call gets to the steps ConfirmInv speaks of.                       *)
LEMMA ConfirmFrame ==
  ASSUME SerialStore, TypeInv, FreshInv, [Next]_vars, NEW r \in Calls
  PROVE  /\ pc'[r] = "readPending" => pc[r] = "readPending" \/ AppendEvent(r)
         /\ pc'[r] = "rewriteEvents" =>
              \/ pc[r] = "rewriteEvents" /\ batch'[r] = batch[r]
              \/ AppendBatch(r) /\ batch'[r] = batch[r]
         /\ pc'[r] = "readAnchored" => pc[r] = "readAnchored" \/ RewriteEvents(r)
         /\ AckedAnchored(r)' => \/ AckedAnchored(r) /\ answer'[r] = answer[r]
                                 \/ ReadPending(r) /\ Pending(events) = {}
                                 \/ ReadAnchored(r)
<1> USE DEF args, locals, Goto, At, AckedAnchored, Acked
<1>t. /\ pc \in [Calls -> Steps] /\ op \in [Calls -> {"append", "publish", Null}]
      /\ batch \in [Calls -> BatchType \cup {Null}]
      /\ answer \in [Calls -> EventType \cup {Null}]
      /\ anchorNow \in [Calls -> BOOLEAN]
  BY DEF TypeInv, CallsTyped, LocalsTyped
<1>f. Fresh(r)
  BY DEF FreshInv
<1> DEFINE Moved == /\ pc'[r] = "readPending" => pc[r] = "readPending" \/ AppendEvent(r)
                    /\ pc'[r] = "rewriteEvents" =>
                         \/ pc[r] = "rewriteEvents" /\ batch'[r] = batch[r]
                         \/ AppendBatch(r) /\ batch'[r] = batch[r]
                    /\ pc'[r] = "readAnchored" => pc[r] = "readAnchored" \/ RewriteEvents(r)
           Answered == AckedAnchored(r)' =>
                         \/ AckedAnchored(r) /\ answer'[r] = answer[r]
                         \/ ReadPending(r) /\ Pending(events) = {}
                         \/ ReadAnchored(r)
<1>1. ASSUME NEW q \in Calls, AppendSteps(q)
      PROVE  Moved /\ Answered
  <2>1. CASE q = r
    <3>1. ~ WriteEvents(r)
      BY <1>f DEF WriteEvents, Fresh
    <3>2. Moved
      BY <1>t, <1>1, <2>1, <3>1
         DEF AppendSteps, StartAppend, ReadLatest, AppendEvent, ReadPending, ReadLatestBatch,
             AppendBatch, RewriteEvents, ReadAnchored
    <3>3. Answered
      BY <1>t, <1>1, <2>1, <3>1
         DEF AppendSteps, StartAppend, ReadLatest, AppendEvent, ReadPending, ReadLatestBatch,
             AppendBatch, RewriteEvents, ReadAnchored
    <3>4. QED
      BY <3>2, <3>3
  <2>2. CASE q # r
    <3>1. /\ pc'[r] = pc[r] /\ batch'[r] = batch[r] /\ answer'[r] = answer[r]
          /\ op'[r] = op[r] /\ anchorNow'[r] = anchorNow[r]
      BY <1>t, <1>1, <2>2
         DEF AppendSteps, StartAppend, ReadLatest, AppendEvent, ReadPending, ReadLatestBatch,
             AppendBatch, RewriteEvents, WriteEvents, ReadAnchored
    <3>2. QED
      BY <3>1
  <2>3. QED
    BY <2>1, <2>2
<1>2. ASSUME NEW q \in Calls, PublishSteps(q)
      PROVE  Moved /\ Answered
  <2>0. batch'[r] = batch[r] /\ answer'[r] = answer[r] /\ anchorNow'[r] = anchorNow[r]
    BY <1>2 DEF PublishSteps, StartPublish, ReadBatches, PublisherAnswers, RewriteBatches,
                WriteBatches
  <2>1. \/ pc'[r] = pc[r] /\ op'[r] = op[r]
        \/ op'[r] = "publish" /\ pc'[r] \notin AppendPcs
    <3>1. CASE q = r
      BY <1>t, <1>f, <1>2, <3>1
         DEF PublishSteps, StartPublish, ReadBatches, PublisherAnswers, RewriteBatches,
             WriteBatches, Fresh, PublishPcs, AppendPcs
    <3>2. CASE q # r
      <4>1. pc'[r] = pc[r]
        BY <1>t, <1>2, <3>2
           DEF PublishSteps, StartPublish, ReadBatches, PublisherAnswers, RewriteBatches,
               WriteBatches
      <4>2. op'[r] = op[r]
        BY <1>t, <1>2, <3>2
           DEF PublishSteps, StartPublish, ReadBatches, PublisherAnswers, RewriteBatches,
               WriteBatches
      <4>3. QED
        BY <4>1, <4>2
    <3>3. QED
      BY <3>1, <3>2
  <2>2. QED
    BY <2>0, <2>1 DEF AppendPcs
<1>3. CASE Crash
  BY <1>t, <1>3 DEF Crash, InFlight, Settled
<1>4. CASE UNCHANGED vars
  BY <1>4 DEF vars
<1>5. QED
  BY <1>1, <1>2, <1>3, <1>4 DEF Next, AllSettled

(* What the ids and hashes of the stored events are made of.                *)
LEMMA OwnId ==
  ASSUME "reuse" \notin Hazards, TypeInv, RootInv, NEW r \in Calls, pc[r] \in AppendPcs
  PROVE  eventId[r] = r /\ NewRecord(r, events).event_id = r
<1>1. eventId[r] \in Calls /\ eventId[r] \in {r, Null}
  BY DEF TypeInv, LocalsReady, RootInv
<1>2. QED
  BY <1>1, LedgerAssumption DEF NewRecord

(* ConfirmInv is kept.  A call that has been answered stands on a stamped   *)
(* event, which stays; a call that is answered now stands on the event it   *)
(* has just seen stamped.                                                  *)
LEMMA ConfirmNext ==
  ASSUME SerialStore, "reuse" \notin Hazards, TypeInv, FreshInv, RootInv, KeptInv, ConfirmInv,
         [Next]_vars
  PROVE  ConfirmInv'
<1>t. events \in Seq(EventType) /\ batches \in Seq(BatchType)
  BY DEF TypeInv, StoresTyped
<1>a. ASSUME NEW q \in Calls, NEW r \in Calls, InFlight(q), InFlight(r)
      PROVE  q = r
  BY <1>a DEF FreshInv
<1>p. ASSUME NEW r \in Calls, pc[r] \in AppendPcs \cup PublishPcs
      PROVE  InFlight(r)
  BY <1>p DEF InFlight, Settled, AppendPcs, PublishPcs
<1>w. ASSUME NEW r \in Calls
      PROVE  /\ AppendEvent(r) => pc[r] = "appendEvent" /\ Appended(r)
             /\ AppendBatch(r) => pc[r] = "appendBatch" /\ Batched(r)
             /\ RewriteEvents(r) => pc[r] = "rewriteEvents" /\ Anchored(batch[r])
             /\ RewriteBatches(r) => pc[r] = "rewriteBatches" /\ Republished(r)
  BY WriteEffects DEF AppendEvent, AppendBatch, RewriteEvents, RewriteBatches, At
<1>1. ASSUME NEW r \in Calls, AckedAnchored(r)'
      PROVE  Standing(r)'
  <2>1. CASE AckedAnchored(r) /\ answer'[r] = answer[r]
    <3>1. Standing(r)
      BY <2>1 DEF ConfirmInv
    <3>2. PICK i \in DOMAIN events :
            /\ events[i].event_id = r /\ events[i].content_hash = r
            /\ events[i].ledger_batch_id # Null
            /\ events[i].ledger_anchor = answer[r].ledger_anchor
      BY <3>1 DEF Standing
    <3>3. i \in DOMAIN events' /\ events'[i] = events[i]
      BY <3>2, StampedStay
    <3>4. QED
      BY <2>1, <3>1, <3>2, <3>3 DEF Standing
  <2>2. CASE ReadPending(r) /\ Pending(events) = {}
    BY <2>2 DEF ReadPending, At, ConfirmInv
  <2>3. CASE ReadAnchored(r)
    <3>1. /\ pc[r] = "readAnchored" /\ events' = events
          /\ answer'[r] = GetEvent(events, eventId[r])
      BY <2>3 DEF ReadAnchored, At, stores, TypeInv, LocalsTyped
    <3>2. eventId[r] = r
      BY <3>1, OwnId DEF AppendPcs
    <3>3. PICK i \in DOMAIN events : events[i].content_hash = r
      BY <3>1 DEF KeptInv, Placed, StoredOf
    <3>4. events[i].event_id = r /\ events[i].ledger_batch_id # Null
      BY <3>1, <3>3 DEF ConfirmInv, Pending
    <3>5. GetEvent(events, r) = events[i]
      <4>1. {j \in DOMAIN events : events[j].event_id = r} = {i}
        BY <3>4 DEF RootInv, Sound
      <4>2. Min({i}) \in {i}
        <5>1. i \in Nat
          BY <1>t
        <5>2. QED
          BY <5>1, MinIsIn
      <4>3. QED
        BY <4>1, <4>2 DEF GetEvent
    <3>6. QED
      BY <3>1, <3>2, <3>3, <3>4, <3>5 DEF Standing
  <2>4. QED
    BY <1>1, <2>1, <2>2, <2>3, ConfirmFrame
<1>2. References(events', batches')
  <2>1. CASE UNCHANGED <<events, batches>>
    BY <2>1 DEF ConfirmInv
  <2>2. ASSUME NEW r \in Calls, Appended(r)
        PROVE  References(events', batches')
    <3>1. NewRecord(r, events).ledger_batch_id = Null
      BY DEF NewRecord
    <3>2. \A i \in DOMAIN events' : \/ i \in DOMAIN events /\ events'[i] = events[i]
                                    \/ events'[i] = NewRecord(r, events)
      BY <1>t, <2>2 DEF Appended
    <3>3. QED
      BY <2>2, <3>1, <3>2 DEF Appended, ConfirmInv, References
  <2>3. ASSUME NEW r \in Calls, Batched(r)
        PROVE  References(events', batches')
    <3>1. ASSUME NEW id, StoredIn(batches, id)
          PROVE  StoredIn(batches', id)
      <4>1. PICK k \in DOMAIN batches : batches[k].batch_id = id
        BY <3>1 DEF StoredIn
      <4>2. k \in DOMAIN batches' /\ batches'[k] = batches[k]
        BY <1>t, <2>3, <4>1 DEF Batched
      <4>3. QED
        BY <4>1, <4>2 DEF StoredIn
    <3>2. QED
      BY <2>3, <3>1, ReferencesGrow DEF Batched, ConfirmInv
  <2>4. ASSUME NEW r \in Calls, RewriteEvents(r)
        PROVE  References(events', batches')
    <3>1. pc[r] = "rewriteEvents" /\ Anchored(batch[r])
      BY <1>w, <2>4
    <3>2. StoredIn(batches, batch[r].batch_id)
      BY <3>1 DEF ConfirmInv
    <3>3. QED
      BY <1>t, <3>1, <3>2, StampedReferences DEF Anchored, ConfirmInv
  <2>5. ASSUME NEW r \in Calls, Republished(r)
        PROVE  References(events', batches')
    <3>1. /\ DOMAIN batches' = DOMAIN batches
          /\ \A k \in DOMAIN batches : batches'[k].batch_id = batches[k].batch_id
      BY <1>t, <2>5, PublishedType DEF Republished
    <3>2. \A id : StoredIn(batches, id) => StoredIn(batches', id)
      BY <3>1 DEF StoredIn
    <3>3. QED
      BY <2>5, <3>2, ReferencesGrow DEF Republished, ConfirmInv
  <2>6. QED
    BY <2>1, <2>2, <2>3, <2>4, <2>5, FreshNext DEF Wrote
<1>3. \A i \in DOMAIN events' : events'[i].event_id = events'[i].content_hash
  <2>1. CASE UNCHANGED events
    BY <2>1 DEF ConfirmInv
  <2>2. ASSUME NEW r \in Calls, AppendEvent(r)
        PROVE  \A i \in DOMAIN events' : events'[i].event_id = events'[i].content_hash
    <3>1. NewRecord(r, events).event_id = r /\ NewRecord(r, events).content_hash = r
      BY <1>w, <2>2, OwnId DEF AppendPcs, NewRecord
    <3>2. \A i \in DOMAIN events' : \/ i \in DOMAIN events /\ events'[i] = events[i]
                                    \/ events'[i] = NewRecord(r, events)
      BY <1>t, <1>w, <2>2 DEF Appended
    <3>3. QED
      BY <3>1, <3>2 DEF ConfirmInv
  <2>3. ASSUME NEW b, Anchored(b)
        PROVE  \A i \in DOMAIN events' : events'[i].event_id = events'[i].content_hash
    BY <1>t, <2>3, StampedProperties DEF Anchored, ConfirmInv
  <2>4. QED
    BY <2>1, <2>2, <2>3, FreshNext DEF Wrote, Batched, Republished
<1>4. ASSUME NEW r \in Calls, pc'[r] = "readPending"
      PROVE  Pending(events') # {}
  <2>1. CASE AppendEvent(r)
    <3>1. /\ Len(events) + 1 \in DOMAIN events'
          /\ events'[Len(events) + 1] = NewRecord(r, events)
      BY <1>t, <1>w, <2>1 DEF Appended
    <3>2. NewRecord(r, events).ledger_batch_id = Null
      BY DEF NewRecord
    <3>3. QED
      BY <3>1, <3>2 DEF Pending
  <2>2. CASE pc[r] = "readPending"
    <3>1. \A q \in Calls : ~ AppendEvent(q) /\ ~ RewriteEvents(q)
      BY <1>a, <1>p, <1>w, <2>2 DEF AppendPcs
    <3>2. events' = events
      BY <3>1, FreshNext DEF Wrote, Batched, Republished
    <3>3. QED
      BY <2>2, <3>2 DEF ConfirmInv
  <2>3. QED
    BY <1>4, <2>1, <2>2, ConfirmFrame
<1>5. ASSUME NEW r \in Calls, pc'[r] = "rewriteEvents"
      PROVE  StoredIn(batches', batch'[r].batch_id)
  <2>1. CASE AppendBatch(r) /\ batch'[r] = batch[r]
    <3>1. batches' = Append(batches, batch[r])
      BY <2>1 DEF AppendBatch, AppendLine, FreshInv
    <3>2. Len(batches) + 1 \in DOMAIN batches' /\ batches'[Len(batches) + 1] = batch[r]
      BY <1>t, <3>1
    <3>3. QED
      BY <2>1, <3>2 DEF StoredIn
  <2>2. CASE pc[r] = "rewriteEvents" /\ batch'[r] = batch[r]
    <3>1. \A q \in Calls : ~ AppendBatch(q) /\ ~ RewriteBatches(q)
      BY <1>a, <1>p, <1>w, <2>2 DEF AppendPcs, PublishPcs
    <3>2. batches' = batches
      BY <3>1, FreshNext DEF Wrote, Appended, Anchored
    <3>3. QED
      BY <2>2, <3>2 DEF ConfirmInv
  <2>3. QED
    BY <1>5, <2>1, <2>2, ConfirmFrame
<1>6. ASSUME NEW r \in Calls, pc'[r] = "readAnchored"
      PROVE  Pending(events') = {}
  <2>1. CASE RewriteEvents(r)
    <3>1. Anchored(batch[r])
      BY <1>w, <2>1
    <3>2. /\ DOMAIN events' = DOMAIN events
          /\ \A i \in DOMAIN events : events'[i].ledger_batch_id # Null
      BY <1>t, <3>1, AnchoredStamps
    <3>3. QED
      BY <3>2 DEF Pending
  <2>2. CASE pc[r] = "readAnchored"
    <3>1. \A q \in Calls : ~ AppendEvent(q) /\ ~ RewriteEvents(q)
      BY <1>a, <1>p, <1>w, <2>2 DEF AppendPcs
    <3>2. events' = events
      BY <3>1, FreshNext DEF Wrote, Batched, Republished
    <3>3. QED
      BY <2>2, <3>2 DEF ConfirmInv
  <2>3. QED
    BY <1>6, <2>1, <2>2, ConfirmFrame
<1>7. QED
  BY <1>1, <1>2, <1>3, <1>4, <1>5, <1>6 DEF ConfirmInv

(* Where calls do not overlap and event ids are not reused, a proof that    *)
(* was answered with a ledger anchor is confirmed by verifyProofPackage     *)
(* from then on: however many events follow it, whatever batches they are   *)
(* anchored and published in, and wherever a crash interrupts that.         *)
THEOREM AnchoredProofsStayConfirmed ==
  ASSUME SerialStore, "reuse" \notin Hazards, NullIsNothingElse
  PROVE  Spec => []AnchoredStaysConfirmed
<1>1. Init => RootInv /\ KeptInv /\ ConfirmInv
  <2>1. Init => RootInv
    BY RootAtInit
  <2>2. Init => KeptInv
    BY KeptAtInit
  <2>3. Init => ConfirmInv
    BY DEF Init, ConfirmInv, References, AckedAnchored, Acked, At
  <2>4. QED
    BY <2>1, <2>2, <2>3
<1>2. TypeInv /\ FreshInv /\ (RootInv /\ KeptInv /\ ConfirmInv) /\ [Next]_vars
        => (RootInv /\ KeptInv /\ ConfirmInv)'
  <2>1. TypeInv /\ RootInv /\ [Next]_vars => RootInv'
    BY RootNext DEF SerialStore
  <2>2. QED
    BY <2>1, KeptNext, ConfirmNext
<1>3. TypeInv /\ RootInv /\ ConfirmInv => AnchoredStaysConfirmed
  BY StandingConfirmed DEF ConfirmInv, AnchoredStaysConfirmed
<1>4. QED
  BY FreshHolds, <1>1, <1>2, <1>3, PTL DEF Spec
=============================================================================
