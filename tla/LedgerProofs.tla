---------------------------- MODULE LedgerProofs ----------------------------
(***************************************************************************)
(* The types of Ledger, for every set of calls, every bound on the calls in *)
(* flight and every hazard; and its Merkle trees, for every list of leaves: *)
(* the root is the one of the perfect tree, binds the list, and is led to   *)
(* by the proofs of its leaves and no others.                              *)
(***************************************************************************)
EXTENDS Ledger, MCMerkleTree, WellFoundedInduction, SequenceTheorems, FiniteSetTheorems, TLAPS

-----------------------------------------------------------------------------
(* The types of the stores, as sets: what TypeOK says record by record, and *)
(* that an anchor is a Merkle root of content hashes.                      *)

Roots ==
  {BuildMerkleRoot(InOrder(f)) : f \in UNION {[I -> Calls] : I \in SUBSET Nat}}
    \cup {Null}

EventType ==
  [event_id : Calls, content_hash : Calls, sequence : Nat \ {0},
   previous_anchor : Seq(Calls), chain_anchor : Seq(Calls),
   ledger_batch_id : Calls \cup {Null}, ledger_anchor : Roots]

BatchType ==
  [batch_id : Calls, root_hash : Roots, event_ids : SUBSET Calls,
   previous_batch_anchor : Seq(Calls), batch_anchor : Seq(Calls),
   blockchain_tx : Calls \cup {Null}]

AppendPcs == {"readLatest", "appendEvent", "readPending", "readLatestBatch",
                 "appendBatch", "rewriteEvents", "writeEvents", "readAnchored"}

StoresTyped ==
  /\ events \in Seq(EventType) /\ batches \in Seq(BatchType)
  /\ eventsTorn \in BOOLEAN /\ batchesTorn \in BOOLEAN

CallsTyped ==
  /\ pc \in [Calls -> Steps]
  /\ op \in [Calls -> {"append", "publish", Null}]
  /\ eventId \in [Calls -> Calls \cup {Null}]
  /\ anchorNow \in [Calls -> BOOLEAN]
  /\ target \in [Calls -> Calls \cup {Null}]

LocalsTyped ==
  /\ record \in [Calls -> EventType \cup {Null}]
  /\ snapshot \in [Calls -> Seq(EventType)]
  /\ batch \in [Calls -> BatchType \cup {Null}]
  /\ batchSnap \in [Calls -> Seq(BatchType)]
  /\ answer \in [Calls -> EventType \cup {Null}]

\* A local that the step a call is at uses has been assigned.
LocalsReady ==
  \A r \in Calls :
    /\ pc[r] \in AppendPcs => eventId[r] \in Calls
    /\ pc[r] \in {"appendEvent", "readPending"} => record[r] \in EventType
    /\ pc[r] \in {"appendBatch", "rewriteEvents", "writeEvents"} => batch[r] \in BatchType

TypeInv == StoresTyped /\ CallsTyped /\ LocalsTyped /\ LocalsReady

-----------------------------------------------------------------------------
(* A non-empty set of numbers has a least element, which Min returns. *)
LEMMA MinIsIn ==
  ASSUME NEW I \in SUBSET Nat, I # {}
  PROVE  Min(I) \in I
<1>1. PICK i \in I : \A j \in I : ~ (<<j, i>> \in OpToRel(<, Nat))
  BY WFMin, NatLessThanWellFounded
<1>2. ASSUME NEW j \in I, j < i
      PROVE  FALSE
  <2>1. <<j, i>> \in OpToRel(<, Nat)
    BY <1>2 DEF OpToRel
  <2>2. QED
    BY <1>1, <2>1
<1>3. \A j \in I : i <= j
  BY <1>2
<1>4. QED
  BY <1>3 DEF Min

(* What FileLedger finds in a file of events or of batches is a record of   *)
(* that file, or null.                                                     *)
LEMMA GetEventType ==
  ASSUME NEW file \in Seq(EventType), NEW id
  PROVE  GetEvent(file, id) \in EventType \cup {Null}
<1> DEFINE M == {i \in DOMAIN file : file[i].event_id = id}
<1>1. CASE M = {}
  BY <1>1 DEF GetEvent
<1>2. CASE M # {}
  <2>1. M \in SUBSET Nat /\ M \subseteq DOMAIN file
    OBVIOUS
  <2>2. Min(M) \in DOMAIN file
    BY <1>2, <2>1, MinIsIn
  <2>3. GetEvent(file, id) = file[Min(M)]
    BY <1>2 DEF GetEvent
  <2>4. QED
    BY <2>2, <2>3
<1>3. QED
  BY <1>1, <1>2

(* The root computed over any set of positions of an event file is a root.  *)
LEMMA RootType ==
  ASSUME NEW file \in Seq(EventType), NEW I \in SUBSET DOMAIN file
  PROVE  BuildMerkleRoot(Hashes(file, I)) \in Roots
<1> DEFINE f == [i \in I |-> file[i].content_hash]
<1>1. I \in SUBSET Nat
  OBVIOUS
<1>2. \A i \in I : file[i] \in EventType
  OBVIOUS
<1>3. \A i \in I : file[i].content_hash \in Calls
  BY <1>2 DEF EventType
<1>4. f \in [I -> Calls]
  BY <1>3
<1>5. f \in UNION {[J -> Calls] : J \in SUBSET Nat}
  BY <1>1, <1>4
<1>6. QED
  BY <1>5 DEF Roots, Hashes

LEMMA NewRecordType ==
  ASSUME TypeInv, NEW r \in Calls, eventId[r] \in Calls
  PROVE  NewRecord(r, events) \in EventType
<1>1. CASE events = <<>>
  BY <1>1 DEF NewRecord, EventType, Roots
<1>2. CASE events # <<>>
  <2>1. events[Len(events)] \in EventType
    BY <1>2 DEF TypeInv, StoresTyped
  <2>2. /\ events[Len(events)].chain_anchor \in Seq(Calls)
        /\ events[Len(events)].sequence \in Nat \ {0}
    BY <2>1 DEF EventType
  <2>3. /\ Append(events[Len(events)].chain_anchor, r) \in Seq(Calls)
        /\ events[Len(events)].sequence + 1 \in Nat \ {0}
    BY <2>2
  <2>4. QED
    BY <1>2, <2>2, <2>3 DEF NewRecord, EventType, Roots
<1>3. QED
  BY <1>1, <1>2

LEMMA NewBatchType ==
  ASSUME NEW file \in Seq(EventType), NEW batchFile \in Seq(BatchType), NEW r \in Calls
  PROVE  NewBatch(r, file, batchFile) \in BatchType
<1> DEFINE previous == IF batchFile = <<>> THEN <<>> ELSE batchFile[Len(batchFile)].batch_anchor
<1>1. previous \in Seq(Calls)
  <2>1. CASE batchFile = <<>>
    BY <2>1
  <2>2. CASE batchFile # <<>>
    <3>1. batchFile[Len(batchFile)] \in BatchType
      BY <2>2
    <3>2. QED
      BY <2>2, <3>1 DEF BatchType
  <2>3. QED
    BY <2>1, <2>2
<1>2. Append(previous, r) \in Seq(Calls)
  BY <1>1
<1>3. Pending(file) \in SUBSET DOMAIN file
  BY DEF Pending
<1>4. BuildMerkleRoot(Hashes(file, Pending(file))) \in Roots
  BY <1>3, RootType
<1>5. \A i \in DOMAIN file : file[i] \in EventType
  OBVIOUS
<1>6. \A i \in DOMAIN file : file[i].event_id \in Calls
  BY <1>5 DEF EventType
<1>7. EventIds(file, Pending(file)) \in SUBSET Calls
  BY <1>3, <1>6 DEF EventIds
<1>8. QED
  BY <1>1, <1>2, <1>4, <1>7 DEF NewBatch, BatchType

(* Stamping keeps the length of the file and every field but the stamp.     *)
LEMMA StampedProperties ==
  ASSUME NEW file \in Seq(EventType), NEW b \in BatchType
  PROVE  /\ Stamped(file, b) \in Seq(EventType)
         /\ DOMAIN Stamped(file, b) = DOMAIN file
         /\ \A i \in DOMAIN file :
              /\ Stamped(file, b)[i].event_id = file[i].event_id
              /\ Stamped(file, b)[i].content_hash = file[i].content_hash
              /\ file[i].event_id \in b.event_ids =>
                   /\ Stamped(file, b)[i].ledger_batch_id = b.batch_id
                   /\ Stamped(file, b)[i].ledger_anchor = b.root_hash
              /\ file[i].event_id \notin b.event_ids => Stamped(file, b)[i] = file[i]
<1>1. \A i \in DOMAIN file : file[i] \in EventType
  OBVIOUS
<1>2. b.batch_id \in Calls /\ b.root_hash \in Roots
  BY DEF BatchType
<1>3. \A i \in DOMAIN file : Stamp(file[i], b) \in EventType
  BY <1>1, <1>2 DEF Stamp, EventType
<1>4. \A i \in DOMAIN file : Stamped(file, b)[i] \in EventType
  BY <1>1, <1>3 DEF Stamped
<1>5. DOMAIN Stamped(file, b) = DOMAIN file
  BY DEF Stamped
<1>6. Stamped(file, b) \in Seq(EventType)
  <2>1. Stamped(file, b) \in [1 .. Len(file) -> EventType]
    BY <1>1, <1>3 DEF Stamped
  <2>2. QED
    BY <2>1
<1>7. QED
  BY <1>1, <1>5, <1>6 DEF Stamped, Stamp, EventType

LEMMA PublishedType ==
  ASSUME NEW file \in Seq(BatchType), NEW r \in Calls
  PROVE  /\ Published(file, r) \in Seq(BatchType)
         /\ DOMAIN Published(file, r) = DOMAIN file
         /\ \A k \in DOMAIN file :
              /\ Published(file, r)[k].batch_id = file[k].batch_id
              /\ Published(file, r)[k].root_hash = file[k].root_hash
<1>1. \A i \in DOMAIN file : file[i] \in BatchType
  OBVIOUS
<1>2. \A i \in DOMAIN file : [file[i] EXCEPT !.blockchain_tx = r] \in BatchType
  BY <1>1 DEF BatchType
<1>3. Published(file, r) \in [1 .. Len(file) -> BatchType]
  BY <1>1, <1>2 DEF Published
<1>4. \A i \in DOMAIN file :
        /\ Published(file, r)[i].batch_id = file[i].batch_id
        /\ Published(file, r)[i].root_hash = file[i].root_hash
  BY <1>1 DEF Published, BatchType
<1>5. QED
  BY <1>3, <1>4

(* What writeFile leaves of a file consists of lines of its own content and *)
(* lines the file had.                                                     *)
LEMMA WriteOverType ==
  ASSUME NEW T, NEW file \in Seq(T), NEW content \in Seq(T),
         NEW out \in WriteOver(file, content)
  PROVE  /\ out \in Seq(T)
         /\ \A i \in DOMAIN out :
              \/ \E j \in DOMAIN content : out[i] = content[j]
              \/ \E j \in DOMAIN file : out[i] = file[j]
<1>1. PICK k \in IF file = <<>> THEN {1} ELSE 1 .. Len(file) :
        out = content \o SubSeq(file, k + 1, Len(file))
  BY DEF WriteOver
<1> DEFINE tail == SubSeq(file, k + 1, Len(file))
<1>2. k \in Nat \ {0}
  OBVIOUS
<1>3. /\ tail \in Seq(T)
      /\ Len(tail) = IF k + 1 <= Len(file) THEN Len(file) - k ELSE 0
      /\ \A i \in 1 .. Len(file) - k : tail[i] = file[k + i]
  <2>1. k + 1 \in Int /\ Len(file) \in Int /\ \A i \in k + 1 .. Len(file) : file[i] \in T
    BY <1>2
  <2>2. QED
    BY <1>2, <2>1, SubSeqProperties
<1>4. /\ out \in Seq(T)
      /\ Len(out) = Len(content) + Len(tail)
      /\ \A i \in 1 .. Len(content) + Len(tail) :
           out[i] = IF i <= Len(content) THEN content[i] ELSE tail[i - Len(content)]
  BY <1>1, <1>3, ConcatProperties
<1>5. ASSUME NEW i \in DOMAIN out
      PROVE  \/ \E j \in DOMAIN content : out[i] = content[j]
             \/ \E j \in DOMAIN file : out[i] = file[j]
  <2>1. i \in 1 .. Len(content) + Len(tail)
    BY <1>4
  <2>2. CASE i <= Len(content)
    BY <1>4, <2>1, <2>2
  <2>3. CASE i > Len(content)
    <3> DEFINE j == i - Len(content)
    <3> HIDE DEF tail
    <3>a. Len(tail) \in Nat /\ Len(content) \in Nat
      BY <1>3
    <3>b. ~ (i <= Len(content)) /\ j \in 1 .. Len(tail)
      BY <2>1, <2>3, <3>a
    <3>1. j \in 1 .. Len(tail) /\ out[i] = tail[j]
      BY <1>4, <2>1, <3>b
    <3>2. j \in 1 .. Len(file) - k /\ k + j \in DOMAIN file
      BY <1>2, <1>3, <3>1
    <3>3. QED
      BY <1>3, <3>1, <3>2
  <2>4. QED
    BY <2>1, <2>2, <2>3
<1>6. QED
  BY <1>4, <1>5

LEMMA PrefixType ==
  ASSUME NEW T, NEW content \in Seq(T), NEW out \in Prefixes(content)
  PROVE  /\ out \in Seq(T)
         /\ \A i \in DOMAIN out : i \in DOMAIN content /\ out[i] = content[i]
<1>1. PICK l \in 0 .. Len(content) : out = SubSeq(content, 1, l)
  BY DEF Prefixes
<1>2. 1 \in Int /\ l \in Int /\ \A i \in 1 .. l : content[i] \in T
  OBVIOUS
<1>3. /\ out \in Seq(T)
      /\ Len(out) = IF 1 <= l THEN l ELSE 0
      /\ \A i \in 1 .. l : out[i] = content[i]
  BY <1>1, <1>2, SubSeqProperties
<1>4. QED
  BY <1>3
-----------------------------------------------------------------------------
(* Type correctness *)

LEMMA TypeInit ==
  ASSUME Init
  PROVE  TypeInv
<1>1. /\ events \in Seq(EventType) /\ batches \in Seq(BatchType)
      /\ snapshot \in [Calls -> Seq(EventType)]
      /\ batchSnap \in [Calls -> Seq(BatchType)]
  BY DEF Init
<1>2. \A r \in Calls : pc[r] = "idle"
  BY DEF Init
<1>3. QED
  BY <1>1, <1>2 DEF Init, TypeInv, StoresTyped, CallsTyped, LocalsTyped, LocalsReady, Steps, AppendPcs

LEMMA TypeNext ==
  ASSUME TypeInv, [Next]_vars
  PROVE  TypeInv'
<1> USE DEF TypeInv, StoresTyped, CallsTyped, LocalsTyped, LocalsReady,
   stores, args, locals, At, Goto, Steps, Settled, AppendPcs
<1>1. ASSUME NEW r \in Calls, StartAppend(r)
      PROVE  TypeInv'
  <2>a. PICK id \in IdsFor(r) : eventId' = [eventId EXCEPT ![r] = id]
    BY <1>1 DEF StartAppend
  <2>b. id \in Calls
    BY DEF IdsFor
  <2>1. StoresTyped'
    BY <1>1, <2>a, <2>b DEF StartAppend
  <2>2. CallsTyped'
    BY <1>1, <2>a, <2>b DEF StartAppend
  <2>3. LocalsTyped'
    BY <1>1, <2>a, <2>b DEF StartAppend
  <2>4. LocalsReady'
    BY <1>1, <2>a, <2>b DEF StartAppend
  <2>5. QED
    BY <2>1, <2>2, <2>3, <2>4 DEF TypeInv
<1>2. ASSUME NEW r \in Calls, ReadLatest(r)
      PROVE  TypeInv'
  <2>a. NewRecord(r, events) \in EventType
    BY <1>2, NewRecordType DEF ReadLatest
  <2>1. StoresTyped'
    BY <1>2, <2>a DEF ReadLatest
  <2>2. CallsTyped'
    BY <1>2, <2>a DEF ReadLatest
  <2>3. LocalsTyped'
    BY <1>2, <2>a DEF ReadLatest
  <2>4. LocalsReady'
    BY <1>2, <2>a DEF ReadLatest
  <2>5. QED
    BY <2>1, <2>2, <2>3, <2>4 DEF TypeInv
<1>3. ASSUME NEW r \in Calls, AppendEvent(r)
      PROVE  TypeInv'
  <2>a. record[r] \in EventType
    BY <1>3 DEF AppendEvent
  <2>b. AppendLine(events, eventsTorn, record[r]) \in Seq(EventType)
    BY <2>a DEF AppendLine
  <2>1. StoresTyped'
    BY <1>3, <2>a, <2>b DEF AppendEvent
  <2>2. CallsTyped'
    BY <1>3, <2>a, <2>b DEF AppendEvent
  <2>3. LocalsTyped'
    <3>1. CASE anchorNow[r]
      BY <1>3, <3>1 DEF AppendEvent
    <3>2. CASE ~ anchorNow[r]
      <4>1. /\ record' = [record EXCEPT ![r] = Null]
            /\ answer' = [answer EXCEPT ![r] = record[r]]
            /\ UNCHANGED <<snapshot, batch, batchSnap>>
        BY <1>3, <3>2, Zenon DEF AppendEvent
      <4>2. QED
        BY <2>a, <4>1
    <3>3. QED
      BY <3>1, <3>2
  <2>4. LocalsReady'
    BY <1>3, <2>a, <2>b DEF AppendEvent
  <2>5. QED
    BY <2>1, <2>2, <2>3, <2>4 DEF TypeInv
<1>4. ASSUME NEW r \in Calls, ReadPending(r)
      PROVE  TypeInv'
  <2>1. StoresTyped'
    BY <1>4 DEF ReadPending
  <2>2. CallsTyped'
    <3>1. /\ \E step \in {"done", "readLatestBatch"} : pc' = [pc EXCEPT ![r] = step]
          /\ UNCHANGED args
      BY <1>4, Zenon DEF ReadPending
    <3>2. QED
      BY <3>1
  <2>3. LocalsTyped'
    <3>1. CASE Pending(events) = {}
      <4>1. record[r] \in EventType
        BY <1>4 DEF ReadPending
      <4>2. /\ record' = [record EXCEPT ![r] = Null]
            /\ answer' = [answer EXCEPT ![r] = record[r]]
            /\ UNCHANGED <<snapshot, batch, batchSnap>>
        BY <1>4, <3>1, Zenon DEF ReadPending
      <4>3. QED
        BY <4>1, <4>2
    <3>2. CASE Pending(events) # {}
      <4>1. /\ snapshot' = [snapshot EXCEPT ![r] = events]
            /\ UNCHANGED <<record, answer, batch, batchSnap>>
        BY <1>4, <3>2, Zenon DEF ReadPending
      <4>2. QED
        BY <4>1
    <3>3. QED
      BY <3>1, <3>2
  <2>4. LocalsReady'
    BY <1>4 DEF ReadPending
  <2>5. QED
    BY <2>1, <2>2, <2>3, <2>4 DEF TypeInv
<1>5. ASSUME NEW r \in Calls, ReadLatestBatch(r)
      PROVE  TypeInv'
  <2>a. NewBatch(r, snapshot[r], batches) \in BatchType
    BY NewBatchType
  <2>1. StoresTyped'
    BY <1>5, <2>a DEF ReadLatestBatch
  <2>2. CallsTyped'
    BY <1>5, <2>a DEF ReadLatestBatch
  <2>3. LocalsTyped'
    BY <1>5, <2>a DEF ReadLatestBatch
  <2>4. LocalsReady'
    BY <1>5, <2>a DEF ReadLatestBatch
  <2>5. QED
    BY <2>1, <2>2, <2>3, <2>4 DEF TypeInv
<1>6. ASSUME NEW r \in Calls, AppendBatch(r)
      PROVE  TypeInv'
  <2>a. AppendLine(batches, batchesTorn, batch[r]) \in Seq(BatchType)
    BY <1>6 DEF AppendBatch, AppendLine
  <2>1. StoresTyped'
    BY <1>6, <2>a DEF AppendBatch
  <2>2. CallsTyped'
    BY <1>6, <2>a DEF AppendBatch
  <2>3. LocalsTyped'
    BY <1>6, <2>a DEF AppendBatch
  <2>4. LocalsReady'
    BY <1>6, <2>a DEF AppendBatch
  <2>5. QED
    BY <2>1, <2>2, <2>3, <2>4 DEF TypeInv
<1>7. ASSUME NEW r \in Calls, RewriteEvents(r)
      PROVE  TypeInv'
  <2>a. batch[r] \in BatchType /\ snapshot[r] \in Seq(EventType)
    BY <1>7 DEF RewriteEvents
  <2>b. Stamped(snapshot[r], batch[r]) \in Seq(EventType)
    BY <2>a, StampedProperties
  <2>1. StoresTyped'
    <3>1. events' = <<>> \/ events' = Stamped(snapshot[r], batch[r])
      BY <1>7 DEF RewriteEvents
    <3>2. events' \in Seq(EventType)
      <4>1. <<>> \in Seq(EventType)
        OBVIOUS
      <4>2. QED
        BY <2>b, <3>1, <4>1, Zenon
    <3>3. UNCHANGED <<batches, batchesTorn>> /\ eventsTorn' = FALSE
      BY <1>7, Zenon DEF RewriteEvents
    <3>4. eventsTorn' \in BOOLEAN /\ batchesTorn' \in BOOLEAN
      BY <3>3, Zenon
    <3>5. batches' \in Seq(BatchType)
      BY <3>3
    <3>6. QED
      BY <3>2, <3>4, <3>5, Zenon
  <2>2. CallsTyped'
    BY <1>7, <2>b DEF RewriteEvents
  <2>3. LocalsTyped'
    BY <1>7, <2>b DEF RewriteEvents
  <2>4. LocalsReady'
    BY <1>7, <2>b DEF RewriteEvents
  <2>5. QED
    BY <2>1, <2>2, <2>3, <2>4 DEF TypeInv
<1>8. ASSUME NEW r \in Calls, WriteEvents(r)
      PROVE  TypeInv'
  <2>a. batch[r] \in BatchType /\ snapshot[r] \in Seq(EventType)
    BY <1>8 DEF WriteEvents
  <2>b. Stamped(snapshot[r], batch[r]) \in Seq(EventType)
    BY <2>a, StampedProperties
  <2>c. events' \in Seq(EventType)
    BY <1>8, <2>b, WriteOverType DEF WriteEvents
  <2>1. StoresTyped'
    BY <1>8, <2>c DEF WriteEvents
  <2>2. CallsTyped'
    BY <1>8, <2>c DEF WriteEvents
  <2>3. LocalsTyped'
    BY <1>8, <2>c DEF WriteEvents
  <2>4. LocalsReady'
    BY <1>8, <2>c DEF WriteEvents
  <2>5. QED
    BY <2>1, <2>2, <2>3, <2>4 DEF TypeInv
<1>9. ASSUME NEW r \in Calls, ReadAnchored(r)
      PROVE  TypeInv'
  <2>a. GetEvent(events, eventId[r]) \in EventType \cup {Null}
    BY GetEventType
  <2>1. StoresTyped'
    BY <1>9, <2>a DEF ReadAnchored
  <2>2. CallsTyped'
    BY <1>9, <2>a DEF ReadAnchored
  <2>3. LocalsTyped'
    BY <1>9, <2>a DEF ReadAnchored
  <2>4. LocalsReady'
    BY <1>9, <2>a DEF ReadAnchored
  <2>5. QED
    BY <2>1, <2>2, <2>3, <2>4 DEF TypeInv
<1>10. ASSUME NEW r \in Calls, StartPublish(r)
      PROVE  TypeInv'
  <2>a. PICK i \in DOMAIN batches : target' = [target EXCEPT ![r] = batches[i].batch_id]
    BY <1>10 DEF StartPublish
  <2>b. batches[i] \in BatchType
    OBVIOUS
  <2>c. batches[i].batch_id \in Calls
    BY <2>b DEF BatchType
  <2>1. StoresTyped'
    BY <1>10, <2>a, <2>c DEF StartPublish
  <2>2. CallsTyped'
    BY <1>10, <2>a, <2>c DEF StartPublish
  <2>3. LocalsTyped'
    BY <1>10, <2>a, <2>c DEF StartPublish
  <2>4. LocalsReady'
    BY <1>10, <2>a, <2>c DEF StartPublish
  <2>5. QED
    BY <2>1, <2>2, <2>3, <2>4 DEF TypeInv
<1>11. ASSUME NEW r \in Calls, ReadBatches(r)
      PROVE  TypeInv'
  <2>1. StoresTyped'
    BY <1>11 DEF ReadBatches
  <2>2. CallsTyped'
    <3>1. /\ \E step \in {"notFound", "publish"} : pc' = [pc EXCEPT ![r] = step]
          /\ UNCHANGED args
      BY <1>11, Zenon DEF ReadBatches
    <3>2. QED
      BY <3>1
  <2>3. LocalsTyped'
    BY <1>11 DEF ReadBatches
  <2>4. LocalsReady'
    BY <1>11 DEF ReadBatches
  <2>5. QED
    BY <2>1, <2>2, <2>3, <2>4 DEF TypeInv
<1>12. ASSUME NEW r \in Calls, PublisherAnswers(r)
      PROVE  TypeInv'
  <2>1. StoresTyped'
    BY <1>12 DEF PublisherAnswers
  <2>2. CallsTyped'
    BY <1>12 DEF PublisherAnswers
  <2>3. LocalsTyped'
    BY <1>12 DEF PublisherAnswers
  <2>4. LocalsReady'
    BY <1>12 DEF PublisherAnswers
  <2>5. QED
    BY <2>1, <2>2, <2>3, <2>4 DEF TypeInv
<1>13. ASSUME NEW r \in Calls, RewriteBatches(r)
      PROVE  TypeInv'
  <2>a. Published(batchSnap[r], r) \in Seq(BatchType)
    BY PublishedType
  <2>1. StoresTyped'
    <3>1. batches' = <<>> \/ batches' = Published(batchSnap[r], r)
      BY <1>13 DEF RewriteBatches
    <3>2. batches' \in Seq(BatchType)
      <4>1. <<>> \in Seq(BatchType)
        OBVIOUS
      <4>2. QED
        BY <2>a, <3>1, <4>1, Zenon
    <3>3. UNCHANGED <<events, eventsTorn>> /\ batchesTorn' = FALSE
      BY <1>13, Zenon DEF RewriteBatches
    <3>4. eventsTorn' \in BOOLEAN /\ batchesTorn' \in BOOLEAN
      BY <3>3, Zenon
    <3>5. events' \in Seq(EventType)
      BY <3>3
    <3>6. QED
      BY <3>2, <3>4, <3>5, Zenon
  <2>2. CallsTyped'
    BY <1>13, <2>a DEF RewriteBatches
  <2>3. LocalsTyped'
    BY <1>13, <2>a DEF RewriteBatches
  <2>4. LocalsReady'
    BY <1>13, <2>a DEF RewriteBatches
  <2>5. QED
    BY <2>1, <2>2, <2>3, <2>4 DEF TypeInv
<1>14. ASSUME NEW r \in Calls, WriteBatches(r)
      PROVE  TypeInv'
  <2>a. Published(batchSnap[r], r) \in Seq(BatchType)
    BY PublishedType
  <2>b. batches' \in Seq(BatchType)
    BY <1>14, <2>a, WriteOverType DEF WriteBatches
  <2>1. StoresTyped'
    BY <1>14, <2>b DEF WriteBatches
  <2>2. CallsTyped'
    BY <1>14, <2>b DEF WriteBatches
  <2>3. LocalsTyped'
    BY <1>14, <2>b DEF WriteBatches
  <2>4. LocalsReady'
    BY <1>14, <2>b DEF WriteBatches
  <2>5. QED
    BY <2>1, <2>2, <2>3, <2>4 DEF TypeInv
<1>15. ASSUME Crash
       PROVE  TypeInv'
  <2>1. events' \in Seq(EventType)
    <3>1. \A r \in Calls : At(r, "writeEvents") => Stamped(snapshot[r], batch[r]) \in Seq(EventType)
      BY StampedProperties
    <3>2. QED
      BY <1>15, <3>1, PrefixType DEF Crash, AfterCrash
  <2>2. batches' \in Seq(BatchType)
    <3>1. \A r \in Calls : Published(batchSnap[r], r) \in Seq(BatchType)
      BY PublishedType
    <3>2. QED
      BY <1>15, <3>1, PrefixType DEF Crash, AfterCrash
  <2>3. \A r \in Calls : pc'[r] \in Settled \cup {"idle"}
    <3>1. pc' = [r \in Calls |-> IF InFlight(r) THEN "crashed" ELSE pc[r]]
      BY <1>15, Zenon DEF Crash
    <3>2. \A r \in Calls : ~ InFlight(r) => pc[r] \in Settled \cup {"idle"}
      BY DEF InFlight
    <3>3. QED
      BY <3>1, <3>2, Zenon DEF Settled
  <2>4. StoresTyped'
    BY <1>15, <2>1, <2>2 DEF Crash
  <2>5. CallsTyped'
    <3>1. pc' = [r \in Calls |-> IF InFlight(r) THEN "crashed" ELSE pc[r]]
      BY <1>15, Zenon DEF Crash
    <3>2. UNCHANGED args
      BY <1>15, Zenon DEF Crash
    <3>3. QED
      BY <3>1, <3>2
  <2>6. LocalsTyped'
    BY <1>15 DEF Crash
  <2>7. LocalsReady'
    BY <1>15, <2>3 DEF Crash
  <2>8. QED
    BY <2>4, <2>5, <2>6, <2>7 DEF TypeInv
<1>16. CASE UNCHANGED vars
  BY <1>16 DEF vars
<1>17. QED
  BY <1>1, <1>2, <1>3, <1>4, <1>5, <1>6, <1>7, <1>8, <1>9, <1>10, <1>11, <1>12,
     <1>13, <1>14, <1>15, <1>16
     DEF Next, AppendSteps, PublishSteps, AllSettled

(* In every reachable state the stores and the locals of the calls hold     *)
(* records of the shape FileLedger builds, whatever the environment does.   *)
THEOREM TypeCorrect == Spec => []TypeInv
<1>1. TypeInv /\ [Next]_vars => TypeInv'
  BY TypeNext
<1>2. QED
  BY TypeInit, <1>1, PTL DEF Spec

LEMMA TypeInvImplies == TypeInv => TypeOK
<1>1. ASSUME NEW e \in EventType
      PROVE  IsEvent(e)
  BY DEF EventType, IsEvent
<1>2. ASSUME NEW b \in BatchType
      PROVE  IsBatch(b)
  BY DEF BatchType, IsBatch
<1>3. \A s \in Seq(EventType) : AllEvents(s)
  BY <1>1 DEF AllEvents
<1>4. \A s \in Seq(BatchType) : AllBatches(s)
  BY <1>2 DEF AllBatches
<1>5. QED
  BY <1>1, <1>2, <1>3, <1>4 DEF TypeInv, StoresTyped, CallsTyped, LocalsTyped, LocalsReady, TypeOK, At

(* The type invariant the model checker evaluates holds for every instance. *)
THEOREM TypeOKHolds == Spec => []TypeOK
  BY TypeCorrect, TypeInvImplies, PTL

-----------------------------------------------------------------------------
(* The tree functions, for every number of leaves.  The functions they are  *)
(* written with recurse on numbers or on sets: each of them is shown to     *)
(* exist, one argument at a time, before its equation is used.              *)

(* Induction: what holds of 0, and of k + 1 whenever of k, holds up to n.   *)
LEMMA UpTo ==
  ASSUME NEW n \in Nat, NEW H, 0 \in H, \A k \in 0 .. n - 1 : k \in H => k + 1 \in H
  PROVE  \A k \in 0 .. n : k \in H
<1> DEFINE I == {k \in 0 .. n : k \notin H}
<1>1. SUFFICES ASSUME I # {} PROVE FALSE
  OBVIOUS
<1>2. I \in SUBSET Nat
  OBVIOUS
<1>3. PICK i \in I : \A j \in I : ~ (<<j, i>> \in OpToRel(<, Nat))
  BY <1>1, <1>2, WFMin, NatLessThanWellFounded
<1>3a. i \in 0 .. n /\ i \notin H
  OBVIOUS
<1>4. i \in 1 .. n /\ i - 1 \in 0 .. n - 1 /\ i - 1 < i
  <2>1. i # 0
    BY <1>3a
  <2>2. QED
    BY <1>3a, <2>1
<1>5. i - 1 \notin I
  <2>1. <<i - 1, i>> \in OpToRel(<, Nat)
    BY <1>4 DEF OpToRel
  <2>2. QED
    BY <1>3, <2>1
<1>6. i - 1 \in H
  BY <1>4, <1>5
<1>7. i \in H
  BY <1>4, <1>6
<1>8. QED
  BY <1>3, <1>7

(* A function on 1 .. m is a sequence of length m.                          *)
LEMMA AsSequence ==
  ASSUME NEW m \in Nat, NEW f, f = [i \in 1 .. m |-> f[i]]
  PROVE  /\ f \in Seq({f[i] : i \in 1 .. m})
         /\ Len(f) = m /\ DOMAIN f = 1 .. m
<1>1. f \in [1 .. m -> {f[i] : i \in 1 .. m}]
  BY Zenon
<1>2. QED
  BY <1>1

IsLevel(level) == \E S : level \in Seq(S)

(* A round halves a level, rounding up.                                     *)
LEMMA NextLevelLength ==
  ASSUME NEW level, IsLevel(level)
  PROVE  /\ IsLevel(NextLevel(level))
         /\ Len(NextLevel(level)) = (Len(level) + 1) \div 2
         /\ DOMAIN NextLevel(level) = 1 .. (Len(level) + 1) \div 2
<1> DEFINE m == (Len(level) + 1) \div 2
<1>1. Len(level) \in Nat
  BY DEF IsLevel
<1>2. m \in Nat
  BY <1>1
<1>3. NextLevel(level) = [k \in 1 .. m |-> NextLevel(level)[k]]
  BY DEF NextLevel
<1> HIDE DEF m
<1>4. /\ NextLevel(level) \in Seq({NextLevel(level)[i] : i \in 1 .. m})
      /\ Len(NextLevel(level)) = m /\ DOMAIN NextLevel(level) = 1 .. m
  BY <1>2, <1>3, AsSequence
<1>5. QED
  BY <1>4 DEF IsLevel, m

(* Going up one step from any node reaches its parent.                      *)
LEMMA AscendStep ==
  ASSUME NEW level, IsLevel(level), NEW i \in 0 .. Len(level) - 1
  PROVE  /\ i \div 2 \in 0 .. Len(NextLevel(level)) - 1
         /\ Ascend(level[i + 1], ProofStep(level, i)) = NextLevel(level)[i \div 2 + 1]
<1> DEFINE k == i \div 2 + 1
<1>1. Len(level) \in Nat
  BY DEF IsLevel
<1>2. k \in 1 .. (Len(level) + 1) \div 2 /\ i \div 2 = k - 1
  BY <1>1
<1>3. i \div 2 \in 0 .. Len(NextLevel(level)) - 1
  BY <1>1, <1>2, NextLevelLength
<1>4. NextLevel(level)[k] =
        HashPair(level[2*k - 1], IF 2*k <= Len(level) THEN level[2*k] ELSE level[2*k - 1])
  BY <1>2 DEF NextLevel
<1>5. CASE i % 2 = 1
  <2>1. i + 1 = 2*k /\ i = 2*k - 1 /\ i - 1 < Len(level) /\ i - 1 + 1 = i /\ 2*k <= Len(level)
    BY <1>1, <1>5
  <2>2. ProofStep(level, i) = [position |-> "left", hash |-> level[2*k - 1]]
    BY <1>5, <2>1 DEF ProofStep
  <2>3. Ascend(level[i + 1], ProofStep(level, i)) = HashPair(level[2*k - 1], level[2*k])
    BY <2>1, <2>2 DEF Ascend
  <2>4. QED
    BY <1>3, <1>4, <2>1, <2>3
<1>6. CASE i % 2 # 1
  <2>1. i + 1 = 2*k - 1 /\ i + 1 + 1 = 2*k /\ (i + 1 < Len(level) <=> 2*k <= Len(level))
    BY <1>1, <1>6
  <2>2. ProofStep(level, i) =
          [position |-> "right",
           hash |-> IF 2*k <= Len(level) THEN level[2*k] ELSE level[2*k - 1]]
    BY <1>6, <2>1 DEF ProofStep
  <2>3. Ascend(level[i + 1], ProofStep(level, i)) =
          HashPair(level[2*k - 1], IF 2*k <= Len(level) THEN level[2*k] ELSE level[2*k - 1])
    BY <2>1, <2>2 DEF Ascend
  <2>4. QED
    BY <1>3, <1>4, <2>3
<1>7. QED
  BY <1>5, <1>6

\* What Levels, Indices and FoldProof are, as equations.
LevelsUpTo(hashes, n, f) ==
  f = [k \in 0 .. n |-> IF k = 0 THEN hashes ELSE NextLevel(f[k - 1])]

IndicesUpTo(t, n, f) ==
  f = [k \in 0 .. n |-> IF k = 0 THEN t ELSE f[k - 1] \div 2]

FoldedUpTo(leafHash, proof, n, f) ==
  f = [s \in SUBSET (1 .. n) |->
         IF s = {} THEN leafHash ELSE Ascend(f[s \ {Max(s)}], proof[Max(s)])]

LEMMA LevelsEquation ==
  ASSUME NEW hashes, Len(hashes) \in Nat
  PROVE  LevelsUpTo(hashes, Len(hashes), Levels(hashes))
<1> DEFINE H == {n \in Nat : \E f : LevelsUpTo(hashes, n, f)}
<1>1. 0 \in H
  <2>1. LevelsUpTo(hashes, 0, [k \in 0 .. 0 |-> hashes])
    BY DEF LevelsUpTo
  <2>2. QED
    BY <2>1
<1>2. ASSUME NEW n \in Nat, n \in H
      PROVE  n + 1 \in H
  <2>1. PICK f : LevelsUpTo(hashes, n, f)
    BY <1>2
  <2> DEFINE g == [k \in 0 .. n + 1 |-> IF k = n + 1 THEN NextLevel(f[n]) ELSE f[k]]
  <2>2. LevelsUpTo(hashes, n + 1, g)
    <3>1. \A k \in 0 .. n : f[k] = IF k = 0 THEN hashes ELSE NextLevel(f[k - 1])
      BY <2>1 DEF LevelsUpTo
    <3>2. ASSUME NEW k \in 0 .. n + 1
          PROVE  g[k] = IF k = 0 THEN hashes ELSE NextLevel(g[k - 1])
      <4>1. CASE k = n + 1
        <5>1. k # 0 /\ k - 1 = n /\ g[n] = f[n] /\ g[k] = NextLevel(f[n])
          BY <4>1
        <5>2. QED
          BY <5>1
      <4>2. CASE k # n + 1
        <5>1. k \in 0 .. n /\ g[k] = f[k]
          BY <4>2
        <5>2. k # 0 => k - 1 \in 0 .. n /\ g[k - 1] = f[k - 1]
          BY <5>1
        <5>3. QED
          BY <3>1, <5>1, <5>2
      <4>3. QED
        BY <4>1, <4>2
    <3>3. g = [k \in 0 .. n + 1 |-> g[k]]
      OBVIOUS
    <3> HIDE DEF g
    <3>4. QED
      BY <3>2, <3>3 DEF LevelsUpTo
  <2>3. QED
    BY <2>2
<1> HIDE DEF H
<1>3. \A k \in 0 .. Len(hashes) - 1 : k \in H => k + 1 \in H
  BY <1>2
<1>4. Len(hashes) \in H
  <2>1. \A k \in 0 .. Len(hashes) : k \in H
    BY <1>1, <1>3, UpTo
  <2>2. QED
    BY <2>1
<1>5. \E f : LevelsUpTo(hashes, Len(hashes), f)
  BY <1>4 DEF H
<1>6. Levels(hashes) = CHOOSE f : LevelsUpTo(hashes, Len(hashes), f)
  BY DEF Levels, LevelsUpTo
<1>7. QED
  BY <1>5, <1>6

LEMMA IndicesEquation ==
  ASSUME NEW t, NEW n \in Nat
  PROVE  IndicesUpTo(t, n, Indices(t, n))
<1> DEFINE H == {m \in Nat : \E f : IndicesUpTo(t, m, f)}
<1>1. 0 \in H
  <2>1. IndicesUpTo(t, 0, [k \in 0 .. 0 |-> t])
    BY DEF IndicesUpTo
  <2>2. QED
    BY <2>1
<1>2. ASSUME NEW m \in Nat, m \in H
      PROVE  m + 1 \in H
  <2>1. PICK f : IndicesUpTo(t, m, f)
    BY <1>2
  <2> DEFINE g == [k \in 0 .. m + 1 |-> IF k = m + 1 THEN f[m] \div 2 ELSE f[k]]
  <2>2. IndicesUpTo(t, m + 1, g)
    <3>1. \A k \in 0 .. m : f[k] = IF k = 0 THEN t ELSE f[k - 1] \div 2
      BY <2>1 DEF IndicesUpTo
    <3>2. ASSUME NEW k \in 0 .. m + 1
          PROVE  g[k] = IF k = 0 THEN t ELSE g[k - 1] \div 2
      <4>1. CASE k = m + 1
        <5>1. k # 0 /\ k - 1 = m /\ g[m] = f[m] /\ g[k] = f[m] \div 2
          BY <4>1
        <5>2. QED
          BY <5>1
      <4>2. CASE k # m + 1
        <5>1. k \in 0 .. m /\ g[k] = f[k]
          BY <4>2
        <5>2. k # 0 => k - 1 \in 0 .. m /\ g[k - 1] = f[k - 1]
          BY <5>1
        <5>3. QED
          BY <3>1, <5>1, <5>2
      <4>3. QED
        BY <4>1, <4>2
    <3>3. g = [k \in 0 .. m + 1 |-> g[k]]
      OBVIOUS
    <3> HIDE DEF g
    <3>4. QED
      BY <3>2, <3>3 DEF IndicesUpTo
  <2>3. QED
    BY <2>2
<1> HIDE DEF H
<1>3. \A k \in 0 .. n - 1 : k \in H => k + 1 \in H
  BY <1>2
<1>4. n \in H
  BY <1>1, <1>3, UpTo
<1>5. \E f : IndicesUpTo(t, n, f)
  BY <1>4 DEF H
<1>6. Indices(t, n) = CHOOSE f : IndicesUpTo(t, n, f)
  BY DEF Indices, IndicesUpTo
<1>7. QED
  BY <1>5, <1>6

(* The greatest element of a set of numbers up to a bound that is in it.    *)
LEMMA MaxOf ==
  ASSUME NEW n \in Nat, NEW s \in SUBSET (1 .. n), n \in s
  PROVE  Max(s) = n
<1>1. n \in s /\ \A j \in s : n >= j
  OBVIOUS
<1>2. \A i \in s : (\A j \in s : i >= j) => i = n
  <2>1. ASSUME NEW i \in s, \A j \in s : i >= j
        PROVE  i = n
    <3>1. i >= n /\ n >= i
      BY <1>1, <2>1
    <3>2. QED
      BY <3>1
  <2>2. QED
    BY <2>1
<1>3. Max(s) = CHOOSE i \in s : \A j \in s : i >= j
  BY DEF Max
<1>4. QED
  BY <1>1, <1>2, <1>3

(* The function FoldProof folds with exists, set of positions by set.       *)
LEMMA FoldEquation ==
  ASSUME NEW leafHash, NEW proof, NEW n \in Nat, DOMAIN proof = 1 .. n
  PROVE  \E f : /\ FoldedUpTo(leafHash, proof, n, f)
                /\ FoldProof(leafHash, proof) = f[1 .. n]
<1> DEFINE H == {m \in Nat : \E f : FoldedUpTo(leafHash, proof, m, f)}
<1>1. 0 \in H
  <2>1. \A s \in SUBSET (1 .. 0) : s = {}
    OBVIOUS
  <2>2. FoldedUpTo(leafHash, proof, 0, [s \in SUBSET (1 .. 0) |-> leafHash])
    BY <2>1 DEF FoldedUpTo
  <2>3. QED
    BY <2>2
<1>2. ASSUME NEW m \in Nat, m \in H
      PROVE  m + 1 \in H
  <2>1. PICK f : FoldedUpTo(leafHash, proof, m, f)
    BY <1>2
  <2> DEFINE g == [s \in SUBSET (1 .. m + 1) |->
                     IF m + 1 \in s THEN Ascend(f[s \ {m + 1}], proof[m + 1]) ELSE f[s]]
  <2>2. \A s \in SUBSET (1 .. m) :
          /\ f[s] = IF s = {} THEN leafHash ELSE Ascend(f[s \ {Max(s)}], proof[Max(s)])
          /\ s \in SUBSET (1 .. m + 1) /\ m + 1 \notin s /\ g[s] = f[s]
    <3>1. \A s \in SUBSET (1 .. m) :
            f[s] = IF s = {} THEN leafHash ELSE Ascend(f[s \ {Max(s)}], proof[Max(s)])
      BY <2>1, Zenon DEF FoldedUpTo
    <3>2. \A s \in SUBSET (1 .. m) : s \in SUBSET (1 .. m + 1) /\ m + 1 \notin s
      OBVIOUS
    <3>3. QED
      BY <3>1, <3>2
  <2>3. ASSUME NEW s \in SUBSET (1 .. m + 1)
        PROVE  g[s] = IF s = {} THEN leafHash ELSE Ascend(g[s \ {Max(s)}], proof[Max(s)])
    <3>1. CASE m + 1 \in s
      <4>1. Max(s) = m + 1
        BY <3>1, MaxOf
      <4>2. s \ {m + 1} \in SUBSET (1 .. m)
        OBVIOUS
      <4>3. g[s \ {m + 1}] = f[s \ {m + 1}]
        BY <2>2, <4>2
      <4>4. g[s] = Ascend(f[s \ {m + 1}], proof[m + 1])
        BY <3>1
      <4>5. s # {}
        BY <3>1
      <4> HIDE DEF g
      <4>6. QED
        BY <4>1, <4>3, <4>4, <4>5
    <3>2. CASE m + 1 \notin s
      <4>1. s \in SUBSET (1 .. m) /\ s \ {Max(s)} \in SUBSET (1 .. m)
        <5>1. \A i \in s : i \in 1 .. m
          BY <3>2
        <5>2. QED
          BY <5>1
      <4> HIDE DEF g
      <4>2. QED
        BY <2>2, <4>1
    <3>3. QED
      BY <3>1, <3>2
  <2>4. g = [s \in SUBSET (1 .. m + 1) |-> g[s]]
    OBVIOUS
  <2> HIDE DEF g
  <2>5. FoldedUpTo(leafHash, proof, m + 1, g)
    BY <2>3, <2>4, Zenon DEF FoldedUpTo
  <2>6. QED
    BY <2>5
<1> HIDE DEF H
<1>3. \A k \in 0 .. n - 1 : k \in H => k + 1 \in H
  BY <1>2
<1>4. \A k \in 0 .. n : k \in H
  BY <1>1, <1>3, UpTo
<1>5. n \in H
  BY <1>4
<1>6. \E f : FoldedUpTo(leafHash, proof, n, f)
  BY <1>5 DEF H
<1> DEFINE chosen == CHOOSE f : FoldedUpTo(leafHash, proof, n, f)
<1>7. FoldedUpTo(leafHash, proof, n, chosen)
  BY <1>6
<1>8. FoldProof(leafHash, proof) =
        (CHOOSE f : f = [s \in SUBSET (DOMAIN proof) |->
           IF s = {} THEN leafHash ELSE Ascend(f[s \ {Max(s)}], proof[Max(s)])])[DOMAIN proof]
  BY DEF FoldProof, FoldLeft, MapThenFoldSet
<1>9. FoldProof(leafHash, proof) = chosen[1 .. n]
  BY <1>8, Zenon DEF FoldedUpTo
<1>10. QED
  BY <1>7, <1>9

(* The fold of one step more.                                               *)
LEMMA FoldStep ==
  ASSUME NEW leafHash, NEW proof, NEW f, NEW n \in Nat, FoldedUpTo(leafHash, proof, n, f)
  PROVE  \A k \in 0 .. n - 1 : f[1 .. k + 1] = Ascend(f[1 .. k], proof[k + 1])
<1> TAKE k \in 0 .. n - 1
<1>1. /\ 1 .. k + 1 \in SUBSET (1 .. n) /\ 1 .. k + 1 # {} /\ k + 1 \in 1 .. k + 1
      /\ (1 .. k + 1) \ {k + 1} = 1 .. k
  <2>1. \A i : i \in 1 .. k + 1 <=> i \in 1 .. k \/ i = k + 1
    OBVIOUS
  <2>2. \A i \in 1 .. k + 1 : i \in 1 .. n
    OBVIOUS
  <2>3. k + 1 \notin 1 .. k
    OBVIOUS
  <2>4. QED
    BY <2>1, <2>2, <2>3
<1>2. Max(1 .. k + 1) = k + 1
  BY <1>1, MaxOf
<1>3. \A s \in SUBSET (1 .. n) :
        f[s] = IF s = {} THEN leafHash ELSE Ascend(f[s \ {Max(s)}], proof[Max(s)])
  BY Zenon DEF FoldedUpTo
<1>4. f[1 .. k + 1] = Ascend(f[(1 .. k + 1) \ {Max(1 .. k + 1)}], proof[Max(1 .. k + 1)])
  BY <1>1, <1>3
<1>5. QED
  BY <1>1, <1>2, <1>4

(* The loop ends: every round but the last leaves a shorter level.          *)
LEMMA HeightReached ==
  ASSUME NEW hashes, IsLevel(hashes), hashes # <<>>
  PROVE  /\ Height(hashes) \in 0 .. Len(hashes)
         /\ \A k \in 0 .. Len(hashes) : IsLevel(Levels(hashes)[k])
         /\ Len(Levels(hashes)[Height(hashes)]) = 1
         /\ \A j \in 0 .. Height(hashes) - 1 : Len(Levels(hashes)[j]) > 1
<1> DEFINE n == Len(hashes)
           L == Levels(hashes)
<1>1. n \in Nat /\ n >= 1
  BY DEF IsLevel
<1>2. /\ DOMAIN L = 0 .. n
      /\ \A k \in 0 .. n : L[k] = IF k = 0 THEN hashes ELSE NextLevel(L[k - 1])
  <2>1. LevelsUpTo(hashes, n, L)
    BY <1>1, LevelsEquation
  <2> HIDE DEF L, n
  <2>2. QED
    BY <2>1 DEF LevelsUpTo
<1> HIDE DEF L
<1> DEFINE H == {k \in 0 .. n : /\ IsLevel(L[k]) /\ Len(L[k]) \in Nat /\ Len(L[k]) >= 1
                                /\ Len(L[k]) <= n - k \/ Len(L[k]) = 1}
<1>3. 0 \in H
  BY <1>1, <1>2
<1>4. ASSUME NEW k \in 0 .. n - 1, k \in H
      PROVE  k + 1 \in H
  <2>1. L[k + 1] = NextLevel(L[k])
    BY <1>1, <1>2
  <2>2. /\ IsLevel(L[k]) /\ Len(L[k]) \in Nat /\ Len(L[k]) >= 1
        /\ Len(L[k]) <= n - k \/ Len(L[k]) = 1
    BY <1>4
  <2>3. IsLevel(L[k + 1]) /\ Len(L[k + 1]) = (Len(L[k]) + 1) \div 2
    BY <2>1, <2>2, NextLevelLength
  <2> HIDE DEF n
  <2>4. ASSUME NEW a \in Nat, NEW b, a >= 1, a <= n - k \/ a = 1, b = (a + 1) \div 2
        PROVE  b \in Nat /\ b >= 1 /\ (b <= n - (k + 1) \/ b = 1)
    <3>1. b \in Nat /\ b >= 1 /\ (a = 1 => b = 1) /\ (a > 1 => b <= a - 1)
      BY <2>4
    <3>2. QED
      BY <1>1, <2>4, <3>1
  <2>5. /\ Len(L[k + 1]) \in Nat /\ Len(L[k + 1]) >= 1
        /\ Len(L[k + 1]) <= n - (k + 1) \/ Len(L[k + 1]) = 1
    BY <2>2, <2>3, <2>4
  <2>6. k + 1 \in 0 .. n
    BY <1>1
  <2>7. QED
    BY <2>3, <2>5, <2>6
<1>5. \A k \in 0 .. n : k \in H
  <2> HIDE DEF H
  <2>1. \A k \in 0 .. n - 1 : k \in H => k + 1 \in H
    BY <1>4
  <2> HIDE DEF n
  <2>2. QED
    BY <1>1, <1>3, <2>1, UpTo
<1> DEFINE I == {k \in 0 .. n : Len(L[k]) <= 1}
<1>6. n \in I
  <2> HIDE DEF n
  <2>1. n \in 0 .. n
    BY <1>1
  <2>2. Len(L[n]) \in Nat /\ (Len(L[n]) <= n - n \/ Len(L[n]) = 1)
    BY <1>5, <2>1
  <2>3. \A a \in Nat : a <= n - n \/ a = 1 => a <= 1
    BY <1>1
  <2>4. Len(L[n]) <= 1
    BY <2>2, <2>3
  <2>5. QED
    BY <2>1, <2>4
<1>7. PICK h \in I : \A j \in I : ~ (<<j, h>> \in OpToRel(<, Nat))
  <2>1. I \in SUBSET Nat /\ I # {}
    BY <1>6
  <2>2. QED
    BY <2>1, WFMin, NatLessThanWellFounded
<1>8. h \in 0 .. n /\ Len(L[h]) <= 1
  OBVIOUS
<1>9. \A j \in 0 .. h - 1 : Len(L[j]) > 1
  <2>1. ASSUME NEW j \in 0 .. h - 1
        PROVE  Len(L[j]) > 1
    <3>1. j \in Nat /\ h \in Nat /\ j < h /\ j \in 0 .. n
      BY <1>1, <1>8
    <3>2. <<j, h>> \in OpToRel(<, Nat)
      BY <3>1 DEF OpToRel
    <3>3. j \notin I
      BY <1>7, <3>2
    <3>4. Len(L[j]) \in Nat
      BY <1>5, <3>1
    <3>5. QED
      BY <3>1, <3>3, <3>4
  <2>2. QED
    BY <2>1
<1>10. Height(hashes) = CHOOSE k \in DOMAIN L : /\ Len(L[k]) <= 1
                                                /\ \A j \in 0 .. k - 1 : Len(L[j]) > 1
  BY DEF Height, L
<1>11. /\ Height(hashes) \in 0 .. n /\ Len(L[Height(hashes)]) <= 1
       /\ \A j \in 0 .. Height(hashes) - 1 : Len(L[j]) > 1
  BY <1>2, <1>8, <1>9, <1>10
<1>12. /\ \A k \in 0 .. n : IsLevel(L[k])
       /\ Len(L[Height(hashes)]) \in Nat /\ Len(L[Height(hashes)]) >= 1
  <2> HIDE DEF n
  <2>1. QED
    BY <1>5, <1>11
<1>13. Len(L[Height(hashes)]) = 1
  <2>1. \A a \in Nat : a <= 1 /\ a >= 1 => a = 1
    OBVIOUS
  <2>2. QED
    BY <1>11, <1>12, <2>1
<1>14. QED
  BY <1>11, <1>12, <1>13 DEF L

(* buildMerkleProof makes, for every position of every list of leaves, a    *)
(* proof that verifyMerkleProof accepts under the root of the list.        *)
THEOREM MerkleProofsVerify ==
  ASSUME NEW S, NEW hashes \in Seq(S), hashes # <<>>,
         NEW targetIndex \in 0 .. Len(hashes) - 1
  PROVE  VerifyMerkleProof(hashes[targetIndex + 1],
                           BuildMerkleProof(hashes, targetIndex), BuildMerkleRoot(hashes))
<1> DEFINE n == Len(hashes)
           L == Levels(hashes)
           h == Height(hashes)
           x == Indices(targetIndex, n)
           p == BuildMerkleProof(hashes, targetIndex)
           leaf == hashes[targetIndex + 1]
<1>1. IsLevel(hashes) /\ n \in Nat
  BY DEF IsLevel
<1>2. h \in 0 .. n /\ Len(L[h]) = 1 /\ \A k \in 0 .. n : IsLevel(L[k])
  BY <1>1, HeightReached
<1>3. \A k \in 0 .. n : L[k] = IF k = 0 THEN hashes ELSE NextLevel(L[k - 1])
  <2>1. LevelsUpTo(hashes, n, L)
    BY <1>1, LevelsEquation
  <2> HIDE DEF L, n
  <2>2. QED
    BY <2>1 DEF LevelsUpTo
<1>4. \A k \in 0 .. n : x[k] = IF k = 0 THEN targetIndex ELSE x[k - 1] \div 2
  <2>1. IndicesUpTo(targetIndex, n, x)
    BY <1>1, IndicesEquation
  <2> HIDE DEF x, n
  <2>2. QED
    BY <2>1 DEF IndicesUpTo
<1>5. DOMAIN p = 1 .. h /\ \A k \in 1 .. h : p[k] = ProofStep(L[k - 1], x[k - 1])
  BY DEF BuildMerkleProof
<1>6. BuildMerkleRoot(hashes) = L[h][1]
  BY DEF BuildMerkleRoot
<1>r. targetIndex \in 0 .. n - 1 /\ leaf = hashes[targetIndex + 1]
  OBVIOUS
<1> HIDE DEF n, L, h, x, p, leaf
<1>7. PICK f : FoldedUpTo(leaf, p, h, f) /\ FoldProof(leaf, p) = f[1 .. h]
  <2>1. h \in Nat
    BY <1>1, <1>2
  <2>2. QED
    BY <1>5, <2>1, FoldEquation
<1>f. \A k \in 0 .. h - 1 : f[1 .. k + 1] = Ascend(f[1 .. k], p[k + 1])
  <2>1. h \in Nat
    BY <1>1, <1>2
  <2>2. FoldedUpTo(leaf, p, h, f)
    BY <1>7
  <2>3. QED
    BY <2>1, <2>2, FoldStep
<1> DEFINE H == {k \in 0 .. h : x[k] \in 0 .. Len(L[k]) - 1 /\ f[1 .. k] = L[k][x[k] + 1]}
<1>8. 0 \in H
  <2>1. 0 \in 0 .. n /\ 0 \in 0 .. h
    BY <1>1, <1>2
  <2>2. x[0] = targetIndex /\ L[0] = hashes
    BY <1>3, <1>4, <2>1
  <2>3. f[{}] = leaf /\ 1 .. 0 = {}
    BY <1>7 DEF FoldedUpTo
  <2>4. QED
    BY <1>r, <2>1, <2>2, <2>3 DEF n
<1>9. ASSUME NEW k \in 0 .. h - 1, k \in H
      PROVE  k + 1 \in H
  <2>1. /\ k \in 0 .. n /\ k + 1 \in 0 .. n /\ k + 1 \in 1 .. h /\ k + 1 - 1 = k
        /\ k \in Nat /\ k + 1 # 0 /\ h \in Nat
    BY <1>1, <1>2
  <2>2. /\ L[k + 1] = NextLevel(L[k]) /\ x[k + 1] = x[k] \div 2
        /\ p[k + 1] = ProofStep(L[k], x[k])
    BY <1>3, <1>4, <1>5, <2>1
  <2>3. x[k] \in 0 .. Len(L[k]) - 1 /\ f[1 .. k] = L[k][x[k] + 1] /\ IsLevel(L[k])
    BY <1>2, <1>9, <2>1
  <2>4. /\ x[k + 1] \in 0 .. Len(L[k + 1]) - 1
        /\ Ascend(L[k][x[k] + 1], p[k + 1]) = L[k + 1][x[k + 1] + 1]
    BY <2>2, <2>3, AscendStep
  <2>5. f[1 .. k + 1] = Ascend(f[1 .. k], p[k + 1])
    BY <1>f
  <2>6. QED
    BY <2>1, <2>3, <2>4, <2>5
<1>10. h \in H
  <2> HIDE DEF H
  <2>1. h \in Nat
    BY <1>1, <1>2
  <2>2. \A k \in 0 .. h - 1 : k \in H => k + 1 \in H
    BY <1>9
  <2>3. \A k \in 0 .. h : k \in H
    BY <1>8, <2>1, <2>2, UpTo
  <2>4. QED
    BY <2>1, <2>3
<1>11. x[h] = 0 /\ f[1 .. h] = L[h][1]
  <2>1. x[h] \in 0 .. Len(L[h]) - 1 /\ f[1 .. h] = L[h][x[h] + 1]
    BY <1>10
  <2>2. x[h] = 0 /\ x[h] + 1 = 1
    BY <1>2, <2>1
  <2>3. QED
    BY <2>1, <2>2
<1>12. FoldProof(leaf, p) = BuildMerkleRoot(hashes)
  BY <1>6, <1>7, <1>11
<1>13. QED
  BY <1>12 DEF VerifyMerkleProof, leaf, p

(* A round forgets nothing: two lists of one length with the same next level *)
(* are the same.                                                            *)
LEMMA NextLevelInjective ==
  ASSUME NEW a, NEW b, IsLevel(a), IsLevel(b), Len(a) = Len(b),
         NextLevel(a) = NextLevel(b)
  PROVE  a = b
<1>1. Len(a) \in Nat /\ DOMAIN a = 1 .. Len(a) /\ DOMAIN b = 1 .. Len(a)
  BY DEF IsLevel
<1>2. ASSUME NEW i \in 1 .. Len(a)
      PROVE  a[i] = b[i]
  <2> DEFINE k == (i + 1) \div 2
  <2>1. /\ k \in 1 .. (Len(a) + 1) \div 2
        /\ i = 2*k - 1 \/ (i = 2*k /\ 2*k <= Len(a))
    BY <1>1
  <2>2. /\ NextLevel(a)[k] = HashPair(a[2*k - 1], IF 2*k <= Len(a) THEN a[2*k] ELSE a[2*k - 1])
        /\ NextLevel(b)[k] = HashPair(b[2*k - 1], IF 2*k <= Len(a) THEN b[2*k] ELSE b[2*k - 1])
    BY <2>1 DEF NextLevel
  <2> HIDE DEF k
  <2>3. a[2*k - 1] = b[2*k - 1] /\ (2*k <= Len(a) => a[2*k] = b[2*k])
    BY <2>2 DEF HashPair
  <2>4. QED
    BY <2>1, <2>3
<1>3. PICK S, T : a \in Seq(S) /\ b \in Seq(T)
  BY DEF IsLevel
<1>4. a \in Seq(S \cup T) /\ b \in Seq(S \cup T)
  BY <1>3
<1>5. QED
  BY <1>1, <1>2, <1>4, SeqEqual

(* The root of a batch fixes its events and their order: two lists of leaves *)
(* of one length that buildMerkleRoot gives the same root are the same list. *)
(* (Of lists of different lengths it does not hold: an odd list has the root *)
(* of the list that repeats its last leaf.)                                 *)
THEOREM RootBindsList ==
  ASSUME NEW S, NEW a \in Seq(S), NEW b \in Seq(S), a # <<>>, Len(a) = Len(b),
         BuildMerkleRoot(a) = BuildMerkleRoot(b)
  PROVE  a = b
<1> DEFINE n == Len(a)
           A == Levels(a)
           B == Levels(b)
           h == Height(a)
<1>1. IsLevel(a) /\ IsLevel(b) /\ b # <<>> /\ n \in Nat
  BY DEF IsLevel
<1>2. /\ h \in 0 .. n /\ \A k \in 0 .. n : IsLevel(A[k])
      /\ Len(A[h]) = 1 /\ \A j \in 0 .. h - 1 : Len(A[j]) > 1
  BY <1>1, HeightReached
<1>3. /\ Height(b) \in 0 .. n /\ \A k \in 0 .. n : IsLevel(B[k])
      /\ Len(B[Height(b)]) = 1 /\ \A j \in 0 .. Height(b) - 1 : Len(B[j]) > 1
  BY <1>1, HeightReached
<1>4. /\ \A k \in 0 .. n : A[k] = IF k = 0 THEN a ELSE NextLevel(A[k - 1])
      /\ \A k \in 0 .. n : B[k] = IF k = 0 THEN b ELSE NextLevel(B[k - 1])
  <2>1. LevelsUpTo(a, n, A) /\ LevelsUpTo(b, n, B)
    BY <1>1, LevelsEquation
  <2> HIDE DEF A, B, n
  <2>2. QED
    BY <2>1 DEF LevelsUpTo
<1>5. BuildMerkleRoot(a) = A[h][1] /\ BuildMerkleRoot(b) = B[Height(b)][1]
  BY <1>1 DEF BuildMerkleRoot
<1>r. Len(a) = n /\ Len(b) = n
  OBVIOUS
<1> HIDE DEF n, A, B, h
<1> DEFINE H == {k \in 0 .. n : Len(A[k]) = Len(B[k])}
<1>6. \A k \in 0 .. n : k \in H
  <2>1. 0 \in H
    BY <1>1, <1>4, <1>r
  <2>2. ASSUME NEW k \in 0 .. n - 1, k \in H
        PROVE  k + 1 \in H
    <3>1. k \in 0 .. n /\ k + 1 \in 0 .. n /\ k + 1 # 0 /\ k + 1 - 1 = k
      BY <1>1
    <3>2. A[k + 1] = NextLevel(A[k]) /\ B[k + 1] = NextLevel(B[k])
      BY <1>4, <3>1
    <3>3. QED
      BY <1>2, <1>3, <2>2, <3>1, <3>2, NextLevelLength
  <2> HIDE DEF H
  <2>3. QED
    BY <1>1, <2>1, <2>2, UpTo
<1>7. Height(b) = h
  <2>1. \A k \in 0 .. n : Len(A[k]) = Len(B[k])
    BY <1>6
  <2> DEFINE g == Height(b)
  <2> HIDE DEF g
  <2>b. g \in 0 .. n /\ Len(B[g]) = 1 /\ \A j \in 0 .. g - 1 : Len(B[j]) > 1
    BY <1>3 DEF g
  <2>2. ~ g < h
    <3>1. SUFFICES ASSUME g < h PROVE FALSE
      OBVIOUS
    <3>2. g \in 0 .. h - 1
      BY <1>1, <1>2, <2>b, <3>1
    <3>3. Len(A[g]) > 1 /\ Len(A[g]) = 1
      BY <1>2, <2>1, <2>b, <3>2
    <3>4. QED
      BY <3>3
  <2>3. ~ h < g
    <3>1. SUFFICES ASSUME h < g PROVE FALSE
      OBVIOUS
    <3>2. h \in 0 .. g - 1
      BY <1>1, <1>2, <2>b, <3>1
    <3>3. Len(B[h]) > 1 /\ Len(B[h]) = 1
      BY <1>2, <2>1, <2>b, <3>2
    <3>4. QED
      BY <3>3
  <2>4. QED
    BY <1>1, <1>2, <2>b, <2>2, <2>3 DEF g
<1> DEFINE G == {d \in 0 .. h : A[h - d] = B[h - d]}
<1>8. 0 \in G
  <2>1. h \in Nat /\ h - 0 = h /\ IsLevel(A[h]) /\ IsLevel(B[h])
    BY <1>1, <1>2, <1>3
  <2>2. A[h][1] = B[h][1] /\ Len(A[h]) = 1 /\ Len(B[h]) = 1
    BY <1>2, <1>3, <1>5, <1>7
  <2>3. A[h] = <<A[h][1]>> /\ B[h] = <<B[h][1]>>
    BY <2>1, <2>2 DEF IsLevel
  <2>4. QED
    BY <2>1, <2>2, <2>3
<1>9. ASSUME NEW d \in 0 .. h - 1, d \in G
      PROVE  d + 1 \in G
  <2> DEFINE k == h - (d + 1)
  <2>1. /\ k \in 0 .. n /\ k + 1 \in 0 .. n /\ k + 1 # 0 /\ k + 1 - 1 = k /\ h - d = k + 1
        /\ d + 1 \in 0 .. h
    BY <1>1, <1>2
  <2> HIDE DEF k
  <2>2. A[k + 1] = NextLevel(A[k]) /\ B[k + 1] = NextLevel(B[k]) /\ A[k + 1] = B[k + 1]
    BY <1>4, <1>9, <2>1
  <2>3. Len(A[k]) = Len(B[k]) /\ IsLevel(A[k]) /\ IsLevel(B[k])
    BY <1>2, <1>3, <1>6, <2>1
  <2>4. A[k] = B[k]
    BY <2>2, <2>3, NextLevelInjective
  <2>5. QED
    BY <2>1, <2>4 DEF k
<1>10. h \in G
  <2>1. h \in Nat
    BY <1>1, <1>2
  <2> HIDE DEF G
  <2>2. \A d \in 0 .. h : d \in G
    BY <1>8, <1>9, <2>1, UpTo
  <2>3. QED
    BY <2>1, <2>2
<1>11. A[0] = B[0]
  <2>1. h \in Nat /\ h - h = 0
    BY <1>1, <1>2
  <2>2. QED
    BY <1>10, <2>1
<1>12. QED
  BY <1>1, <1>4, <1>11

(* A node of a next level is a pair of nodes of the level.                  *)
LEMMA NodeIsPair ==
  ASSUME NEW level, IsLevel(level), NEW i \in 1 .. Len(NextLevel(level))
  PROVE  \E x, y \in 1 .. Len(level) : NextLevel(level)[i] = HashPair(level[x], level[y])
<1>1. Len(level) \in Nat /\ i \in 1 .. (Len(level) + 1) \div 2
  BY NextLevelLength DEF IsLevel
<1>2. NextLevel(level)[i] =
        HashPair(level[2*i - 1], IF 2*i <= Len(level) THEN level[2*i] ELSE level[2*i - 1])
  BY <1>1 DEF NextLevel
<1>3. 2*i - 1 \in 1 .. Len(level) /\ (2*i <= Len(level) => 2*i \in 1 .. Len(level))
  BY <1>1
<1>4. QED
  BY <1>2, <1>3

(* What ascends to a node was a node one level below.                       *)
LEMMA NodeBelow ==
  ASSUME NEW level, IsLevel(level), NEW i \in 1 .. Len(NextLevel(level)),
         NEW current, NEW step, NextLevel(level)[i] = Ascend(current, step)
  PROVE  \E x \in 1 .. Len(level) : current = level[x]
<1>1. PICK x, y \in 1 .. Len(level) : NextLevel(level)[i] = HashPair(level[x], level[y])
  BY NodeIsPair
<1>2. current \in {level[x], level[y]}
  BY <1>1 DEF Ascend, HashPair
<1>3. QED
  BY <1>2

(* Nothing but its leaves can be proved under a root, whatever the proof: if *)
(* verifyMerkleProof accepts a leaf hash, the leaf hash is in the list and   *)
(* the proof has one step for every level.  No hash of a pair is taken for a *)
(* leaf: what the verifier asks about is the hash of an event.             *)
THEOREM NothingElseVerifies ==
  ASSUME NEW S, \A s \in S : \A left, right : HashPair(left, right) # s,
         NEW hashes \in Seq(S), hashes # <<>>, NEW leafHash \in S,
         NEW T, NEW proof \in Seq(T),
         VerifyMerkleProof(leafHash, proof, BuildMerkleRoot(hashes))
  PROVE  /\ Len(proof) = Height(hashes)
         /\ \E i \in 1 .. Len(hashes) : leafHash = hashes[i]
<1> DEFINE n == Len(hashes)
           m == Len(proof)
           L == Levels(hashes)
           h == Height(hashes)
<1>1. IsLevel(hashes) /\ n \in Nat /\ m \in Nat /\ DOMAIN proof = 1 .. m
  BY DEF IsLevel
<1>2. h \in 0 .. n /\ Len(L[h]) = 1 /\ \A k \in 0 .. n : IsLevel(L[k])
  BY <1>1, HeightReached
<1>3. \A k \in 0 .. n : L[k] = IF k = 0 THEN hashes ELSE NextLevel(L[k - 1])
  <2>1. LevelsUpTo(hashes, n, L)
    BY <1>1, LevelsEquation
  <2> HIDE DEF L, n
  <2>2. QED
    BY <2>1 DEF LevelsUpTo
<1>4. BuildMerkleRoot(hashes) = L[h][1]
  BY DEF BuildMerkleRoot
<1>r. \A i \in 1 .. n : hashes[i] \in S
  OBVIOUS
<1> HIDE DEF n, m, L, h
<1>5. PICK f : FoldedUpTo(leafHash, proof, m, f) /\ FoldProof(leafHash, proof) = f[1 .. m]
  BY <1>1, FoldEquation
<1>f. \A k \in 0 .. m - 1 : f[1 .. k + 1] = Ascend(f[1 .. k], proof[k + 1])
  <2>1. m \in Nat /\ FoldedUpTo(leafHash, proof, m, f)
    BY <1>1, <1>5, Zenon
  <2>2. QED
    BY <2>1, FoldStep
<1>6. f[1 .. m] = L[h][1] /\ f[1 .. 0] = leafHash
  <2>1. f[1 .. m] = L[h][1]
    BY <1>4, <1>5 DEF VerifyMerkleProof
  <2>2. 1 .. 0 = {} /\ {} \in SUBSET (1 .. m)
    OBVIOUS
  <2>3. \A s \in SUBSET (1 .. m) :
          f[s] = IF s = {} THEN leafHash ELSE Ascend(f[s \ {Max(s)}], proof[Max(s)])
    BY <1>5, Zenon DEF FoldedUpTo
  <2>4. QED
    BY <2>1, <2>2, <2>3
\* Where the fold is, counted down from the root.
<1> DEFINE w == n + m
<1>w. w \in Nat /\ n \in 0 .. w /\ m \in 0 .. w /\ h \in 0 .. w
  BY <1>1, <1>2
<1> HIDE DEF w
<1> DEFINE OnLevel(d) == \E i \in 1 .. Len(L[h - d]) : f[1 .. m - d] = L[h - d][i]
           D == {d \in 0 .. w : d <= h /\ d <= m => OnLevel(d)}
<1>7. 0 \in D
  <2>1. h - 0 = h /\ m - 0 = m /\ 1 \in 1 .. Len(L[h]) /\ 0 \in 0 .. w
    BY <1>1, <1>2, <1>w
  <2>2. QED
    BY <1>6, <2>1
<1>8. ASSUME NEW d \in 0 .. w - 1, d \in D
      PROVE  d + 1 \in D
  <2>1. SUFFICES ASSUME d + 1 <= h, d + 1 <= m
                 PROVE  OnLevel(d + 1)
    BY <1>w
  <2> DEFINE k == h - (d + 1)
             j == m - (d + 1)
  <2>2. /\ k \in 0 .. n /\ k + 1 \in 0 .. n /\ k + 1 # 0 /\ k + 1 - 1 = k /\ h - d = k + 1
        /\ j \in 0 .. m - 1 /\ m - d = j + 1 /\ d <= h /\ d <= m
    BY <1>1, <1>2, <2>1
  <2>3. PICK i \in 1 .. Len(L[k + 1]) : f[1 .. j + 1] = L[k + 1][i]
    BY <1>8, <2>2
  <2> HIDE DEF k, j
  <2>4. L[k + 1] = NextLevel(L[k]) /\ IsLevel(L[k])
    BY <1>2, <1>3, <2>2
  <2>5. f[1 .. j + 1] = Ascend(f[1 .. j], proof[j + 1])
    BY <1>f, <2>2
  <2>6. \E one \in 1 .. Len(L[k]) : f[1 .. j] = L[k][one]
    BY <2>3, <2>4, <2>5, NodeBelow
  <2>7. QED
    BY <2>6 DEF k, j
<1>9. \A d \in 0 .. w : d \in D
  <2> HIDE DEF D
  <2>1. QED
    BY <1>7, <1>8, <1>w, UpTo
<1>10. m = h
  <2>1. CASE m < h
    <3> DEFINE k == h - m
    <3>1. /\ m \in 0 .. w /\ m <= h /\ m - m = 0
          /\ k \in 1 .. n /\ k - 1 \in 0 .. n /\ k # 0 /\ k \in 0 .. n
      BY <1>1, <1>2, <1>w, <2>1
    <3>2. PICK i \in 1 .. Len(L[k]) : leafHash = L[k][i]
      BY <1>6, <1>9, <3>1
    <3> HIDE DEF k
    <3>3. L[k] = NextLevel(L[k - 1]) /\ IsLevel(L[k - 1])
      BY <1>2, <1>3, <3>1
    <3>4. \E left, right : leafHash = HashPair(left, right)
      BY <3>2, <3>3, NodeIsPair
    <3>5. QED
      BY <3>4
  <2>2. CASE m > h
    <3> DEFINE j == m - h - 1
    <3>1. /\ h \in 0 .. w /\ h <= m /\ h - h = 0 /\ 0 \in 0 .. n
          /\ j \in 0 .. m - 1 /\ m - h = j + 1
      BY <1>1, <1>2, <1>w, <2>2
    <3>2. PICK i \in 1 .. Len(L[0]) : f[1 .. j + 1] = L[0][i]
      BY <1>9, <3>1
    <3> HIDE DEF j
    <3>3. f[1 .. j + 1] \in S
      BY <1>3, <1>r, <3>1, <3>2 DEF n
    <3>4. f[1 .. j + 1] = Ascend(f[1 .. j], proof[j + 1])
      BY <1>f, <3>1
    <3>5. QED
      BY <3>3, <3>4 DEF Ascend
  <2>3. QED
    BY <1>1, <1>2, <2>1, <2>2
<1>11. \E i \in 1 .. n : leafHash = hashes[i]
  <2>1. /\ h \in 0 .. w /\ h <= m /\ h - h = 0 /\ m - h = 0 /\ 0 \in 0 .. n
    BY <1>1, <1>2, <1>w, <1>10
  <2>2. \E i \in 1 .. Len(L[0]) : f[1 .. 0] = L[0][i]
    BY <1>9, <2>1
  <2>3. QED
    BY <1>3, <1>6, <2>1, <2>2 DEF n
<1>12. QED
  BY <1>10, <1>11 DEF m, h, n

-----------------------------------------------------------------------------
(* The perfect trees that MCMerkleTree compares the root with.              *)

\* What the functions of TreeRoot are, as equations.
WidthsUpTo(n, f) == f = [k \in 0 .. n |-> IF k = 0 THEN 1 ELSE 2 * f[k - 1]]

Widths(n) == CHOOSE f : WidthsUpTo(n, f)

TreesUpTo(list, width, n, f) ==
  f = [k \in 0 .. n |->
         IF k = 0 THEN list
         ELSE LET half == f[k - 1]
                  Right(i) == i + width[k - 1]
              IN  [i \in DOMAIN list |->
                     HashPair(half[i], half[IF Right(i) <= Len(list) THEN Right(i) ELSE i])]]

LEMMA WidthsEquation ==
  ASSUME NEW n \in Nat
  PROVE  WidthsUpTo(n, Widths(n))
<1> DEFINE H == {m \in Nat : \E f : WidthsUpTo(m, f)}
<1>1. 0 \in H
  <2>1. WidthsUpTo(0, [k \in 0 .. 0 |-> 1])
    BY DEF WidthsUpTo
  <2>2. QED
    BY <2>1
<1>2. ASSUME NEW m \in Nat, m \in H
      PROVE  m + 1 \in H
  <2>1. PICK f : WidthsUpTo(m, f)
    BY <1>2
  <2> DEFINE g == [k \in 0 .. m + 1 |-> IF k = m + 1 THEN 2 * f[m] ELSE f[k]]
  <2>2. WidthsUpTo(m + 1, g)
    <3>1. \A k \in 0 .. m : f[k] = IF k = 0 THEN 1 ELSE 2 * f[k - 1]
      BY <2>1 DEF WidthsUpTo
    <3>2. ASSUME NEW k \in 0 .. m + 1
          PROVE  g[k] = IF k = 0 THEN 1 ELSE 2 * g[k - 1]
      <4>1. CASE k = m + 1
        <5>1. k # 0 /\ k - 1 = m /\ g[m] = f[m] /\ g[k] = 2 * f[m]
          BY <4>1
        <5>2. QED
          BY <5>1
      <4>2. CASE k # m + 1
        <5>1. k \in 0 .. m /\ g[k] = f[k]
          BY <4>2
        <5>2. k # 0 => k - 1 \in 0 .. m /\ g[k - 1] = f[k - 1]
          BY <5>1
        <5>3. QED
          BY <3>1, <5>1, <5>2
      <4>3. QED
        BY <4>1, <4>2
    <3>3. g = [k \in 0 .. m + 1 |-> g[k]]
      OBVIOUS
    <3> HIDE DEF g
    <3>4. QED
      BY <3>2, <3>3 DEF WidthsUpTo
  <2>3. QED
    BY <2>2
<1> HIDE DEF H
<1>3. \A k \in 0 .. n - 1 : k \in H => k + 1 \in H
  BY <1>2
<1>4. n \in H
  BY <1>1, <1>3, UpTo
<1>5. \E f : WidthsUpTo(n, f)
  BY <1>4 DEF H
<1>6. QED
  BY <1>5 DEF Widths

(* The trees of one height more, of the trees of one height.               *)
Taller(list, width, half) ==
  [i \in DOMAIN list |->
     HashPair(half[i], half[IF i + width <= Len(list) THEN i + width ELSE i])]

LEMMA TreesEquation ==
  ASSUME NEW list, NEW width, NEW n \in Nat
  PROVE  \E f : TreesUpTo(list, width, n, f)
<1> DEFINE H == {m \in Nat : \E f : TreesUpTo(list, width, m, f)}
<1>1. 0 \in H
  <2>1. TreesUpTo(list, width, 0, [k \in 0 .. 0 |-> list])
    BY DEF TreesUpTo
  <2>2. QED
    BY <2>1
<1>2. ASSUME NEW m \in Nat, m \in H
      PROVE  m + 1 \in H
  <2>1. PICK f : TreesUpTo(list, width, m, f)
    BY <1>2
  <2> DEFINE g == [k \in 0 .. m + 1 |-> IF k = m + 1 THEN Taller(list, width[m], f[m]) ELSE f[k]]
  <2>2. TreesUpTo(list, width, m + 1, g)
    <3>1. \A k \in 0 .. m : f[k] = IF k = 0 THEN list ELSE Taller(list, width[k - 1], f[k - 1])
      BY <2>1 DEF TreesUpTo, Taller
    <3>2. ASSUME NEW k \in 0 .. m + 1
          PROVE  g[k] = IF k = 0 THEN list ELSE Taller(list, width[k - 1], g[k - 1])
      <4>1. CASE k = m + 1
        <5>1. k # 0 /\ k - 1 = m /\ g[m] = f[m] /\ g[k] = Taller(list, width[m], f[m])
          BY <4>1
        <5>2. QED
          BY <5>1
      <4>2. CASE k # m + 1
        <5>1. k \in 0 .. m /\ g[k] = f[k]
          BY <4>2
        <5>2. k # 0 => k - 1 \in 0 .. m /\ g[k - 1] = f[k - 1]
          BY <5>1
        <5>3. QED
          BY <3>1, <5>1, <5>2
      <4>3. QED
        BY <4>1, <4>2
    <3>3. g = [k \in 0 .. m + 1 |-> g[k]]
      OBVIOUS
    <3> HIDE DEF g
    <3>4. g = [k \in 0 .. m + 1 |-> IF k = 0 THEN list ELSE Taller(list, width[k - 1], g[k - 1])]
      BY <3>2, <3>3
    <3>5. QED
      BY <3>4 DEF TreesUpTo, Taller
  <2>3. QED
    BY <2>2
<1> HIDE DEF H
<1>3. \A k \in 0 .. n - 1 : k \in H => k + 1 \in H
  BY <1>2
<1>4. n \in H
  BY <1>1, <1>3, UpTo
<1>5. QED
  BY <1>4 DEF H

LEMMA TreeRootEquation ==
  ASSUME NEW list, NEW n \in Nat
  PROVE  \E w, t : /\ \A k \in 0 .. n : w[k] = IF k = 0 THEN 1 ELSE 2 * w[k - 1]
                   /\ \A k \in 0 .. n : t[k] = IF k = 0 THEN list ELSE Taller(list, w[k - 1], t[k - 1])
                   /\ TreeRoot(list, n) = t[n][1]
<1> DEFINE w == Widths(n)
           t == CHOOSE f : TreesUpTo(list, w, n, f)
<1>1. WidthsUpTo(n, w)
  BY WidthsEquation
<1>2. TreesUpTo(list, w, n, t)
  <2> HIDE DEF w
  <2>1. \E f : TreesUpTo(list, w, n, f)
    BY TreesEquation
  <2>2. QED
    BY <2>1
<1>3. TreeRoot(list, n) = t[n][1]
  BY DEF TreeRoot, TreesUpTo, Widths, WidthsUpTo
<1> HIDE DEF w, t
<1>4. \A k \in 0 .. n : w[k] = IF k = 0 THEN 1 ELSE 2 * w[k - 1]
  BY <1>1 DEF WidthsUpTo
<1>5. \A k \in 0 .. n : t[k] = IF k = 0 THEN list ELSE Taller(list, w[k - 1], t[k - 1])
  BY <1>2 DEF TreesUpTo, Taller
<1>6. QED
  BY <1>3, <1>4, <1>5

\* The nodes of a level are the roots of the perfect trees, of a width, that
\* begin at every multiple of the width.
HoldsTrees(level, list, width, root) ==
  /\ \A j \in Nat \ {0} : j <= Len(level) <=> (j - 1) * width < Len(list)
  /\ \A j \in 1 .. Len(level) : level[j] = root[(j - 1) * width + 1]

(* Level k of the code holds the roots of the perfect trees of height k that *)
(* begin at every multiple of their width.                                 *)
LEMMA NodeIsTreeRoot ==
  ASSUME NEW level, IsLevel(level), NEW list, IsLevel(list),
         NEW w \in Nat \ {0}, NEW t, HoldsTrees(level, list, w, t)
  PROVE  HoldsTrees(NextLevel(level), list, 2 * w, Taller(list, w, t))
<1> USE DEF HoldsTrees
<1>1. /\ IsLevel(level) /\ Len(level) \in Nat /\ Len(list) \in Nat
      /\ DOMAIN list = 1 .. Len(list)
  BY DEF IsLevel
<1>2. Len(NextLevel(level)) = (Len(level) + 1) \div 2
  BY <1>1, NextLevelLength
<1>3. ASSUME NEW j \in Nat \ {0}
      PROVE  /\ (2*j - 1 - 1) * w = (j - 1) * (2 * w)
             /\ (2*j - 1) * w = (j - 1) * (2 * w) + w
             /\ (j - 1) * (2 * w) \in Nat /\ (2*j - 1) * w \in Nat
             /\ 2*j - 1 \in Nat \ {0} /\ 2*j \in Nat \ {0}
  <2>1. PICK i \in Nat : j = i + 1
    <3>1. j - 1 \in Nat /\ j = (j - 1) + 1
      OBVIOUS
    <3>2. QED
      BY <3>1
  <2>2. i * w \in Nat
    OBVIOUS
  <2>3. /\ (2*j - 1 - 1) * w = 2 * (i * w) /\ (j - 1) * (2 * w) = 2 * (i * w)
        /\ (2*j - 1) * w = 2 * (i * w) + w
    BY <2>1
  <2>4. QED
    BY <2>2, <2>3
<1>4. ASSUME NEW j \in Nat \ {0}
      PROVE  j <= Len(NextLevel(level)) <=> (j - 1) * (2 * w) < Len(list)
  <2>1. j <= Len(NextLevel(level)) <=> 2*j - 1 <= Len(level)
    BY <1>1, <1>2
  <2>2. 2*j - 1 <= Len(level) <=> (2*j - 1 - 1) * w < Len(list)
    BY <1>3
  <2>3. QED
    BY <1>3, <2>1, <2>2
<1>5. ASSUME NEW j \in 1 .. Len(NextLevel(level))
      PROVE  NextLevel(level)[j] = Taller(list, w, t)[(j - 1) * (2 * w) + 1]
  <2> DEFINE i == (j - 1) * (2 * w) + 1
  <2>1. j \in Nat \ {0} /\ j \in 1 .. (Len(level) + 1) \div 2 /\ 2*j - 1 \in 1 .. Len(level)
    BY <1>1, <1>2
  <2>2. NextLevel(level)[j] =
          HashPair(level[2*j - 1], IF 2*j <= Len(level) THEN level[2*j] ELSE level[2*j - 1])
    BY <2>1 DEF NextLevel
  <2>3. i \in DOMAIN list
    BY <1>1, <1>3, <1>4, <2>1
  <2>4. level[2*j - 1] = t[i]
    BY <1>3, <2>1
  <2>5. 2*j <= Len(level) <=> i + w <= Len(list)
    <3>1. 2*j <= Len(level) <=> (2*j - 1) * w < Len(list)
      BY <1>3, <2>1
    <3>2. QED
      BY <1>1, <1>3, <2>1, <3>1
  <2>6. 2*j <= Len(level) => level[2*j] = t[i + w]
    <3>1. SUFFICES ASSUME 2*j <= Len(level) PROVE level[2*j] = t[i + w]
      OBVIOUS
    <3>2. 2*j \in 1 .. Len(level)
      BY <1>1, <2>1, <3>1
    <3>3. level[2*j] = t[(2*j - 1) * w + 1]
      BY <3>2
    <3>4. (2*j - 1) * w + 1 = i + w
      BY <1>3, <2>1
    <3>5. QED
      BY <3>3, <3>4
  <2> HIDE DEF i
  <2>7. Taller(list, w, t)[i] =
          HashPair(t[i], t[IF i + w <= Len(list) THEN i + w ELSE i])
    BY <2>3 DEF Taller
  <2>8. QED
    BY <2>2, <2>4, <2>5, <2>6, <2>7 DEF i
<1>6. QED
  BY <1>4, <1>5

(* The root buildMerkleRoot computes is the one of the perfect tree.        *)
THEOREM RootIsTreeRoot ==
  ASSUME NEW S, NEW hashes \in Seq(S), hashes # <<>>
  PROVE  BuildMerkleRoot(hashes) = TreeRoot(hashes, Height(hashes))
<1> DEFINE n == Len(hashes)
           L == Levels(hashes)
           h == Height(hashes)
<1>1. IsLevel(hashes) /\ n \in Nat
  BY DEF IsLevel
<1>2. h \in 0 .. n /\ Len(L[h]) = 1 /\ \A k \in 0 .. n : IsLevel(L[k])
  BY <1>1, HeightReached
<1>3. \A k \in 0 .. n : L[k] = IF k = 0 THEN hashes ELSE NextLevel(L[k - 1])
  <2>1. LevelsUpTo(hashes, n, L)
    BY <1>1, LevelsEquation
  <2> HIDE DEF L, n
  <2>2. QED
    BY <2>1 DEF LevelsUpTo
<1>4. BuildMerkleRoot(hashes) = L[h][1]
  BY DEF BuildMerkleRoot
<1>5. h \in Nat /\ h <= n
  BY <1>1, <1>2
<1> HIDE DEF L, h
<1>6. PICK w, t : /\ \A k \in 0 .. h : w[k] = IF k = 0 THEN 1 ELSE 2 * w[k - 1]
                  /\ \A k \in 0 .. h : t[k] = IF k = 0 THEN hashes
                                             ELSE Taller(hashes, w[k - 1], t[k - 1])
                  /\ TreeRoot(hashes, h) = t[h][1]
  BY <1>5, TreeRootEquation
<1> DEFINE Placed(k) ==
             /\ w[k] \in Nat \ {0}
             /\ HoldsTrees(L[k], hashes, w[k], t[k])
           H == {k \in 0 .. h : Placed(k)}
<1>7. 0 \in H
  <2>1. w[0] = 1 /\ t[0] = hashes /\ L[0] = hashes
    BY <1>1, <1>3, <1>5, <1>6
  <2>2. \A j \in Nat \ {0} : (j - 1) * 1 = j - 1 /\ (j - 1) * 1 + 1 = j
    OBVIOUS
  <2>3. \A j \in Nat \ {0} : j <= n <=> (j - 1) * 1 < n
    BY <1>1
  <2>4. \A j \in 1 .. n : hashes[j] = hashes[(j - 1) * 1 + 1]
    BY <1>1
  <2> HIDE DEF n
  <2>5. Placed(0)
    BY <2>1, <2>3, <2>4 DEF n, HoldsTrees
  <2>6. QED
    BY <1>5, <2>5
<1>8. ASSUME NEW k \in 0 .. h - 1, k \in H
      PROVE  k + 1 \in H
  <2>1. /\ k \in 0 .. n /\ k + 1 \in 0 .. n /\ k + 1 \in 0 .. h /\ k + 1 # 0 /\ k + 1 - 1 = k
        /\ k \in 0 .. h
    BY <1>1, <1>5
  <2>2. /\ L[k + 1] = NextLevel(L[k]) /\ w[k + 1] = 2 * w[k]
        /\ t[k + 1] = Taller(hashes, w[k], t[k])
    BY <1>3, <1>6, <2>1
  <2>3. Placed(k) /\ IsLevel(L[k])
    BY <1>2, <1>8, <2>1
  <2>4. w[k] \in Nat \ {0} /\ w[k + 1] \in Nat \ {0}
    BY <2>2, <2>3
  <2>5. HoldsTrees(NextLevel(L[k]), hashes, 2 * w[k], Taller(hashes, w[k], t[k]))
    BY <1>1, <2>3, NodeIsTreeRoot
  <2>6. Placed(k + 1)
    BY <2>2, <2>4, <2>5
  <2>7. QED
    BY <2>1, <2>6
<1>9. Placed(h)
  <2> HIDE DEF Placed
  <2>1. \A k \in 0 .. h - 1 : k \in H => k + 1 \in H
    BY <1>8
  <2> HIDE DEF H
  <2>2. \A k \in 0 .. h : k \in H
    BY <1>5, <1>7, <2>1, UpTo
  <2>3. h \in H
    BY <1>5, <2>2
  <2>4. QED
    BY <2>3 DEF H
<1>10. L[h][1] = t[h][(1 - 1) * w[h] + 1] /\ (1 - 1) * w[h] + 1 = 1
  BY <1>2, <1>9 DEF h, L, HoldsTrees
<1>11. QED
  BY <1>4, <1>6, <1>10 DEF h

-----------------------------------------------------------------------------
(* The lists under test are lists of leaves. *)
LEMMA LeavesTyped == MerkleSpec => [](leaves \in Seq(Leaves))
<1>1. MerkleInit => leaves \in Seq(Leaves)
  BY DEF MerkleInit
<1>2. leaves \in Seq(Leaves) /\ [MerkleNext]_leaves => (leaves \in Seq(Leaves))'
  <2>1. ASSUME leaves \in Seq(Leaves), AddLeaf
        PROVE  leaves' \in Seq(Leaves)
    <3>1. PICK leaf \in Leaves : leaves' = Append(leaves, leaf)
      BY <2>1 DEF AddLeaf
    <3>2. QED
      BY <2>1, <3>1
  <2>2. StartOver => leaves' \in Seq(Leaves)
    BY DEF StartOver
  <2>3. QED
    BY <2>1, <2>2 DEF MerkleNext
<1>3. QED
  BY <1>1, <1>2, PTL DEF MerkleSpec

(* For every set of leaf hashes: the root that buildMerkleRoot computes of a *)
(* list is the one of its perfect tree, and of no other list of its length. *)
THEOREM RootsBind == MerkleSpec => []RootIsBindingTree
<1>1. leaves \in Seq(Leaves) => RootIsBindingTree
  <2> SUFFICES ASSUME leaves \in Seq(Leaves) PROVE RootIsBindingTree
    OBVIOUS
  <2>1. RootIsPerfectTree
    BY RootIsTreeRoot DEF RootIsPerfectTree
  <2>2. ASSUME NEW other \in OtherLists, Len(other) = Len(leaves),
               BuildMerkleRoot(other) = BuildMerkleRoot(leaves)
        PROVE  other = leaves
    <3>1. PICK n \in 1 .. MaxOther : other \in [1 .. n -> Leaves]
      BY <2>2 DEF OtherLists
    <3>2. n \in Nat /\ other \in Seq(Leaves) /\ other # <<>>
      BY <3>1
    <3>3. QED
      BY <2>2, <3>2, RootBindsList
  <2>3. QED
    BY <2>1, <2>2 DEF RootIsBindingTree, RootBindsOrder
<1>2. QED
  BY <1>1, LeavesTyped, PTL

(* Provided that no hash of a pair is taken for a leaf: the proofs of a list *)
(* prove its leaves, and no proof of any list proves another leaf.          *)
THEOREM ProofsProveLeaves ==
  ASSUME \A leaf \in Leaves : \A left, right : HashPair(left, right) # leaf
  PROVE  MerkleSpec => []ProvesExactlyItsLeaves
<1>1. leaves \in Seq(Leaves) => ProvesExactlyItsLeaves
  <2> SUFFICES ASSUME leaves \in Seq(Leaves) PROVE ProvesExactlyItsLeaves
    OBVIOUS
  <2>1. ProofsVerify
    <3>1. ASSUME NEW i \in 0 .. Len(leaves) - 1
          PROVE  VerifyMerkleProof(leaves[i + 1], BuildMerkleProof(leaves, i),
                                   BuildMerkleRoot(leaves))
      <4>1. leaves # <<>>
        BY <3>1
      <4>2. QED
        BY <3>1, <4>1, MerkleProofsVerify
    <3>2. QED
      BY <3>1 DEF ProofsVerify, Positions
  <2>2. ASSUME leaves # <<>>, NEW other \in OtherLists, NEW i \in Positions(other),
               NEW leaf \in Leaves,
               VerifyMerkleProof(leaf, BuildMerkleProof(other, i), BuildMerkleRoot(leaves))
        PROVE  leaf \in ToSet(leaves)
    <3> DEFINE proof == BuildMerkleProof(other, i)
    <3>1. PICK n \in 1 .. MaxOther : other \in [1 .. n -> Leaves]
      BY <2>2 DEF OtherLists
    <3>2. n \in Nat /\ IsLevel(other) /\ other # <<>>
      BY <3>1 DEF IsLevel
    <3>3. Height(other) \in Nat
      BY <3>2, HeightReached DEF IsLevel
    <3>4. PICK T : proof \in Seq(T)
      <4>1. proof = [k \in 1 .. Height(other) |-> proof[k]]
        BY DEF BuildMerkleProof
      <4> HIDE DEF proof
      <4>2. QED
        BY <3>3, <4>1, AsSequence
    <3> HIDE DEF proof
    <3>5. \E x \in 1 .. Len(leaves) : leaf = leaves[x]
      BY <2>2, <3>4, NothingElseVerifies DEF proof
    <3>6. QED
      BY <3>5 DEF ToSet
  <2>3. QED
    BY <2>1, <2>2 DEF ProvesExactlyItsLeaves, NoForeignInclusion
<1>2. QED
  BY <1>1, LeavesTyped, PTL
=============================================================================
