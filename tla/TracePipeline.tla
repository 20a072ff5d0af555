--------------------------- MODULE TracePipeline ---------------------------
(***************************************************************************)
(* The SDK's telemetry pipeline: agent threads offer events to a bounded   *)
(* buffer (sdk/buffer.py); one flusher thread (sdk/flusher.py) drains it,  *)
(* journals the batch (sdk/journal.py), queues it in an outbox and sends   *)
(* the outbox to the ingest API (server/ingest.py), acknowledging in the   *)
(* journal what the API answered for.  The process or the host may crash   *)
(* at any step; the next process recovers the journal (sdk/adapter.py).    *)
(*                                                                         *)
(* Events are numbered in the order they are offered.  One action is one   *)
(* critical section, system call or request of the code.  Times (flush     *)
(* interval, retry backoff, fsync interval, timeouts) are nondeterminism.  *)
(***************************************************************************)
EXTENDS Integers, Sequences, FiniteSets

CONSTANTS
  BufferMax,       (* buffer_max_events: capacity of the buffer AND of the outbox *)
  BatchMax,        (* batch_max_events: events per ingest request                 *)
  FsyncMax,        (* journal_fsync_max_events                                    *)
  RecoverOnStart,  (* recover_on_start: the settings a process may be started with *)
  Invalid,         (* events whose envelope fails validation in the SDK           *)
  Refused,         (* events the ingest API rejects for their schema              *)
  MaxEvents, MaxCrashes, MaxFailures, MaxErrors, MaxLate   (* bounds of the model *)

ASSUME PipelineAssumption ==
  /\ BufferMax \in Nat \ {0}
  /\ BatchMax \in Nat \ {0}
  /\ FsyncMax \in Nat \ {0}
  /\ RecoverOnStart \subseteq BOOLEAN
  /\ Invalid \subseteq Nat \ {0}
  /\ Refused \subseteq Nat \ {0}
  /\ {MaxEvents, MaxCrashes, MaxFailures, MaxErrors, MaxLate} \subseteq Nat

VARIABLES
  app,        (* the thread that owns the adapter: open, flushing, closing, joining, closed; down: no process *)
  pc,         (* where the flusher thread is *)
  emitted,    (* number of events offered so far: event e is the e-th *)
  dropped,    (* events refused because the buffer was full *)
  invalid,    (* events that failed validation in the SDK *)
  buffer,     (* EventBuffer._items *)
  batch,      (* drained and built, not yet journaled: locals of _cycle *)
  outbox,     (* FlushWorker._outbox: entries [seq, ev] *)
  chunk,      (* the entries being sent or acknowledged: a local of _deliver *)
  force,      (* FlushWorker._force *)
  stopping,   (* FlushWorker._stopping *)
  final,      (* the running cycle is the one after the loop *)
  backoff,    (* now < _backoff_until *)
  elapsed,    (* flush_interval_s has passed since _last_send *)
  journal,    (* the journal file: a sequence of lines *)
  synced,     (* number of lines known to be on stable storage *)
  unsynced,   (* EventJournal._unsynced *)
  nextSeq,    (* EventJournal._next_seq *)
  journalOpen,(* ~ EventJournal._closed *)
  request,    (* events of the current request the API has not handled yet *)
  late,       (* requests the client gave up on and the API is still handling *)
  chain,      (* the tenant's hash chain: events in chain_seq order *)
  rejected,   (* events the API answered schema_validation_error for *)
  flushed,    (* what the last flush() returned: none, pending, true, false *)
  flushMark,  (* emitted when that flush() was called *)
  shelved,    (* events the process let go of while the journal keeps their record, or a failed append lost *)
  crashLost,  (* events whose only copy a crash destroyed *)
  crashes, failures, errors     (* how often each bounded fault has happened *)

appVars     == <<app, flushed, flushMark>>
bufferVars  == <<emitted, dropped, buffer>>
flusherVars == <<pc, batch, outbox, chunk, force, final, backoff, elapsed, invalid>>
journalVars == <<journal, synced, unsynced, nextSeq>>
serverVars  == <<request, late, chain, rejected>>
faultVars   == <<crashes, failures, errors>>
vars == <<appVars, bufferVars, flusherVars, journalVars, serverVars, faultVars,
          stopping, journalOpen, shelved, crashLost>>

Events == 1..MaxEvents
Elems(s) == {s[i] : i \in DOMAIN s}
EventsOf(entries) == {entries[i].ev : i \in DOMAIN entries}

-----------------------------------------------------------------------------
(* Journal lines.  A torn line is the partial record a write that was cut  *)
(* short leaves behind; whatever is written next continues that line, so   *)
(* the record it starts with is unreadable too.                            *)

EventRecord(n, e) == [k |-> "e", seq |-> n, ev |-> e]
AckRecord(n)      == [k |-> "a", seq |-> n, ev |-> 0]
TornRecord        == [k |-> "torn", seq |-> 0, ev |-> 0]
CorruptRecord     == [k |-> "corrupt", seq |-> 0, ev |-> 0]

Lines == [k : {"e", "a", "torn", "corrupt"}, seq : Nat, ev : Nat]
Entries == [seq : Nat, ev : Nat]

EndsTorn(j) == Len(j) > 0 /\ j[Len(j)] = TornRecord

(* EventJournal._write of whole records at the end of the file *)
WriteLines(j, lines) ==
  IF EndsTorn(j)
    THEN SubSeq(j, 1, Len(j) - 1) \o <<CorruptRecord>> \o Tail(lines)
    ELSE j \o lines

(* a write cut short after its first n records, perhaps inside the next one *)
WritePart(j, lines, n, torn) ==
  LET whole == IF n = 0 THEN j ELSE WriteLines(j, SubSeq(lines, 1, n))
  IN  IF torn /\ ~EndsTorn(whole) THEN Append(whole, TornRecord) ELSE whole

BatchRecords == [i \in 1..Len(batch) |-> EventRecord(nextSeq + i - 1, batch[i])]
BatchEntries == [i \in 1..Len(batch) |-> [seq |-> nextSeq + i - 1, ev |-> batch[i]]]

(* recover(): an acknowledgement covers every sequence number up to its own *)
AckedOneTooMany(j, n) == \E i \in DOMAIN j : j[i].k = "a" /\ n <= j[i].seq + 1
Acked(j, n) == \E i \in DOMAIN j : j[i].k = "a" /\ n <= j[i].seq
Unacked(j)  == {i \in DOMAIN j : j[i].k = "e" /\ ~Acked(j, j[i].seq)}
Replayable(j) == {j[i].ev : i \in Unacked(j)}

(* every way to list a finite set of positions in increasing order: there is one *)
InOrder(S) == {f \in [1..Cardinality(S) -> S] :
                 /\ \A m, n \in 1..Cardinality(S) : m < n => f[m] < f[n]
                 /\ \A i \in S : \E n \in 1..Cardinality(S) : f[n] = i}

(* _evict_locked: what is left of a queue that may hold BufferMax entries. *)
(* KeptNewestEvicted, like every operator named after a bug, is a faulty   *)
(* variant of the definition below it, used to test the properties.        *)
KeptNewestEvicted(q) == SubSeq(q, 1, IF Len(q) > BufferMax THEN BufferMax ELSE Len(q))

Overflow(q) == IF Len(q) > BufferMax THEN Len(q) - BufferMax ELSE 0
Kept(q)     == SubSeq(q, Overflow(q) + 1, Len(q))
Evicted(q)  == EventsOf(SubSeq(q, 1, Overflow(q)))

(* an event nobody has to deliver any more *)
Settled == Elems(chain) \cup rejected
Accepted == (1..emitted) \ dropped

-----------------------------------------------------------------------------
Init ==
  /\ app = "open" /\ pc = "idle"
  /\ emitted = 0 /\ dropped = {} /\ invalid = {}
  /\ buffer = <<>> /\ batch = <<>> /\ outbox = <<>> /\ chunk = <<>>
  /\ force = FALSE /\ stopping = FALSE /\ final = FALSE
  /\ backoff = FALSE /\ elapsed = FALSE
  /\ journal = <<>> /\ synced = 0 /\ unsynced = 0 /\ nextSeq = 1 /\ journalOpen = TRUE
  /\ request = <<>> /\ late = {} /\ chain = <<>> /\ rejected = {}
  /\ flushed = "none" /\ flushMark = 0
  /\ shelved = {} /\ crashLost = {}
  /\ crashes = 0 /\ failures = 0 /\ errors = 0

-----------------------------------------------------------------------------
(* Agent threads *)

(* EventBuffer.offer: the arriving event is the one a full buffer drops. *)
(* Closing the adapter does not close its traces, so it may still come.  *)
Offer ==
  /\ app # "down" /\ emitted < MaxEvents
  /\ emitted' = emitted + 1
  /\ \/ /\ Len(buffer) >= BufferMax
        /\ dropped' = dropped \cup {emitted + 1}
        /\ UNCHANGED buffer
     \/ /\ Len(buffer) < BufferMax
        /\ buffer' = Append(buffer, emitted + 1)
        /\ UNCHANGED dropped
  /\ UNCHANGED <<appVars, flusherVars, journalVars, serverVars, faultVars,
                 stopping, journalOpen, shelved, crashLost>>

(* flush(), also as the first step of close() *)
FlushCall(next) ==
  /\ app = "open"
  /\ app' = next
  /\ force' = TRUE
  /\ flushed' = "pending" /\ flushMark' = emitted
  /\ UNCHANGED <<bufferVars, pc, batch, outbox, chunk, final, backoff, elapsed, invalid,
                 journalVars, serverVars, faultVars, stopping, journalOpen, shelved, crashLost>>

Flush == FlushCall("flushing")
Close == FlushCall("closing")

NothingQueuedButBuffered == outbox = <<>> /\ pc # "sending"
NothingQueued == outbox = <<>> /\ pc # "sending" /\ buffer = <<>>

(* flush() returns: true when it sees nothing queued, false at its        *)
(* deadline.  close() goes on to stop(), which sets _stopping.            *)
FlushReturn ==
  /\ app \in {"flushing", "closing"}
  /\ flushed' = IF NothingQueued THEN "true" ELSE "false"
  /\ app' = IF app = "closing" THEN "joining" ELSE "open"
  /\ stopping' = (app = "closing")
  /\ UNCHANGED <<flushMark, bufferVars, flusherVars, journalVars, serverVars, faultVars,
                 journalOpen, shelved, crashLost>>

(* stop() has joined the flusher or has waited long enough; the journal is closed *)
CloseJournal ==
  /\ app = "joining"
  /\ app' = "closed"
  /\ journalOpen' = FALSE
  /\ synced' = Len(journal) /\ unsynced' = 0
  /\ UNCHANGED <<flushed, flushMark, bufferVars, flusherVars, journal, nextSeq, serverVars,
                 faultVars, stopping, shelved, crashLost>>

-----------------------------------------------------------------------------
(* The flusher thread *)

AfterCycle == IF final THEN "stopped" ELSE "idle"

(* the test of _run's loop; past it the thread may wait until any moment *)
LoopTest ==
  /\ pc = "idle"
  /\ pc' = "cycle"
  /\ final' = stopping
  /\ UNCHANGED <<appVars, bufferVars, batch, outbox, chunk, force, backoff, elapsed, invalid,
                 journalVars, serverVars, faultVars, stopping, journalOpen, shelved, crashLost>>

(* EventBuffer.drain and _build, which drops the events that do not validate *)
Drain ==
  /\ pc = "cycle"
  /\ buffer' = <<>>
  /\ invalid' = invalid \cup (Elems(buffer) \cap Invalid)
  /\ \E f \in InOrder({i \in DOMAIN buffer : buffer[i] \notin Invalid}) :
       batch' = [n \in DOMAIN f |-> buffer[f[n]]]
  /\ pc' = IF Elems(buffer) \subseteq Invalid THEN "deliver" ELSE "append"
  /\ UNCHANGED <<appVars, emitted, dropped, outbox, chunk, force, final, backoff, elapsed,
                 journalVars, serverVars, faultVars, stopping, journalOpen, shelved, crashLost>>

(* the outbox with the batch queued behind what it holds *)
QueuedInFront == BatchEntries \o outbox
Queued == outbox \o BatchEntries

(* _maybe_sync_locked, but for the interval, which may have passed at any append *)
FsyncDueLate == unsynced >= FsyncMax
FsyncDue == unsynced + Len(batch) >= FsyncMax

(* EventJournal.append, then the outbox takes the batch and evicts its    *)
(* oldest entries.  fsync when FsyncMax events wait for it, or when the   *)
(* fsync interval has passed.                                             *)
JournalBatch ==
  /\ pc = "append" /\ journalOpen
  /\ journal' = WriteLines(journal, BatchRecords)
  /\ nextSeq' = nextSeq + Len(batch)
  /\ \/ synced' = Len(journal') /\ unsynced' = 0
     \/ /\ ~FsyncDue
        /\ unsynced' = unsynced + Len(batch)
        /\ UNCHANGED synced
  /\ outbox' = Kept(Queued)
  /\ shelved' = shelved \cup Evicted(Queued)
  /\ batch' = <<>>
  /\ pc' = "deliver"
  /\ UNCHANGED <<appVars, bufferVars, chunk, force, final, backoff, elapsed, invalid,
                 serverVars, faultVars, stopping, journalOpen, crashLost>>

(* The append raises; _guarded_cycle counts the error and goes on.  The   *)
(* first n records are in the file, next_seq only moves when all are      *)
(* (then it is the fsync that failed).                                    *)
AppendFails ==
  /\ pc = "append" /\ journalOpen /\ errors < MaxErrors
  /\ errors' = errors + 1
  /\ \E n \in 0..Len(batch), torn \in BOOLEAN :
       /\ n = Len(batch) => ~torn
       /\ journal' = WritePart(journal, BatchRecords, n, torn)
       /\ nextSeq' = IF n = Len(batch) THEN nextSeq + n ELSE nextSeq
       /\ unsynced' = IF n = Len(batch) THEN unsynced + n ELSE unsynced
  /\ shelved' = shelved \cup Elems(batch)
  /\ batch' = <<>>
  /\ pc' = AfterCycle
  /\ UNCHANGED <<appVars, bufferVars, outbox, chunk, force, final, backoff, elapsed, invalid,
                 synced, serverVars, crashes, failures, stopping, journalOpen, crashLost>>

(* append after close(): _require_open raises *)
AppendAfterClose ==
  /\ pc = "append" /\ ~journalOpen
  /\ shelved' = shelved \cup Elems(batch)
  /\ batch' = <<>>
  /\ pc' = AfterCycle
  /\ UNCHANGED <<appVars, bufferVars, outbox, chunk, force, final, backoff, elapsed, invalid,
                 journalVars, serverVars, faultVars, stopping, journalOpen, crashLost>>

(* _due *)
DueWhenFull ==
  /\ outbox # <<>>
  /\ ~backoff \/ final
  /\ final \/ force \/ Len(outbox) >= BatchMax

Due ==
  /\ outbox # <<>>
  /\ ~backoff \/ final
  /\ final \/ force \/ Len(outbox) >= BatchMax \/ elapsed

Deliver ==
  /\ pc = "deliver"
  /\ pc' = IF Due THEN "send" ELSE AfterCycle
  /\ force' = (force /\ outbox # <<>>)
  /\ UNCHANGED <<appVars, bufferVars, batch, outbox, chunk, final, backoff, elapsed, invalid,
                 journalVars, serverVars, faultVars, stopping, journalOpen, shelved, crashLost>>

(* the head of _deliver's loop: an empty outbox ends it ... *)
SendDone ==
  /\ pc = "send" /\ outbox = <<>>
  /\ force' = FALSE /\ elapsed' = FALSE
  /\ pc' = AfterCycle
  /\ UNCHANGED <<appVars, bufferVars, batch, outbox, chunk, final, backoff, invalid,
                 journalVars, serverVars, faultVars, stopping, journalOpen, shelved, crashLost>>

(* ... otherwise its first BatchMax entries are sent *)
SendChunk ==
  /\ pc = "send" /\ outbox # <<>>
  /\ chunk' = SubSeq(outbox, 1, IF Len(outbox) < BatchMax THEN Len(outbox) ELSE BatchMax)
  /\ request' = [i \in DOMAIN chunk' |-> chunk'[i].ev]
  /\ pc' = "sending"
  /\ UNCHANGED <<appVars, bufferVars, batch, outbox, force, final, backoff, elapsed, invalid,
                 journalVars, late, chain, rejected, faultVars, stopping, journalOpen,
                 shelved, crashLost>>

UnsentCleared == <<>>
Unsent == SubSeq(outbox, Len(chunk) + 1, Len(outbox))

(* the API has answered for every event of the chunk *)
SendSucceeds ==
  /\ pc = "sending" /\ request = <<>>
  /\ outbox' = Unsent
  /\ backoff' = FALSE /\ elapsed' = FALSE
  /\ pc' = "ack"
  /\ UNCHANGED <<appVars, bufferVars, batch, chunk, force, final, invalid, journalVars,
                 serverVars, faultVars, stopping, journalOpen, shelved, crashLost>>

(* a request the client abandons is dropped by the API or handled to its end *)
Abandon ==
  \/ UNCHANGED late
  \/ /\ request # <<>> /\ Cardinality(late) < MaxLate
     /\ late' = late \cup {request}

(* TransportError: before, during or after the API's handling of the request *)
SendFails ==
  /\ pc = "sending" /\ failures < MaxFailures
  /\ failures' = failures + 1
  /\ backoff' = TRUE
  /\ Abandon
  /\ request' = <<>> /\ chunk' = <<>>
  /\ pc' = AfterCycle
  /\ UNCHANGED <<appVars, bufferVars, batch, outbox, force, final, elapsed, invalid,
                 journalVars, chain, rejected, crashes, errors, stopping, journalOpen,
                 shelved, crashLost>>

HighestSeqOfJournal == nextSeq - 1
HighestSeq == chunk[Len(chunk)].seq

(* EventJournal.ack *)
Ack ==
  /\ pc = "ack" /\ journalOpen
  /\ journal' = WriteLines(journal, <<AckRecord(HighestSeq)>>)
  /\ chunk' = <<>>
  /\ pc' = "send"
  /\ UNCHANGED <<appVars, bufferVars, batch, outbox, force, final, backoff, elapsed, invalid,
                 synced, unsynced, nextSeq, serverVars, faultVars, stopping, journalOpen,
                 shelved, crashLost>>

(* the ack raises: the write fails ... *)
AckFails ==
  /\ pc = "ack" /\ journalOpen /\ errors < MaxErrors
  /\ errors' = errors + 1
  /\ \E torn \in BOOLEAN : journal' = WritePart(journal, <<>>, 0, torn)
  /\ chunk' = <<>>
  /\ pc' = AfterCycle
  /\ UNCHANGED <<appVars, bufferVars, batch, outbox, force, final, backoff, elapsed, invalid,
                 synced, unsynced, nextSeq, serverVars, crashes, failures, stopping,
                 journalOpen, shelved, crashLost>>

(* ... or the journal is closed *)
AckAfterClose ==
  /\ pc = "ack" /\ ~journalOpen
  /\ chunk' = <<>>
  /\ pc' = AfterCycle
  /\ UNCHANGED <<appVars, bufferVars, batch, outbox, force, final, backoff, elapsed, invalid,
                 journalVars, serverVars, faultVars, stopping, journalOpen, shelved, crashLost>>

-----------------------------------------------------------------------------
(* Time *)

BackoffExpires ==
  /\ backoff /\ backoff' = FALSE
  /\ UNCHANGED <<appVars, bufferVars, pc, batch, outbox, chunk, force, final, elapsed, invalid,
                 journalVars, serverVars, faultVars, stopping, journalOpen, shelved, crashLost>>

IntervalElapses ==
  /\ ~elapsed /\ elapsed' = TRUE
  /\ UNCHANGED <<appVars, bufferVars, pc, batch, outbox, chunk, force, final, backoff, invalid,
                 journalVars, serverVars, faultVars, stopping, journalOpen, shelved, crashLost>>

-----------------------------------------------------------------------------
(* The ingest API: each event of a request in a transaction of its own; an *)
(* event id already in the chain is answered duplicate_event.              *)

Ingest(e) ==
  \/ e \in Refused /\ rejected' = rejected \cup {e} /\ UNCHANGED chain
  \/ /\ e \notin Refused
     /\ chain' = IF e \in Elems(chain) THEN chain ELSE Append(chain, e)
     /\ UNCHANGED rejected

IngestEvent ==
  /\ request # <<>>
  /\ Ingest(Head(request))
  /\ request' = Tail(request)
  /\ UNCHANGED <<appVars, bufferVars, flusherVars, journalVars, late, faultVars, stopping,
                 journalOpen, shelved, crashLost>>

IngestLate ==
  /\ \E r \in late :
       /\ Ingest(Head(r))
       /\ late' = (late \ {r}) \cup (IF Len(r) = 1 THEN {} ELSE {Tail(r)})
  /\ UNCHANGED <<appVars, bufferVars, flusherVars, journalVars, request, faultVars, stopping,
                 journalOpen, shelved, crashLost>>

-----------------------------------------------------------------------------
(* Crashes and recovery *)

(* the process ends with j as the journal's content: what was only in its memory is gone *)
DieWith(j) ==
  /\ crashes < MaxCrashes
  /\ crashes' = crashes + 1
  /\ app' = "down" /\ pc' = "down"
  /\ journal' = j /\ synced' = Len(j) /\ unsynced' = 0
  /\ crashLost' = crashLost \cup ((Elems(buffer) \cup Elems(batch) \cup EventsOf(outbox)
                                      \cup Replayable(journal)) \ Replayable(j))
  /\ buffer' = <<>> /\ batch' = <<>> /\ outbox' = <<>> /\ chunk' = <<>> /\ request' = <<>>
  /\ Abandon
  /\ force' = FALSE /\ stopping' = FALSE /\ final' = FALSE
  /\ backoff' = FALSE /\ elapsed' = FALSE
  /\ flushed' = "none" /\ flushMark' = 0
  /\ journalOpen' = FALSE
  /\ UNCHANGED <<emitted, dropped, invalid, nextSeq, chain, rejected, failures, errors, shelved>>

(* the process dies and the file keeps every byte written, or the host    *)
(* does and the file keeps at least what was synced                       *)
Crash ==
  /\ app # "down"
  /\ \E n \in synced..Len(journal) : DieWith(SubSeq(journal, 1, n))

(* ... or the crash interrupts the write of a batch *)
CrashInWrite ==
  /\ pc = "append" /\ journalOpen
  /\ \E n \in 0..(Len(batch) - 1), torn \in BOOLEAN :
       DieWith(WritePart(journal, BatchRecords, n, torn))

(* the highest sequence number of a journal: recover()'s highest_seq *)
HighestIn(j) == {n \in {0} \cup {j[i].seq : i \in DOMAIN j} : \A i \in DOMAIN j : j[i].seq <= n}

(* start_seq behind n replayed records, which compact() numbered from 1 *)
StartSeqAtOne(n) == 1
StartSeqTooLow(n) == n - 1
StartSeq(n) == n + 1

(* recover() and, with recover_on_start, compact() and a replay of what is *)
(* unacknowledged                                                          *)
ReplayJournal ==
  \E f \in InOrder(Unacked(journal)) :
    LET replay == [n \in DOMAIN f |-> [seq |-> n, ev |-> journal[f[n]].ev]]
    IN  /\ journal' = [n \in DOMAIN f |-> EventRecord(n, journal[f[n]].ev)]
        /\ synced' = Len(replay)
        /\ nextSeq' = StartSeq(Len(replay))
        /\ outbox' = Kept(replay)
        /\ shelved' = shelved \cup Evicted(replay)

(* ... without it, the numbering goes on behind what is there *)
ContinueJournal ==
  /\ \E n \in HighestIn(journal) : nextSeq' = n + 1
  /\ shelved' = shelved \cup Replayable(journal)
  /\ UNCHANGED <<journal, synced, outbox>>

(* Adapter.__init__ on the journal a previous process left *)
Restart ==
  /\ app = "down"
  /\ app' = "open" /\ pc' = "idle" /\ journalOpen' = TRUE
  /\ unsynced' = 0
  /\ \E recover \in RecoverOnStart : IF recover THEN ReplayJournal ELSE ContinueJournal
  /\ UNCHANGED <<flushed, flushMark, bufferVars, batch, chunk, force, final, backoff, elapsed,
                 invalid, serverVars, faultVars, stopping, crashLost>>

-----------------------------------------------------------------------------
Application == Offer \/ Flush \/ Close \/ FlushReturn \/ CloseJournal
Flusher == \/ LoopTest \/ Drain \/ JournalBatch \/ AppendAfterClose \/ Deliver
           \/ SendDone \/ SendChunk \/ SendSucceeds \/ Ack \/ AckAfterClose
Faults  == AppendFails \/ AckFails \/ SendFails \/ Crash \/ CrashInWrite
Time    == BackoffExpires \/ IntervalElapses
Server  == IngestEvent \/ IngestLate

Next == Application \/ Flusher \/ Faults \/ Time \/ Server \/ Restart

Spec == Init /\ [][Next]_vars

(* The flusher thread, the clock and the API keep running, stop() waits    *)
(* only so long, and a process that went down is started again; nobody has *)
(* to offer, flush or close.                                               *)
Fairness == /\ WF_vars(Flusher) /\ WF_vars(CloseJournal) /\ WF_vars(BackoffExpires) /\ WF_vars(IntervalElapses)
            /\ WF_vars(IngestEvent) /\ WF_vars(Restart)

FairSpec == Spec /\ Fairness

-----------------------------------------------------------------------------
TypeOwner ==
  /\ app \in {"open", "flushing", "closing", "joining", "closed", "down"}
  /\ flushed \in {"none", "pending", "true", "false"} /\ flushMark \in Nat
  /\ stopping \in BOOLEAN /\ journalOpen \in BOOLEAN

TypeBuffer == emitted \in Nat /\ dropped \subseteq Nat /\ buffer \in Seq(Nat)

TypeFlusher ==
  /\ pc \in {"idle", "cycle", "append", "deliver", "send", "sending", "ack", "stopped", "down"}
  /\ batch \in Seq(Nat) /\ outbox \in Seq(Entries) /\ chunk \in Seq(Entries)
  /\ force \in BOOLEAN /\ final \in BOOLEAN /\ backoff \in BOOLEAN /\ elapsed \in BOOLEAN
  /\ invalid \subseteq Nat

TypeJournal == journal \in Seq(Lines) /\ synced \in Nat /\ unsynced \in Nat /\ nextSeq \in Nat

TypeServer == /\ request \in Seq(Nat) /\ late \subseteq Seq(Nat) \ {<<>>}
              /\ chain \in Seq(Nat) /\ rejected \subseteq Nat

TypeRest == /\ shelved \subseteq Nat /\ crashLost \subseteq Nat
            /\ crashes \in Nat /\ failures \in Nat /\ errors \in Nat

(* Every variable has its type. *)
TypeOK == TypeOwner /\ TypeBuffer /\ TypeFlusher /\ TypeJournal /\ TypeServer /\ TypeRest

(* An acknowledged record is of an event the API has answered for, unless  *)
(* the process had let go of that event: acknowledgements are cumulative   *)
(* (journal.py, ack and recover), so sending out of sequence, a wrong      *)
(* highest_seq or a reused sequence number would hide an unsent record.    *)
AckCoversSettled ==
  \A i \in DOMAIN journal :
    journal[i].k = "e" /\ Acked(journal, journal[i].seq)
      => journal[i].ev \in Settled \cup shelved

(* What ack's docstring says: "every event through through_seq reached     *)
(* ingest" (journal.py:259).                                               *)
AckMeansIngested ==
  \A i \in DOMAIN journal :
    journal[i].k = "e" /\ Acked(journal, journal[i].seq) => journal[i].ev \in Settled

(* An event offer() accepted is somewhere: on its way, answered for,       *)
(* counted invalid, or among those an eviction, a failed append or a crash *)
(* is known to have taken.  Nothing disappears between two steps of the    *)
(* flusher, in a retry, or in recovery.                                    *)
NothingVanishes ==
  Accepted \subseteq
    Elems(buffer) \cup Elems(batch) \cup EventsOf(outbox) \cup Settled \cup invalid
      \cup shelved \cup crashLost \cup (IF app = "down" THEN Replayable(journal) ELSE {})

(* An event in the retry queue that is not answered for would be replayed  *)
(* by the next process: "what it loses is whatever was still in the        *)
(* in-memory buffer" (adapter.py:437-438).                                 *)
OutboxIsReplayable == EventsOf(outbox) \subseteq Settled \cup Replayable(journal)

(* As long as nothing was evicted or destroyed, the tenant's chain holds   *)
(* the events in the order they were emitted, once each, through retries,  *)
(* abandoned requests still being handled, crashes and replays.            *)
IngestedInOrder ==
  shelved \cup crashLost = {} =>
    \A m, n \in DOMAIN chain : m < n => chain[m] < chain[n]

(* Losing the host costs fewer than FsyncMax journaled events: the loss    *)
(* bound the fsync policy is for (journal.py, _maybe_sync_locked).         *)
HostLossBounded == Cardinality({i \in Unacked(journal) : i > synced}) < FsyncMax

(* Together: what one crash can cost, and that nothing else is lost; and   *)
(* that what is still owed is replayed, and arrives in order.              *)
LossBounded == NothingVanishes /\ HostLossBounded
ReplayInOrder == OutboxIsReplayable /\ IngestedInOrder

(* Why AckCoversSettled holds: IInv is preserved by every step.            *)

(* what each point of the flusher's code knows about its locals *)
FlusherShape ==
  /\ app = "down" => pc = "down" /\ outbox = <<>>
  /\ pc = "append" => batch # <<>>
  /\ pc \in {"sending", "ack"} => chunk # <<>>
  /\ pc = "sending" => /\ Len(chunk) <= Len(outbox)
                       /\ \A m \in 1..Len(chunk) : chunk[m] = outbox[m]

(* sequence numbers grow along the outbox and none is at or above next_seq *)
SeqsOrdered ==
  /\ \A m, n \in 1..Len(outbox) : m < n => outbox[m].seq < outbox[n].seq
  /\ \A m \in 1..Len(outbox) : outbox[m].seq < nextSeq
  /\ app # "down" => \A r \in Elems(journal) : r.k = "a" => r.seq < nextSeq
  /\ pc = "ack" => HighestSeq < nextSeq

(* a running process still has to send every event it did not let go of *)
RecordsHeld ==
  app # "down" => \A r \in Elems(journal) :
    r.k = "e" => \/ r.ev \in Settled \cup shelved
                 \/ [seq |-> r.seq, ev |-> r.ev] \in Elems(outbox)

(* the API has answered for an event of the chunk, or has it before it *)
ChunkAsked == pc = "sending" =>
  \A m \in 1..Len(chunk) : chunk[m].ev \in Settled \cup Elems(request)

(* the acknowledgement about to be written is safe *)
AckSafe == pc = "ack" =>
  \A r \in Elems(journal) : r.k = "e" /\ r.seq <= HighestSeq => r.ev \in Settled \cup shelved

AcksSafe == \A r, a \in Elems(journal) :
  r.k = "e" /\ a.k = "a" /\ r.seq <= a.seq => r.ev \in Settled \cup shelved

IInv == FlusherShape /\ SeqsOrdered /\ RecordsHeld /\ ChunkAsked /\ AckSafe /\ AcksSafe

Done == Settled \cup invalid \cup shelved \cup crashLost

(* What flush() does promise: when it returns true, the only events it may *)
(* have missed are those the flusher has drained and not yet journaled.    *)
FlushMissesOnlyTheBatch ==
  [][flushed = "pending" /\ flushed' = "true"
       => Accepted \cap (1..flushMark) \subseteq Done \cup Elems(batch)]_vars

(* Every accepted event is answered for in the end, however often the API  *)
(* fails and the process crashes, unless it was evicted, destroyed by a    *)
(* crash, or left to a run after close().                                  *)
EventuallySettled ==
  \A e \in Events : e \in Accepted ~> (e \in Done \/ app = "closed")

=============================================================================
