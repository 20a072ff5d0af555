--------------------------- MODULE JournalOwnership ---------------------------
(***************************************************************************)
(* Who owns a journal (sdk/journal.py, Adapter._open_journal): adapters of *)
(* several processes that open one path, one after another or at once.     *)
(* Recovery and compaction come before the lock, and the lock is on the    *)
(* file: one that was replaced stays the file of the adapter that has it   *)
(* open.  What the flusher does with a journal is TracePipeline; here a    *)
(* session journals events, and delivers them in order.                    *)
(*                                                                         *)
(* Records are whole and of one size; those of an acknowledgement have no  *)
(* event.                                                                  *)
(***************************************************************************)
EXTENDS Integers, SequencesExt, FiniteSets

CONSTANTS
  MaxSessions, MaxJournaled  (* bounds of the model *)

VARIABLES
  journalFiles,   (* every file there ever was: its records [seq, of] *)
  atPath,         (* the file that the path names, or NoInode *)
  atSpare,        (* the file that path.compact names, or NoInode *)
  sessions,       (* [at, recovers, beside, found, start, file, next, pending] *)
  journaled,      (* how many events were journaled: they are 1..journaled *)
  deliveredThere, (* those that reached ingest *)
  takenOver,      (* history: one that began beside another took the path or the lock *)
  skippedOver      (* history: events found by an adapter opened without recovery *)

ownershipVars ==
  <<journalFiles, atPath, atSpare, sessions, journaled, deliveredThere, takenOver, skippedOver>>

NoInode == 0
NoEvent == 0

OwnershipInit ==
  /\ journalFiles = <<>> /\ atPath = NoInode /\ atSpare = NoInode /\ sessions = <<>>
  /\ journaled = 0 /\ deliveredThere = {} /\ takenOver = FALSE /\ skippedOver = {}

-----------------------------------------------------------------------------
(* recover: the events that no acknowledgement covers, and the next number *)
RecordsAt(file) == IF file = NoInode THEN <<>> ELSE journalFiles[file]
HighestSeq(S) == IF S = {} THEN 0 ELSE CHOOSE n \in S : \A k \in S : k <= n
SeqsOf(log, acks) == {log[i].seq : i \in {i \in DOMAIN log : (log[i].of = NoEvent) = acks}}
Unacknowledged(log) ==
  LET acked == HighestSeq(SeqsOf(log, TRUE))
      kept[n \in 0..Len(log)] ==
        IF n = 0 THEN <<>>
        ELSE IF log[n].of # NoEvent /\ log[n].seq > acked THEN Append(kept[n - 1], log[n]) ELSE kept[n - 1]
  IN  kept[Len(log)]
NextSeq(log) == HighestSeq(SeqsOf(log, TRUE) \cup SeqsOf(log, FALSE)) + 1

Alive(s) == sessions[s].at # "ended"
Running(s) == sessions[s].at = "running"
Goes(s, step) == [sessions EXCEPT ![s].at = step]

(* _open_journal reads what the path names; sessions are beside one        *)
(* another when one begins while another is still beginning, or running    *)
BeginSession(recovers) ==
  /\ Len(sessions) < MaxSessions
  /\ LET log == RecordsAt(atPath) IN
     sessions' = Append([s \in DOMAIN sessions |->
                           [sessions[s] EXCEPT !.beside = @ \/ (Alive(s) /\ ~Running(s))]],
                        [at |-> IF recovers THEN "recovered" ELSE "placed", recovers |-> recovers,
                         beside |-> \E s \in DOMAIN sessions : Alive(s),
                         found |-> Unacknowledged(log), start |-> NextSeq(log), file |-> NoInode,
                         next |-> 1, pending |-> <<>>])
  /\ UNCHANGED <<journalFiles, atPath, atSpare, journaled, deliveredThere, takenOver, skippedOver>>

(* compact: the temporary file is created, or truncated under whoever has  *)
(* it open                                                                 *)
OpenSpare(s) ==
  /\ sessions[s].at = "recovered"
  /\ IF atSpare = NoInode
     THEN journalFiles' = Append(journalFiles, <<>>) /\ atSpare' = Len(journalFiles) + 1
     ELSE journalFiles' = [journalFiles EXCEPT ![atSpare] = <<>>] /\ UNCHANGED atSpare
  /\ sessions' = [Goes(s, "rewriting") EXCEPT ![s].file = atSpare']
  /\ UNCHANGED <<atPath, journaled, deliveredThere, takenOver, skippedOver>>

(* the surviving records, renumbered from one *)
AsFound(found) == found
Renumbered(found) == [i \in DOMAIN found |-> [seq |-> i, of |-> found[i].of]]

WriteSpare(s) ==
  /\ sessions[s].at = "rewriting"
  /\ LET new == [i \in DOMAIN sessions[s].found |-> [sessions[s].found[i] EXCEPT !.seq = i]]
         old == journalFiles[sessions[s].file] IN
     journalFiles' = [journalFiles EXCEPT ![sessions[s].file] = new \o SubSeq(old, Len(new) + 1, Len(old))]
  /\ sessions' = Goes(s, "rewritten")
  /\ UNCHANGED <<atPath, atSpare, journaled, deliveredThere, takenOver, skippedOver>>

(* os.replace moves whatever has the temporary name by then, and raises    *)
(* when another adapter moved it already                                   *)
PutInPlace(s) ==
  /\ sessions[s].at = "rewritten"
  /\ IF atSpare = NoInode THEN sessions' = Goes(s, "ended") /\ UNCHANGED <<atPath, atSpare, takenOver>>
     ELSE /\ sessions' = Goes(s, "placed") /\ atPath' = atSpare /\ atSpare' = NoInode
          /\ takenOver' = (takenOver \/ sessions[s].beside)
  /\ UNCHANGED <<journalFiles, journaled, deliveredThere, skippedOver>>

(* EventJournal.__init__: open or create, *)
OpenJournal(s) ==
  /\ sessions[s].at = "placed"
  /\ IF atPath = NoInode
     THEN journalFiles' = Append(journalFiles, <<>>) /\ atPath' = Len(journalFiles) + 1
     ELSE UNCHANGED <<journalFiles, atPath>>
  /\ sessions' = [Goes(s, "opened") EXCEPT ![s].file = atPath']
  /\ UNCHANGED <<atSpare, journaled, deliveredThere, takenOver, skippedOver>>

(* and lock; what was found is queued under its new numbers, or left alone *)
LockTaken(file) == \E s \in DOMAIN sessions : Running(s) /\ sessions[s].file = file
NeverRefused(file) == TRUE
LockFree(file) == ~LockTaken(file)
LockJournal(s) ==
  /\ sessions[s].at = "opened"
  /\ LET me == sessions[s] IN
     IF ~LockFree(me.file) THEN sessions' = Goes(s, "ended") /\ UNCHANGED <<takenOver, skippedOver>>
     ELSE /\ takenOver' = (takenOver \/ me.beside)
          /\ IF me.recovers
             THEN /\ sessions' = [Goes(s, "running") EXCEPT ![s].next = Len(me.found) + 1,
                                                            ![s].pending = Renumbered(me.found)]
                  /\ UNCHANGED skippedOver
             ELSE /\ sessions' = [Goes(s, "running") EXCEPT ![s].next = me.start]
                  /\ skippedOver' = skippedOver \cup {r.of : r \in Range(journalFiles[me.file])}
  /\ UNCHANGED <<journalFiles, atPath, atSpare, journaled, deliveredThere>>

-----------------------------------------------------------------------------
Written(s, seq, of) ==
  [journalFiles EXCEPT ![sessions[s].file] = Append(@, [seq |-> seq, of |-> of])]

(* EventJournal.append *)
JournalEvent(s) ==
  /\ Running(s) /\ journaled < MaxJournaled
  /\ journaled' = journaled + 1
  /\ journalFiles' = Written(s, sessions[s].next, journaled + 1)
  /\ sessions' = [sessions EXCEPT ![s].next = @ + 1,
                                  ![s].pending = Append(@, [seq |-> sessions[s].next, of |-> journaled + 1])]
  /\ UNCHANGED <<atPath, atSpare, deliveredThere, takenOver, skippedOver>>

(* the oldest event reaches ingest, and EventJournal.ack says so *)
Acknowledge(s) ==
  /\ Running(s) /\ sessions[s].pending # <<>>
  /\ LET first == Head(sessions[s].pending) IN
     /\ deliveredThere' = deliveredThere \cup {first.of}
     /\ journalFiles' = Written(s, first.seq, NoEvent)
  /\ sessions' = [sessions EXCEPT ![s].pending = Tail(@)]
  /\ UNCHANGED <<atPath, atSpare, journaled, takenOver, skippedOver>>

(* EventJournal.close, or the death of the process at any point *)
EndSession(s) ==
  /\ Alive(s)
  /\ sessions' = Goes(s, "ended")
  /\ UNCHANGED <<journalFiles, atPath, atSpare, journaled, deliveredThere, takenOver, skippedOver>>

OwnershipNext ==
  \/ \E recovers \in BOOLEAN : BeginSession(recovers)
  \/ \E s \in DOMAIN sessions :
       \/ OpenSpare(s) \/ WriteSpare(s) \/ PutInPlace(s) \/ OpenJournal(s) \/ LockJournal(s)
       \/ JournalEvent(s) \/ Acknowledge(s) \/ EndSession(s)

-----------------------------------------------------------------------------
JournalRecords == [seq : Nat, of : 0..journaled]
OwnershipTypes ==
  /\ journalFiles \in Seq(Seq(JournalRecords))
  /\ {atPath, atSpare} \subseteq 0..Len(journalFiles)
  /\ sessions \in Seq([at : {"recovered", "rewriting", "rewritten", "placed", "opened", "running", "ended"},
                       recovers : BOOLEAN, beside : BOOLEAN, found : Seq(JournalRecords), start : Nat \ {0},
                       file : 0..Len(journalFiles), next : Nat \ {0}, pending : Seq(JournalRecords)])
  /\ journaled \in Nat /\ deliveredThere \subseteq 1..journaled
  /\ takenOver \in BOOLEAN /\ skippedOver \subseteq 0..journaled

(* Two adapters never write to one file, whoever was opened beside whom;   *)
(* and unless one that began beside another took over the path, as         *)
(* compaction does, or the lock when the other ended, there is at most one *)
(* and every event that was journaled was delivered or can be recovered    *)
(* from the path, at whatever point an adapter or its compaction is killed *)
(* (sdk/journal.py:61, JournalLockedError).                                *)
JournalHasOneOwner ==
  /\ \A s, t \in DOMAIN sessions : Running(s) /\ Running(t) /\ s # t => sessions[s].file # sessions[t].file
  /\ ~takenOver =>
       /\ \A s, t \in DOMAIN sessions : Running(s) /\ Running(t) => s = t
       /\ LET kept == Unacknowledged(RecordsAt(atPath)) IN
          \A e \in 1..journaled : e \in deliveredThere \cup skippedOver \cup {kept[i].of : i \in DOMAIN kept}

=============================================================================
