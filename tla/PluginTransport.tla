--------------------------- MODULE PluginTransport ---------------------------
(***************************************************************************)
(* The runtime's side of a strategy plugin (plugins/protocol.py) under the *)
(* campaign's budget meter (campaign/budgets.py).                          *)
(*                                                                         *)
(* StdioJsonRpcTransport keeps one child process.  A request writes a line *)
(* to its stdin, waits with select() on the pipe until the deadline, and   *)
(* then calls readline(), which first looks into the reader's own buffer.  *)
(* A plugin answers, answers twice, stops in the middle of a line, dies or *)
(* says nothing.  What the runtime does after an error is its caller's     *)
(* business: here it may go on asking.                                     *)
(*                                                                         *)
(* A line is [id, kind, count]: the id it answers, and how many proposals  *)
(* it carries.  The pipe's capacity is not modelled: a write never blocks. *)
(***************************************************************************)
EXTENDS Naturals, Sequences

CONSTANTS
  Timeout,       (* ticks a request may wait for its answer *)
  MaxRequests,   (* bound: requests sent *)
  MaxStray,      (* bound: lines nobody asked for, and unfinished ones *)
  MaxProposals   (* CampaignBudget.max_proposals *)

ASSUME TransportAssumption ==
  Timeout \in Nat /\ MaxRequests \in Nat /\ MaxStray \in Nat /\ MaxProposals \in Nat

VARIABLES
  call,      (* "idle"; "select": waits for output; "readline": reads a line *)
  nextId,    (* StdioJsonRpcTransport._next_id *)
  process,   (* the child: "none", "alive" or "dead" (not noticed yet) *)
  asked,     (* the request the child is working on, 0: none *)
  answers,   (* the requests this child has answered *)
  pipe,      (* lines the child wrote and nobody read *)
  buffer,    (* lines readline() has taken off the pipe *)
  waited,    (* ticks since the request was written *)
  strays,    (* lines nobody asked for so far *)
  charged,   (* CampaignBudgetMeter._proposals *)
  delivered  (* the results handed to the caller: [to, id, count] *)

transportVars == <<call, nextId, process, asked, answers, pipe, buffer, waited, strays, charged, delivered>>

TransportInit ==
  /\ call = "idle" /\ nextId = 0 /\ process = "none" /\ asked = 0 /\ answers = {}
  /\ pipe = <<>> /\ buffer = <<>> /\ waited = 0 /\ strays = 0 /\ charged = 0 /\ delivered = <<>>

Line(id, kind, count) == [id |-> id, kind |-> kind, count |-> count]

-----------------------------------------------------------------------------
(* CampaignBudgetMeter: the headroom a plugin is shown, and the charge *)
Headroom == IF charged < MaxProposals THEN MaxProposals - charged ELSE 0
MayCharge(n) == charged + n <= MaxProposals

(* close: the child is killed and its pipes are gone *)
Close ==
  /\ process' = "none" /\ asked' = 0 /\ answers' = {} /\ pipe' = <<>> /\ buffer' = <<>>

(* request: _ensure_started, then the line is written; a child that dies   *)
(* in between leaves a broken pipe, noticed by the next poll               *)
Request ==
  /\ call = "idle" /\ nextId < MaxRequests /\ Headroom > 0
  /\ nextId' = nextId + 1
  /\ \/ /\ process = "alive" /\ UNCHANGED <<answers, pipe, buffer>>
        /\ \/ process' = "alive" /\ asked' = nextId + 1 /\ call' = "select" /\ waited' = 0
           \/ process' = "dead" /\ asked' = 0 /\ UNCHANGED <<call, waited>>
     \/ /\ process # "alive"
        /\ process' = "alive" /\ asked' = nextId + 1 /\ call' = "select" /\ waited' = 0
        /\ answers' = {} /\ pipe' = <<>> /\ buffer' = <<>>
  /\ UNCHANGED <<strays, charged, delivered>>

-----------------------------------------------------------------------------
(* serve(): one response line per request line, a result or an error *)
PluginAnswers ==
  /\ process = "alive" /\ asked # 0
  /\ \E kind \in {"result", "error"}, count \in 0..2 :
       /\ kind = "error" => count = 0
       /\ pipe' = Append(pipe, Line(asked, kind, count))
  /\ answers' = answers \cup {asked} /\ asked' = 0
  /\ UNCHANGED <<call, nextId, process, buffer, waited, strays, charged, delivered>>

(* a plugin that prints to stdout, or answers a request once more *)
PluginStrays ==
  /\ process = "alive" /\ strays < MaxStray /\ strays' = strays + 1
  /\ \E id \in answers \cup {0} : pipe' = Append(pipe, Line(id, "result", 1))
  /\ UNCHANGED <<call, nextId, process, asked, answers, buffer, waited, charged, delivered>>

(* part of a line; the rest may follow, or never *)
PluginStutters ==
  /\ process = "alive" /\ asked # 0 /\ strays < MaxStray /\ strays' = strays + 1
  /\ pipe' = Append(pipe, Line(asked, "partial", 0))
  /\ UNCHANGED <<call, nextId, process, asked, answers, buffer, waited, charged, delivered>>

PluginDies ==
  /\ process = "alive" /\ process' = "dead" /\ asked' = 0
  /\ UNCHANGED <<call, nextId, answers, pipe, buffer, waited, strays, charged, delivered>>

-----------------------------------------------------------------------------
(* select() looks at the pipe, not at the buffer *)
Readable == pipe # <<>> \/ process = "dead"

TransportTick ==
  /\ call # "idle" /\ waited <= Timeout
  /\ call = "select" => waited < Timeout
  /\ waited' = waited + 1
  /\ UNCHANGED <<call, nextId, process, asked, answers, pipe, buffer, strays, charged, delivered>>

SelectReady ==
  /\ call = "select" /\ Readable /\ call' = "readline"
  /\ UNCHANGED <<nextId, process, asked, answers, pipe, buffer, waited, strays, charged, delivered>>

(* PluginRequestTimeoutError *)
SelectTimesOut ==
  /\ call = "select" /\ ~Readable /\ waited = Timeout
  /\ call' = "idle" /\ Close
  /\ UNCHANGED <<nextId, waited, strays, charged, delivered>>

(* what readline() sees: an unfinished line is completed by what follows   *)
(* it, or by the end of the file                                           *)
Unread == buffer \o pipe
Finished(s) == s # <<>> /\ (s[1].kind # "partial" \/ Len(s) > 1 \/ process = "dead")
Rest(s) == IF s[1].kind = "partial" /\ Len(s) > 1 THEN Tail(Tail(s)) ELSE Tail(s)
First(s) == IF s[1].kind = "partial" /\ Len(s) > 1 /\ s[2].id = s[1].id THEN s[2]
            ELSE IF s[1].kind = "partial" THEN Line(0, "junk", 0) ELSE s[1]

(* _parse_response *)
AnyLine(line) == line.kind # "junk"
Answers(line) == line.kind # "junk" /\ line.id = nextId

(* the line answers the request: propose() checks the number of proposals  *)
(* against the headroom, and the caller charges the batch before using it  *)
ReadLine ==
  /\ call = "readline" /\ Finished(Unread)
  /\ LET line == First(Unread) IN
       IF Answers(line) /\ line.kind = "result" /\ line.count <= Headroom /\ MayCharge(line.count)
       THEN /\ delivered' = Append(delivered, [to |-> nextId, id |-> line.id, count |-> line.count])
            /\ charged' = charged + line.count
       ELSE UNCHANGED <<delivered, charged>>
  /\ buffer' = Rest(Unread) /\ pipe' = <<>> /\ call' = "idle"
  /\ UNCHANGED <<nextId, process, asked, answers, waited, strays>>

(* the child closed its stdout: PluginProcessDiedError *)
ReadEof ==
  /\ call = "readline" /\ Unread = <<>> /\ process = "dead"
  /\ call' = "idle" /\ Close
  /\ UNCHANGED <<nextId, waited, strays, charged, delivered>>

TransportNext ==
  \/ Request \/ PluginAnswers \/ PluginStrays \/ PluginStutters \/ PluginDies
  \/ TransportTick \/ SelectReady \/ SelectTimesOut \/ ReadLine \/ ReadEof

-----------------------------------------------------------------------------
TransportTypes ==
  /\ call \in {"idle", "select", "readline"} /\ process \in {"none", "alive", "dead"}
  /\ nextId \in Nat /\ asked \in 0..nextId /\ answers \subseteq 1..nextId /\ waited \in 0..(Timeout + 1)
  /\ \A i \in DOMAIN Unread : Unread[i].id \in 0..nextId

(* The proposals a caller was handed, counted from the first result on. *)
ProposalsIn(results) ==
  LET total[n \in 0..Len(results)] == IF n = 0 THEN 0 ELSE total[n - 1] + results[n].count
  IN  total[Len(results)]

(* The transport outlives its children and their unread lines: whatever    *)
(* was printed, repeated, cut short or left in a buffer, a caller is only  *)
(* handed the answer to its own question, no question is answered twice,   *)
(* and the proposals handed out add up to what the meter recorded, within  *)
(* the campaign's budget.                                                  *)
DeliveredInBudget ==
  /\ \A i \in DOMAIN delivered : delivered[i].id = delivered[i].to
  /\ \A i, j \in DOMAIN delivered : delivered[i].to = delivered[j].to => i = j
  /\ ProposalsIn(delivered) = charged /\ charged <= MaxProposals

=============================================================================
