------------------------------ MODULE EventBus ------------------------------
(***************************************************************************)
(* The event journal of ONE run and its live fan-out: RunEventBus of       *)
(* src/backend/app/services/events.py, with the SSE route that consumes    *)
(* stream() and a client that reconnects with Last-Event-ID.  Runs share   *)
(* nothing but the bus lock, so one run is the whole story.                *)
(*                                                                         *)
(* emit() does two things: under the lock it numbers the event, appends it *)
(* to events.ndjson and copies the set of subscribed queues; after the     *)
(* lock is released it offers the envelope to those queues one at a time.  *)
(* A worker thread of the REST pool (a cancel request logging "Cancellation*)
(* requested") may run between any two of these, so Emit and Put are       *)
(* separate actions.                                                       *)
(*                                                                         *)
(* stream() is a generator on the event loop.  Its awaits and its yields   *)
(* are the only points where other loop code runs: an emit() called by     *)
(* loop code is one uninterrupted piece of the loop (LoopBusy), whereas a  *)
(* pool thread interleaves with everything.                                *)
(***************************************************************************)
EXTENDS Naturals, Sequences, FiniteSets

CONSTANTS
  Loop,          \* the event-loop thread: the pipeline and the streams run on it
  Pool,          \* worker threads of the REST pool that may call emit()
  Clients,       \* clients holding an EventSource on this run
  QueueMax,      \* maxsize of a subscriber queue (2000 in the code)
  MaxEvents,     \* bound: journal length, before the final event
  MaxCrashes,    \* bound: crashes of the service
  MaxDrops       \* bound: broken client connections

ASSUME BusAssumption ==
  /\ Loop \notin Pool
  /\ QueueMax \in Nat \ {0}
  /\ MaxEvents \in Nat
  /\ MaxCrashes \in Nat
  /\ MaxDrops \in Nat

VARIABLES
  journal,       \* events.ndjson: the sequence of envelopes written
  counter,       \* _seq: {} when this process has no entry for the run, else {n}
  outbox,        \* outbox[p]: envelope p has journalled, and the queues still to be offered it
  queue,         \* queue[c]: the asyncio.Queue of c's subscription
  pc,            \* where c's stream() generator is suspended
  backlog,       \* backlog[c]: journal lines read by read_since and not yet yielded
  cursor,        \* cursor[c]: stream()'s local cursor
  lastId,        \* lastId[c]: the Last-Event-ID of the client
  received,      \* history: received[c], the sequence numbers c's application saw
  finished,      \* the database row of the run is terminal
  deleted,       \* there is no row: the run has been deleted
  crashes,
  drops

busvars == <<journal, counter, outbox>>
streamvars == <<queue, pc, backlog, cursor>>
clientvars == <<lastId, received, drops>>
vars == <<busvars, streamvars, clientvars, finished, deleted, crashes>>

Producers == {Loop} \cup Pool

Envelope == [seq : Nat, event : {"log", "done"}]

(* Generator positions.  "reading": it has read an empty tail of the        *)
(* journal and has not suspended before it subscribes; "replay": suspended  *)
(* at a yield of the initial replay; "live": waiting on its queue;          *)
(* "catchup": suspended at a yield of the idle catch-up.                    *)
Positions == {"closed", "reading", "replay", "live", "catchup"}

Subscribed == {c \in Clients : pc[c] \in {"live", "catchup"}}

DoneJournalled == \E i \in DOMAIN journal : journal[i].event = "done"

(* Between the append of the final event and save_run() the loop never      *)
(* awaits (the finally block of RunService._execute), nor does it inside    *)
(* one emit(), nor between read_since and subscribe when nothing is         *)
(* replayed.                                                                *)
LoopBusy ==
  \/ outbox[Loop].to # {}
  \/ DoneJournalled /\ ~finished
  \/ \E c \in Clients : pc[c] = "reading"

-----------------------------------------------------------------------------
(* Reading the journal.                                                     *)

\* The lines read_since(run, after) returns, as indices into the journal.
ReadSince(after) == {i \in DOMAIN journal : journal[i].seq > after}

LastSeq == IF journal = <<>> THEN 0 ELSE journal[Len(journal)].seq

\* Mutant: after a restart the numbering starts again from 1.
NextSeqMutant == (IF counter = {} THEN 0 ELSE CHOOSE n \in counter : TRUE) + 1

\* The number emit() gives: the counter is reloaded from the journal when
\* this process has not emitted for the run yet.
NextSeq == (IF counter = {} THEN LastSeq ELSE CHOOSE n \in counter : TRUE) + 1

-----------------------------------------------------------------------------
(* Producers.                                                               *)

Init ==
  /\ journal = <<>>
  /\ counter = {}
  /\ outbox = [p \in Producers |-> [env |-> [seq |-> 0, event |-> "log"], to |-> {}]]
  /\ queue = [c \in Clients |-> <<>>]
  /\ pc = [c \in Clients |-> "closed"]
  /\ backlog = [c \in Clients |-> {}]
  /\ cursor = [c \in Clients |-> 0]
  /\ lastId = [c \in Clients |-> 0]
  /\ received = [c \in Clients |-> {}]
  /\ finished = FALSE
  /\ deleted = FALSE
  /\ crashes = 0
  /\ drops = 0

MayEmit(p, event) ==
  /\ outbox[p].to = {}
  /\ event = "log" => Len(journal) < MaxEvents
  /\ p = Loop => ~LoopBusy /\ ~finished
  /\ event = "done" => p = Loop

\* emit(): the part under the lock.
Emit(p, event) ==
  /\ MayEmit(p, event)
  /\ LET env == [seq |-> NextSeq, event |-> event] IN
       /\ journal' = Append(journal, env)
       /\ outbox' = [outbox EXCEPT ![p] = [env |-> env, to |-> Subscribed]]
  /\ counter' = {NextSeq}
  /\ UNCHANGED <<streamvars, clientvars, finished, deleted, crashes>>

\* Mutant: subscriber queues have no maxsize.
PutMutant(p, c) ==
  /\ c \in outbox[p].to
  /\ outbox' = [outbox EXCEPT ![p].to = @ \ {c}]
  /\ queue' = [queue EXCEPT ![c] = Append(@, outbox[p].env)]
  /\ UNCHANGED <<journal, counter, pc, backlog, cursor, clientvars, finished, deleted, crashes>>

\* emit(): put_nowait on one copied queue, QueueFull suppressed.
Put(p, c) ==
  /\ c \in outbox[p].to
  /\ outbox' = [outbox EXCEPT ![p].to = @ \ {c}]
  /\ queue' = IF Len(queue[c]) < QueueMax
                THEN [queue EXCEPT ![c] = Append(@, outbox[p].env)]
                ELSE queue
  /\ UNCHANGED <<journal, counter, pc, backlog, cursor, clientvars, finished, deleted, crashes>>

\* RunService._execute saves the terminal row right after its done event, and with
\* it brings the row of a run back that has been deleted meanwhile.
Finish ==
  /\ DoneJournalled
  /\ outbox[Loop].to = {}
  /\ ~finished
  /\ finished' = TRUE
  /\ deleted' = FALSE
  /\ UNCHANGED <<busvars, streamvars, clientvars, crashes>>

\* A user deletes the run and keeps its files.
Delete ==
  /\ ~deleted
  /\ deleted' = TRUE
  /\ UNCHANGED <<busvars, streamvars, clientvars, finished, crashes>>

\* is_finished(): a run that is not in the database is not finished either.
IsFinished == finished /\ ~deleted

\* The process dies and is started again: counters, queues and generators are
\* gone, the journal stays, and reset_stale_runs() makes the row terminal.
Crash ==
  /\ crashes < MaxCrashes
  /\ crashes' = crashes + 1
  /\ finished' = TRUE
  /\ counter' = {}
  /\ outbox' = [p \in Producers |-> [outbox[p] EXCEPT !.to = {}]]
  /\ queue' = [c \in Clients |-> <<>>]
  /\ pc' = [c \in Clients |-> "closed"]
  /\ backlog' = [c \in Clients |-> {}]
  /\ UNCHANGED <<journal, cursor, clientvars, deleted>>

-----------------------------------------------------------------------------
(* The stream() generator of one client, driven by the SSE route.           *)

\* The generator of c ends: unsubscribe, and nobody holds its queue any more.
Close(c) ==
  /\ pc' = [pc EXCEPT ![c] = "closed"]
  /\ queue' = [queue EXCEPT ![c] = <<>>]
  /\ backlog' = [backlog EXCEPT ![c] = {}]
  /\ outbox' = [p \in Producers |-> [outbox[p] EXCEPT !.to = @ \ {c}]]

\* A frame reaches the client, and the route leaves the loop after a final one;
\* or the connection breaks under it and the frame is lost.  `next` is where
\* the generator is suspended afterwards, `q` and `b` what it then still holds.
Yield(c, env, next, q, b) ==
  \/ /\ lastId' = [lastId EXCEPT ![c] = env.seq]
     /\ received' = [received EXCEPT ![c] = @ \cup {env.seq}]
     /\ IF env.event = "done"
          THEN Close(c)
          ELSE /\ pc' = [pc EXCEPT ![c] = next]
               /\ queue' = [queue EXCEPT ![c] = q]
               /\ backlog' = [backlog EXCEPT ![c] = b]
               /\ UNCHANGED outbox
     /\ UNCHANGED drops
  \/ /\ drops < MaxDrops
     /\ drops' = drops + 1
     /\ Close(c)
     /\ UNCHANGED <<lastId, received>>

\* Mutant: a reconnecting client's Last-Event-ID is ignored.
OpenMutant(c) ==
  /\ ~LoopBusy
  /\ ~deleted
  /\ pc[c] = "closed"
  /\ cursor' = [cursor EXCEPT ![c] = 0]
  /\ backlog' = [backlog EXCEPT ![c] = ReadSince(0)]
  /\ pc' = [pc EXCEPT ![c] = IF ReadSince(0) = {} THEN "reading" ELSE "replay"]
  /\ UNCHANGED <<busvars, queue, clientvars, finished, deleted, crashes>>

\* The client connects with its Last-Event-ID; stream() reads the journal.
Open(c) ==
  /\ ~LoopBusy
  /\ ~deleted
  /\ pc[c] = "closed"
  /\ cursor' = [cursor EXCEPT ![c] = lastId[c]]
  /\ backlog' = [backlog EXCEPT ![c] = ReadSince(lastId[c])]
  /\ pc' = [pc EXCEPT ![c] = IF ReadSince(lastId[c]) = {} THEN "reading" ELSE "replay"]
  /\ UNCHANGED <<busvars, queue, clientvars, finished, deleted, crashes>>

\* Yield the next line of what read_since returned, in file order.
Drain(c) ==
  /\ ~LoopBusy
  /\ pc[c] \in {"replay", "catchup"}
  /\ \E i \in backlog[c] :
       /\ \A j \in backlog[c] : i <= j
       /\ cursor' = [cursor EXCEPT ![c] = journal[i].seq]
       /\ Yield(c, journal[i], pc[c], queue[c], backlog[c] \ {i})
  /\ UNCHANGED <<journal, counter, finished, deleted, crashes>>

\* The replay is over: subscribe to live delivery.
Subscribe(c) ==
  /\ pc[c] = "reading" \/ (pc[c] = "replay" /\ ~LoopBusy)
  /\ backlog[c] = {}
  /\ pc' = [pc EXCEPT ![c] = "live"]
  /\ UNCHANGED <<busvars, queue, backlog, cursor, clientvars, finished, deleted, crashes>>

\* A live frame at or below the cursor has been delivered already.
SkipStale(c) ==
  /\ ~LoopBusy
  /\ pc[c] = "live"
  /\ queue[c] # <<>>
  /\ Head(queue[c]).seq <= cursor[c]
  /\ queue' = [queue EXCEPT ![c] = Tail(@)]
  /\ UNCHANGED <<busvars, pc, backlog, cursor, clientvars, finished, deleted, crashes>>

\* Mutant: the stale-frame test is missing and every live frame is yielded.
DeliverMutant(c) ==
  /\ ~LoopBusy
  /\ pc[c] = "live"
  /\ queue[c] # <<>>
  /\ cursor' = [cursor EXCEPT ![c] = Head(queue[c]).seq]
  /\ Yield(c, Head(queue[c]), "live", Tail(queue[c]), {})
  /\ UNCHANGED <<journal, counter, finished, deleted, crashes>>

Deliver(c) ==
  /\ ~LoopBusy
  /\ pc[c] = "live"
  /\ queue[c] # <<>>
  /\ Head(queue[c]).seq > cursor[c]
  /\ cursor' = [cursor EXCEPT ![c] = Head(queue[c]).seq]
  /\ Yield(c, Head(queue[c]), "live", Tail(queue[c]), {})
  /\ UNCHANGED <<journal, counter, finished, deleted, crashes>>

\* Mutant: an idle stream asks is_finished() without the catch-up read.
IdleBlindMutant(c) ==
  /\ ~LoopBusy
  /\ pc[c] = "live"
  /\ IsFinished
  /\ Close(c)
  /\ UNCHANGED <<journal, counter, cursor, clientvars, finished, deleted, crashes>>

\* Mutant: an idle stream never asks is_finished().
IdleEndlessMutant(c) ==
  /\ ~LoopBusy
  /\ pc[c] = "live"
  /\ ReadSince(cursor[c]) # {}
  /\ backlog' = [backlog EXCEPT ![c] = ReadSince(cursor[c])]
  /\ pc' = [pc EXCEPT ![c] = "catchup"]
  /\ UNCHANGED <<queue, busvars, cursor, clientvars, finished, deleted, crashes>>

\* Nothing came for poll_interval: read the journal beyond the cursor, and end
\* the stream if there is nothing more and the run is finished.  The timer may
\* fire although a frame has just been queued.
Idle(c) ==
  /\ ~LoopBusy
  /\ pc[c] = "live"
  /\ IF ReadSince(cursor[c]) # {}
       THEN /\ backlog' = [backlog EXCEPT ![c] = ReadSince(cursor[c])]
            /\ pc' = [pc EXCEPT ![c] = "catchup"]
            /\ UNCHANGED <<queue, outbox>>
       ELSE IsFinished /\ Close(c)
  /\ UNCHANGED <<journal, counter, cursor, clientvars, finished, deleted, crashes>>

\* The catch-up has yielded all it read: is_finished() decides.
CatchUpEnd(c) ==
  /\ ~LoopBusy
  /\ pc[c] = "catchup"
  /\ backlog[c] = {}
  /\ IF IsFinished
       THEN Close(c)
       ELSE /\ pc' = [pc EXCEPT ![c] = "live"]
            /\ UNCHANGED <<queue, backlog, outbox>>
  /\ UNCHANGED <<journal, counter, cursor, clientvars, finished, deleted, crashes>>

\* The client goes away between two frames.
Disconnect(c) ==
  /\ ~LoopBusy
  /\ pc[c] # "closed"
  /\ drops < MaxDrops
  /\ drops' = drops + 1
  /\ Close(c)
  /\ UNCHANGED <<journal, counter, cursor, lastId, received, finished, deleted, crashes>>

StreamStep(c) ==
  \/ Open(c)
  \/ Drain(c)
  \/ Subscribe(c)
  \/ SkipStale(c)
  \/ Deliver(c)
  \/ Idle(c)
  \/ CatchUpEnd(c)

Next ==
  \/ \E p \in Producers, event \in {"log", "done"} : Emit(p, event)
  \/ \E p \in Producers, c \in Clients : Put(p, c)
  \/ Finish
  \/ Delete
  \/ Crash
  \/ \E c \in Clients : StreamStep(c) \/ Disconnect(c)

Spec == Init /\ [][Next]_vars

(* The service is fair: it finishes the fan-out it has started and saves    *)
(* the row; the poll timer fires.  A generator that could run stays in the  *)
(* ready queue of the loop, which asyncio serves first in, first out, so it *)
(* cannot be passed over forever although other loop code runs in between:  *)
(* strong fairness.  A client reconnects, as EventSource does.  Nothing     *)
(* makes anyone emit, and nothing makes a connection break.                 *)
Fairness ==
  /\ \A p \in Producers, c \in Clients : WF_vars(Put(p, c))
  /\ WF_vars(Finish)
  /\ \A c \in Clients :
       /\ SF_vars(Subscribe(c))
       /\ SF_vars(Open(c))
       /\ SF_vars(Drain(c))
       /\ SF_vars(SkipStale(c) \/ Deliver(c))
       /\ SF_vars(Idle(c))
       /\ SF_vars(CatchUpEnd(c))

FairSpec == Spec /\ Fairness

-----------------------------------------------------------------------------
(* Properties.                                                              *)

\* Every variable has its type; a slow client costs at most QueueMax frames.
TypeOK ==
  /\ journal \in Seq(Envelope)
  /\ counter \in SUBSET Nat
  /\ outbox \in [Producers -> [env : Envelope, to : SUBSET Clients]]
  /\ queue \in [Clients -> Seq(Envelope)]
  /\ \A c \in Clients : Len(queue[c]) <= QueueMax
  /\ pc \in [Clients -> Positions]
  /\ backlog \in [Clients -> SUBSET DOMAIN journal]
  /\ cursor \in [Clients -> Nat]
  /\ lastId \in [Clients -> Nat]
  /\ received \in [Clients -> SUBSET Nat]
  /\ finished \in BOOLEAN
  /\ deleted \in BOOLEAN
  /\ crashes \in Nat
  /\ drops \in Nat

\* The journal numbers its events 1, 2, 3, ... without gap or repetition,
\* whichever threads emit and however often the process restarts: the comment in
\* emit() gives this as the reason for reloading the counter from the journal.
SeqContiguous == \A i \in DOMAIN journal : journal[i].seq = i

\* A client never holds an event that a crash could take back: whatever reached
\* a client by the fast path (queues) is in the journal.
DeliveredIsJournalled ==
  \A c \in Clients : \A n \in received[c] : \E i \in DOMAIN journal : journal[i].seq = n

\* A client is never handed an event twice nor out of order, across the seam of
\* replay and live delivery, catch-up, reconnects and restarts; and only a live
\* frame can leave an event out: replay and catch-up hand over the next one.
OrderedDelivery ==
  [][\A c \in Clients : received'[c] # received[c] =>
       /\ lastId'[c] > lastId[c]
       /\ \A n \in received[c] : n < lastId'[c]
       /\ lastId'[c] = lastId[c] + 1 \/ pc[c] = "live"]_vars

\* Once nobody emits any more, every client ends up holding the last event of
\* the journal, whatever was dropped, overtaken or lost on the way to it.  When
\* nothing is emitted after the done event, that event is the done event: also
\* the client that was replaying, or offline, when the run ended learns of it, and
\* so does one whose stream was open when the run was deleted.  Only a client
\* without a connection to a run that has been deleted may miss the end.
EventuallyCaughtUp ==
  <>[](\A c \in Clients : lastId[c] = Len(journal) \/ (deleted /\ pc[c] = "closed"))

\* A stream of a finished run never stays open, unless the run is deleted first:
\* then is_finished() does not end it any more.
StreamEnds == \A c \in Clients : finished ~> (pc[c] = "closed" \/ deleted)

\* A client whose Last-Event-ID is n has received the events 1 .. n: a
\* connection that resumes does not lose the sequence (routes.py, run_events).
NoGap == \A c \in Clients : 1 .. lastId[c] \subseteq received[c]

(* The promise this bus keeps.                                              *)
Log == INSTANCE EventLog WITH size <- Len(journal), position <- lastId
LogSpec == Log!Spec
=============================================================================
