--------------------------- MODULE EventBusProofs ---------------------------
(***************************************************************************)
(* Theorems about EventBus for any number of threads, clients and events,  *)
(* and any queue size.                                                     *)
(***************************************************************************)
EXTENDS EventBus, TLAPS

(* The inductive invariant.  Its centre is SeqContiguous; around it: the    *)
(* counter of a process agrees with the journal it appends to, whatever is  *)
(* in flight (outboxes, queues, backlogs) has been journalled, and for each *)
(* client  received <= lastId <= cursor < backlog.                          *)

\* Nothing but journalled envelopes is in flight to a client.
Journalled(env) == env.seq \in 1 .. Len(journal)

CounterAgrees == counter \in {{}, {Len(journal)}}

InFlight ==
  /\ \A p \in Producers : outbox[p].to # {} => Journalled(outbox[p].env)
  /\ \A c \in Clients : \A k \in 1 .. Len(queue[c]) : Journalled(queue[c][k])

CursorOrder ==
  \A c \in Clients :
    /\ lastId[c] <= Len(journal)
    /\ received[c] \subseteq 1 .. lastId[c]
    /\ pc[c] # "closed" => lastId[c] <= cursor[c]
    /\ \A i \in backlog[c] : i \in 1 .. Len(journal) /\ cursor[c] < i

BusInv == SeqContiguous /\ CounterAgrees /\ InFlight /\ CursorOrder

-----------------------------------------------------------------------------
\* The next number is one more than the length of the journal, also right
\* after a restart, when it has to be read back from the last line.
LEMMA NextSeqIsLength ==
  ASSUME TypeOK, SeqContiguous, CounterAgrees
  PROVE  NextSeq = Len(journal) + 1
<1>1. LastSeq = Len(journal)
  <2>1. CASE journal = <<>>
    BY <2>1 DEF LastSeq
  <2>2. CASE journal # <<>>
    <3>1. Len(journal) \in DOMAIN journal
      BY <2>2 DEF TypeOK
    <3>2. QED
      BY <2>2, <3>1 DEF LastSeq, SeqContiguous
  <2>3. QED
    BY <2>1, <2>2
<1>2. CASE counter = {}
  BY <1>1, <1>2 DEF NextSeq
<1>3. CASE counter = {Len(journal)}
  BY <1>3 DEF NextSeq
<1>4. QED
  BY <1>2, <1>3 DEF CounterAgrees

\* The lines read_since returns are exactly those numbered beyond the cursor.
LEMMA ReadSinceBeyond ==
  ASSUME TypeOK, SeqContiguous, NEW after \in Nat
  PROVE  ReadSince(after) = after + 1 .. Len(journal)
<1>1. \A i \in DOMAIN journal : journal[i].seq = i
  BY DEF SeqContiguous
<1>2. DOMAIN journal = 1 .. Len(journal)
  BY DEF TypeOK
<1>3. QED
  BY <1>1, <1>2 DEF ReadSince

-----------------------------------------------------------------------------
\* The sequence number the bus hands out next is a positive number.
LEMMA NextSeqType ==
  ASSUME TypeOK
  PROVE  NextSeq \in Nat
<1>1. LastSeq \in Nat
  <2>1. CASE journal = <<>>
    BY <2>1 DEF LastSeq
  <2>2. CASE journal # <<>>
    <3>1. journal[Len(journal)] \in Envelope
      BY <2>2 DEF TypeOK
    <3>2. QED
      BY <2>2, <3>1 DEF LastSeq, Envelope
  <2>3. QED
    BY <2>1, <2>2
<1>2. CASE counter = {}
  BY <1>1, <1>2 DEF NextSeq
<1>3. CASE counter # {}
  <2>1. (CHOOSE n \in counter : TRUE) \in counter
    BY <1>3
  <2>2. (CHOOSE n \in counter : TRUE) \in Nat
    BY <2>1 DEF TypeOK
  <2>3. QED
    BY <1>3, <2>2 DEF NextSeq
<1>4. QED
  BY <1>2, <1>3

\* The types of what the generator of a client holds after Close and Yield.
LEMMA CloseType ==
  ASSUME TypeOK, NEW c \in Clients, Close(c)
  PROVE  /\ pc' \in [Clients -> Positions]
         /\ queue' \in [Clients -> Seq(Envelope)]
         /\ \A d \in Clients : Len(queue'[d]) <= QueueMax
         /\ backlog' \in [Clients -> SUBSET DOMAIN journal]
         /\ outbox' \in [Producers -> [env : Envelope, to : SUBSET Clients]]
<1>1. pc' \in [Clients -> Positions]
  BY DEF Close, TypeOK, Positions
<1>2. queue' \in [Clients -> Seq(Envelope)] /\ \A d \in Clients : Len(queue'[d]) <= QueueMax
  <2>1. <<>> \in Seq(Envelope) /\ Len(<<>>) <= QueueMax
    BY BusAssumption
  <2>2. QED
    BY <2>1 DEF Close, TypeOK
<1>3. backlog' \in [Clients -> SUBSET DOMAIN journal]
  BY DEF Close, TypeOK
<1>4. outbox' \in [Producers -> [env : Envelope, to : SUBSET Clients]]
  <2>1. outbox' = [p \in Producers |-> [outbox[p] EXCEPT !.to = @ \ {c}]]
    BY DEF Close
  <2>2. \A p \in Producers : outbox[p] \in [env : Envelope, to : SUBSET Clients]
    BY DEF TypeOK
  <2>3. QED
    BY <2>1, <2>2
<1>5. QED
  BY <1>1, <1>2, <1>3, <1>4

\* Giving up the loop keeps the position of the streams typed.
LEMMA YieldType ==
  ASSUME TypeOK, NEW c \in Clients, NEW env \in Envelope, NEW next \in Positions,
         NEW q \in Seq(Envelope), Len(q) <= QueueMax, NEW b \in SUBSET DOMAIN journal,
         Yield(c, env, next, q, b)
  PROVE  /\ pc' \in [Clients -> Positions]
         /\ queue' \in [Clients -> Seq(Envelope)]
         /\ \A d \in Clients : Len(queue'[d]) <= QueueMax
         /\ backlog' \in [Clients -> SUBSET DOMAIN journal]
         /\ outbox' \in [Producers -> [env : Envelope, to : SUBSET Clients]]
         /\ lastId' \in [Clients -> Nat]
         /\ received' \in [Clients -> SUBSET Nat]
         /\ drops' \in Nat
<1>1. lastId' \in [Clients -> Nat] /\ received' \in [Clients -> SUBSET Nat] /\ drops' \in Nat
  <2>1. env.seq \in Nat
    BY DEF Envelope
  <2>2. lastId' \in [Clients -> Nat]
    BY <2>1 DEF Yield, TypeOK
  <2>3. received' \in [Clients -> SUBSET Nat]
    <3>1. received \in [Clients -> SUBSET Nat] /\ received[c] \cup {env.seq} \in SUBSET Nat
      BY <2>1 DEF TypeOK
    <3>2. \/ received' = [received EXCEPT ![c] = received[c] \cup {env.seq}]
          \/ received' = received
      BY DEF Yield
    <3>3. QED
      BY <3>1, <3>2
  <2>4. drops' \in Nat
    BY DEF Yield, TypeOK
  <2>5. QED
    BY <2>2, <2>3, <2>4
<1>2. CASE Close(c)
  BY <1>1, <1>2, CloseType
<1>3. CASE /\ pc' = [pc EXCEPT ![c] = next]
           /\ queue' = [queue EXCEPT ![c] = q]
           /\ backlog' = [backlog EXCEPT ![c] = b]
           /\ UNCHANGED outbox
  BY <1>1, <1>3 DEF TypeOK
<1>4. QED
  BY <1>2, <1>3 DEF Yield

-----------------------------------------------------------------------------
\* Every variable keeps its type and no subscriber queue outgrows its maxsize.
THEOREM TypeCorrect == Spec => []TypeOK
<1>1. Init => TypeOK
  <2>1. <<>> \in Seq(Envelope) /\ Len(<<>>) <= QueueMax
    BY BusAssumption
  <2>2. [seq |-> 0, event |-> "log"] \in Envelope
    BY DEF Envelope
  <2>3. ASSUME Init
        PROVE  /\ journal \in Seq(Envelope)
               /\ counter \in SUBSET Nat
               /\ backlog \in [Clients -> SUBSET DOMAIN journal]
    BY <2>1, <2>3 DEF Init
  <2>4. ASSUME Init
        PROVE  outbox \in [Producers -> [env : Envelope, to : SUBSET Clients]]
    BY <2>2, <2>4 DEF Init
  <2>5. ASSUME Init
        PROVE  queue \in [Clients -> Seq(Envelope)] /\ \A c \in Clients : Len(queue[c]) <= QueueMax
    BY <2>1, <2>5 DEF Init
  <2>6. ASSUME Init
        PROVE  /\ pc \in [Clients -> Positions]
               /\ cursor \in [Clients -> Nat]
               /\ lastId \in [Clients -> Nat]
               /\ received \in [Clients -> SUBSET Nat]
               /\ finished \in BOOLEAN
               /\ deleted \in BOOLEAN
               /\ crashes \in Nat
               /\ drops \in Nat
    BY <2>6 DEF Init, Positions
  <2>7. QED
    BY <2>3, <2>4, <2>5, <2>6 DEF TypeOK
<1>2. TypeOK /\ [Next]_vars => TypeOK'
  <2> SUFFICES ASSUME TypeOK, [Next]_vars PROVE TypeOK'
    OBVIOUS
  <2>1. CASE UNCHANGED vars
    BY <2>1 DEF TypeOK, vars, busvars, streamvars, clientvars
  <2>2. ASSUME NEW p \in Producers, NEW event \in {"log", "done"}, Emit(p, event)
        PROVE  TypeOK'
    <3>1. [seq |-> NextSeq, event |-> event] \in Envelope /\ Subscribed \subseteq Clients
      BY NextSeqType DEF Envelope, Subscribed
    <3>2. journal' \in Seq(Envelope)
      BY <2>2, <3>1 DEF Emit, TypeOK
    <3>3. outbox' \in [Producers -> [env : Envelope, to : SUBSET Clients]]
      BY <2>2, <3>1 DEF Emit, TypeOK
    <3>4. counter' \in SUBSET Nat
      BY <2>2, NextSeqType DEF Emit
    <3>5. QED
      BY <2>2, <3>2, <3>3, <3>4 DEF Emit, TypeOK, streamvars, clientvars
  <2>3. ASSUME NEW p \in Producers, NEW c \in Clients, Put(p, c)
        PROVE  TypeOK'
    <3>1. outbox' \in [Producers -> [env : Envelope, to : SUBSET Clients]]
      <4>1. outbox \in [Producers -> [env : Envelope, to : SUBSET Clients]]
        BY DEF TypeOK
      <4>2. outbox' = [outbox EXCEPT ![p].to = @ \ {c}]
        BY <2>3 DEF Put
      <4>3. QED
        BY <4>1, <4>2
    <3>2. queue' \in [Clients -> Seq(Envelope)]
      BY <2>3 DEF Put, TypeOK
    <3>3. \A d \in Clients : Len(queue'[d]) <= QueueMax
      BY <2>3, BusAssumption DEF Put, TypeOK
    <3>4. QED
      BY <2>3, <3>1, <3>2, <3>3 DEF Put, TypeOK, clientvars
  <2>4. CASE Finish \/ Delete
    BY <2>4 DEF Finish, Delete, TypeOK, busvars, streamvars, clientvars
  <2>5. CASE Crash
    <3>1. <<>> \in Seq(Envelope) /\ Len(<<>>) <= QueueMax
      BY BusAssumption
    <3>2. outbox' \in [Producers -> [env : Envelope, to : SUBSET Clients]]
      <4>1. outbox' = [p \in Producers |-> [outbox[p] EXCEPT !.to = {}]]
        BY <2>5 DEF Crash
      <4>2. \A p \in Producers : outbox[p] \in [env : Envelope, to : SUBSET Clients]
        BY DEF TypeOK
      <4>3. QED
        BY <4>1, <4>2
    <3>3. queue' \in [Clients -> Seq(Envelope)] /\ \A c \in Clients : Len(queue'[c]) <= QueueMax
      BY <2>5, <3>1 DEF Crash
    <3>4. pc' \in [Clients -> Positions] /\ backlog' \in [Clients -> SUBSET DOMAIN journal']
      BY <2>5 DEF Crash, Positions
    <3>5. counter' \in SUBSET Nat /\ finished' \in BOOLEAN /\ crashes' \in Nat
      BY <2>5 DEF Crash, TypeOK
    <3>6. QED
      BY <2>5, <3>2, <3>3, <3>4, <3>5 DEF Crash, TypeOK, clientvars
  <2>6. ASSUME NEW c \in Clients, StreamStep(c) \/ Disconnect(c)
        PROVE  TypeOK'
    <3>1. CASE Open(c)
      BY <3>1 DEF Open, TypeOK, ReadSince, Positions, busvars, clientvars
    <3>2. CASE Drain(c)
      <4>1. PICK i \in backlog[c] :
              /\ cursor' = [cursor EXCEPT ![c] = journal[i].seq]
              /\ Yield(c, journal[i], pc[c], queue[c], backlog[c] \ {i})
        BY <3>2 DEF Drain
      <4>2. journal[i] \in Envelope
        BY DEF TypeOK
      <4>3. cursor' \in [Clients -> Nat]
        BY <4>1, <4>2 DEF TypeOK, Envelope
      <4>4. queue[c] \in Seq(Envelope) /\ Len(queue[c]) <= QueueMax
        BY DEF TypeOK
      <4>5. pc[c] \in Positions /\ backlog[c] \ {i} \in SUBSET DOMAIN journal
        BY DEF TypeOK
      <4>6. /\ journal' = journal /\ counter' = counter
            /\ finished' = finished /\ deleted' = deleted /\ crashes' = crashes
        BY <3>2 DEF Drain
      <4>7. /\ pc' \in [Clients -> Positions] /\ queue' \in [Clients -> Seq(Envelope)]
            /\ \A d \in Clients : Len(queue'[d]) <= QueueMax
            /\ backlog' \in [Clients -> SUBSET DOMAIN journal]
            /\ outbox' \in [Producers -> [env : Envelope, to : SUBSET Clients]]
            /\ lastId' \in [Clients -> Nat] /\ received' \in [Clients -> SUBSET Nat] /\ drops' \in Nat
        BY <4>1, <4>2, <4>4, <4>5, YieldType
      <4>8. QED
        BY <4>3, <4>6, <4>7 DEF TypeOK
    <3>3. CASE Subscribe(c)
      BY <3>3 DEF Subscribe, TypeOK, Positions, busvars, clientvars
    <3>4. CASE SkipStale(c)
      <4>1. Tail(queue[c]) \in Seq(Envelope) /\ Len(Tail(queue[c])) <= QueueMax
        BY <3>4, BusAssumption DEF SkipStale, TypeOK
      <4>2. queue' \in [Clients -> Seq(Envelope)] /\ \A d \in Clients : Len(queue'[d]) <= QueueMax
        BY <3>4, <4>1 DEF SkipStale, TypeOK
      <4>3. QED
        BY <3>4, <4>2 DEF SkipStale, TypeOK, busvars, clientvars
    <3>5. CASE Deliver(c)
      <4>1. Head(queue[c]) \in Envelope /\ Tail(queue[c]) \in Seq(Envelope)
        BY <3>5 DEF Deliver, TypeOK
      <4>2. Len(Tail(queue[c])) <= QueueMax
        BY <3>5, BusAssumption DEF Deliver, TypeOK
      <4>3. Yield(c, Head(queue[c]), "live", Tail(queue[c]), {})
        BY <3>5 DEF Deliver
      <4>4. cursor' \in [Clients -> Nat]
        BY <3>5, <4>1 DEF Deliver, TypeOK, Envelope
      <4>5. "live" \in Positions /\ {} \in SUBSET DOMAIN journal
        BY DEF Positions
      <4>6. /\ journal' = journal /\ counter' = counter
            /\ finished' = finished /\ deleted' = deleted /\ crashes' = crashes
        BY <3>5 DEF Deliver
      <4>7. /\ pc' \in [Clients -> Positions] /\ queue' \in [Clients -> Seq(Envelope)]
            /\ \A d \in Clients : Len(queue'[d]) <= QueueMax
            /\ backlog' \in [Clients -> SUBSET DOMAIN journal]
            /\ outbox' \in [Producers -> [env : Envelope, to : SUBSET Clients]]
            /\ lastId' \in [Clients -> Nat] /\ received' \in [Clients -> SUBSET Nat] /\ drops' \in Nat
        BY <4>1, <4>2, <4>3, <4>5, YieldType
      <4>8. QED
        BY <4>4, <4>6, <4>7 DEF TypeOK
    <3>6. CASE Idle(c)
      <4>1. CASE ReadSince(cursor[c]) # {}
        <5>1. backlog' \in [Clients -> SUBSET DOMAIN journal]
          <6>1. ReadSince(cursor[c]) \in SUBSET DOMAIN journal
            BY DEF ReadSince
          <6>2. backlog' = [backlog EXCEPT ![c] = ReadSince(cursor[c])]
            BY <3>6, <4>1 DEF Idle
          <6>3. QED
            BY <6>1, <6>2 DEF TypeOK
        <5>2. pc' \in [Clients -> Positions]
          BY <3>6, <4>1 DEF Idle, TypeOK, Positions
        <5>3. QED
          BY <3>6, <4>1, <5>1, <5>2 DEF Idle, TypeOK, clientvars
      <4>2. CASE ReadSince(cursor[c]) = {}
        BY <3>6, <4>2, CloseType DEF Idle, TypeOK, clientvars
      <4>3. QED
        BY <4>1, <4>2
    <3>7. CASE CatchUpEnd(c)
      <4>1. CASE IsFinished
        BY <3>7, <4>1, CloseType DEF CatchUpEnd, TypeOK, clientvars
      <4>2. CASE ~IsFinished
        BY <3>7, <4>2 DEF CatchUpEnd, TypeOK, Positions, clientvars
      <4>3. QED
        BY <4>1, <4>2
    <3>8. CASE Disconnect(c)
      BY <3>8, CloseType DEF Disconnect, TypeOK
    <3>9. QED
      BY <2>6, <3>1, <3>2, <3>3, <3>4, <3>5, <3>6, <3>7, <3>8 DEF StreamStep
  <2>7. QED
    BY <2>1, <2>2, <2>3, <2>4, <2>5, <2>6 DEF Next
<1>3. QED
  BY <1>1, <1>2, PTL DEF Spec

-----------------------------------------------------------------------------
\* Ending a stream, whatever it was doing, keeps the invariant.
LEMMA CloseInv ==
  ASSUME TypeOK, BusInv, NEW c \in Clients, Close(c),
         UNCHANGED <<journal, counter, lastId, received>>,
         \A d \in Clients \ {c} : cursor'[d] = cursor[d]
  PROVE  BusInv'
<1>1. SeqContiguous' /\ CounterAgrees'
  BY DEF BusInv, SeqContiguous, CounterAgrees
<1>2. InFlight'
  <2>1. \A p \in Producers : outbox'[p].env = outbox[p].env /\ outbox'[p].to \subseteq outbox[p].to
    BY DEF Close, TypeOK
  <2>2. \A d \in Clients : queue'[d] = queue[d] \/ queue'[d] = <<>>
    BY DEF Close, TypeOK
  <2>3. QED
    BY <2>1, <2>2 DEF BusInv, InFlight, Journalled
<1>3. CursorOrder'
  <2>1. \A d \in Clients : pc'[d] = IF d = c THEN "closed" ELSE pc[d]
    BY DEF Close, TypeOK
  <2>2. \A d \in Clients : backlog'[d] = IF d = c THEN {} ELSE backlog[d]
    BY DEF Close, TypeOK
  <2>3. QED
    BY <2>1, <2>2 DEF BusInv, CursorOrder
<1>4. QED
  BY <1>1, <1>2, <1>3 DEF BusInv

\* Handing over a journalled envelope from beyond the cursor keeps it too,
\* provided that what the generator still holds lies beyond that envelope.
LEMMA YieldInv ==
  ASSUME TypeOK, BusInv, NEW c \in Clients, NEW env \in Envelope, NEW next \in Positions,
         NEW q \in Seq(Envelope), NEW b \in SUBSET DOMAIN journal,
         Journalled(env), pc[c] # "closed", cursor[c] < env.seq,
         \A k \in 1 .. Len(q) : Journalled(q[k]),
         \A i \in b : env.seq < i,
         cursor' = [cursor EXCEPT ![c] = env.seq],
         UNCHANGED <<journal, counter>>,
         Yield(c, env, next, q, b)
  PROVE  BusInv'
<1>0. env.seq \in Nat /\ lastId[c] < env.seq /\ env.seq <= Len(journal)
  BY DEF Envelope, BusInv, CursorOrder, Journalled, TypeOK
<1>1. SeqContiguous' /\ CounterAgrees'
  BY DEF BusInv, SeqContiguous, CounterAgrees
<1>2. InFlight'
  <2>1. \A p \in Producers : outbox'[p].env = outbox[p].env /\ outbox'[p].to \subseteq outbox[p].to
    BY DEF Yield, Close, TypeOK
  <2>2. \A d \in Clients : queue'[d] = queue[d] \/ queue'[d] = <<>> \/ queue'[d] = q
    BY DEF Yield, Close, TypeOK
  <2>3. \A d \in Clients : \A k \in 1 .. Len(queue'[d]) : Journalled(queue'[d][k])
    BY <2>2 DEF BusInv, InFlight
  <2>4. QED
    BY <2>1, <2>3 DEF BusInv, InFlight, Journalled
<1>3. CursorOrder'
  <2>1. \A d \in Clients \ {c} :
          /\ lastId'[d] = lastId[d]
          /\ received'[d] = received[d]
          /\ pc'[d] = pc[d]
          /\ cursor'[d] = cursor[d]
          /\ backlog'[d] = backlog[d]
    BY DEF Yield, Close, TypeOK
  <2>2. \/ lastId'[c] = env.seq /\ received'[c] = received[c] \cup {env.seq}
        \/ lastId'[c] = lastId[c] /\ received'[c] = received[c]
    BY DEF Yield, TypeOK
  <2>3. cursor'[c] = env.seq /\ backlog'[c] \subseteq b
    BY DEF Yield, Close, TypeOK
  <2>4. received[c] \subseteq 1 .. lastId[c]
    BY DEF BusInv, CursorOrder
  <2>5. received'[c] \subseteq 1 .. lastId'[c]
    <3>1. lastId[c] \in Nat /\ env.seq \in Nat /\ lastId[c] < env.seq
      BY <1>0 DEF TypeOK
    <3>2. \A n \in received[c] : n \in 1 .. lastId[c] /\ n \in 1 .. env.seq
      BY <2>4, <3>1
    <3>3. env.seq \in 1 .. env.seq
      BY <3>1
    <3>4. QED
      BY <2>2, <3>2, <3>3
  <2>6. lastId'[c] <= Len(journal') /\ lastId'[c] <= cursor'[c]
    BY <1>0, <2>2, <2>3 DEF BusInv, CursorOrder, TypeOK
  <2>7. \A i \in backlog'[c] : i \in 1 .. Len(journal') /\ cursor'[c] < i
    BY <2>3 DEF TypeOK
  <2>8. QED
    BY <2>1, <2>5, <2>6, <2>7 DEF BusInv, CursorOrder
<1>4. QED
  BY <1>1, <1>2, <1>3 DEF BusInv

-----------------------------------------------------------------------------
\* The invariant holds before the first event.
LEMMA InitInv == Init => BusInv
<1> SUFFICES ASSUME Init PROVE BusInv
  OBVIOUS
<1>1. SeqContiguous /\ CounterAgrees
  BY DEF Init, SeqContiguous, CounterAgrees
<1>2. InFlight
  BY DEF Init, InFlight
<1>3. CursorOrder
  BY DEF Init, CursorOrder
<1>4. QED
  BY <1>1, <1>2, <1>3 DEF BusInv

\* emit() is where the number is given: the new last line is Len + 1.
LEMMA EmitInv ==
  ASSUME TypeOK, BusInv, NEW p \in Producers, NEW event \in {"log", "done"}, Emit(p, event)
  PROVE  BusInv'
<1> DEFINE env == [seq |-> NextSeq, event |-> event]
<1>1. NextSeq = Len(journal) + 1
  BY NextSeqIsLength DEF BusInv
<1>2. env \in Envelope /\ env.seq = Len(journal) + 1
  BY <1>1 DEF Envelope, TypeOK
<1>3. journal' = Append(journal, env)
  BY DEF Emit
<1>4. /\ Len(journal') = Len(journal) + 1
      /\ DOMAIN journal' = 1 .. Len(journal) + 1
      /\ \A i \in 1 .. Len(journal) : journal'[i] = journal[i]
      /\ journal'[Len(journal) + 1] = env
  BY <1>2, <1>3 DEF TypeOK
<1>5. SeqContiguous'
  <2> SUFFICES ASSUME NEW i \in DOMAIN journal' PROVE journal'[i].seq = i
    BY DEF SeqContiguous
  <2>1. CASE i = Len(journal) + 1
    BY <1>2, <1>4, <2>1
  <2>2. CASE i \in 1 .. Len(journal)
    <3>1. DOMAIN journal = 1 .. Len(journal)
      BY DEF TypeOK
    <3>2. QED
      BY <1>4, <2>2, <3>1 DEF BusInv, SeqContiguous
  <2>3. Len(journal) \in Nat
    BY DEF TypeOK
  <2>4. QED
    BY <1>4, <2>1, <2>2, <2>3
<1>6. CounterAgrees'
  BY <1>1, <1>4 DEF Emit, CounterAgrees
<1>7. \A n \in 1 .. Len(journal) : n \in 1 .. Len(journal')
  BY <1>4 DEF TypeOK
<1>8. InFlight'
  <2>1. \A r \in Producers : r # p => outbox'[r] = outbox[r]
    BY DEF Emit, TypeOK
  <2>2. outbox'[p].env = env
    BY DEF Emit, TypeOK
  <2>3. Len(journal) + 1 \in 1 .. Len(journal')
    BY <1>4 DEF TypeOK
  <2>4. \A r \in Producers : outbox'[r].to # {} => outbox'[r].env.seq \in 1 .. Len(journal')
    BY <1>2, <1>7, <2>1, <2>2, <2>3 DEF BusInv, InFlight, Journalled
  <2>5. queue' = queue
    BY DEF Emit, streamvars
  <2>6. \A c \in Clients : \A k \in 1 .. Len(queue[c]) : queue[c][k].seq \in 1 .. Len(journal')
    BY <1>7 DEF BusInv, InFlight, Journalled
  <2>7. QED
    BY <2>4, <2>5, <2>6 DEF InFlight, Journalled
<1>9. CursorOrder'
  BY <1>4 DEF Emit, streamvars, clientvars, BusInv, CursorOrder, TypeOK
<1>10. QED
  BY <1>5, <1>6, <1>8, <1>9 DEF BusInv

\* Handing an event to the queues preserves the invariant.
LEMMA PutInv ==
  ASSUME TypeOK, BusInv, NEW p \in Producers, NEW c \in Clients, Put(p, c)
  PROVE  BusInv'
<1>1. SeqContiguous' /\ CounterAgrees' /\ CursorOrder'
  BY DEF Put, clientvars, BusInv, SeqContiguous, CounterAgrees, CursorOrder
<1>2. Journalled(outbox[p].env) /\ outbox[p].env \in Envelope
  BY DEF Put, BusInv, InFlight, TypeOK
<1>3. \A r \in Producers : outbox'[r].env = outbox[r].env /\ outbox'[r].to \subseteq outbox[r].to
  BY DEF Put, TypeOK
<1>4. ASSUME NEW d \in Clients, NEW k \in 1 .. Len(queue'[d])
      PROVE  Journalled(queue'[d][k])
  <2>1. CASE queue'[d] = queue[d]
    BY <1>4, <2>1 DEF BusInv, InFlight
  <2>2. CASE queue'[d] = Append(queue[d], outbox[p].env)
    <3>1. queue[d] \in Seq(Envelope)
      BY DEF TypeOK
    <3>2. k \in 1 .. Len(queue[d]) + 1
      BY <1>2, <1>4, <2>2, <3>1
    <3>3. CASE k = Len(queue[d]) + 1
      BY <1>2, <2>2, <3>1, <3>3
    <3>4. CASE k \in 1 .. Len(queue[d])
      <4>1. queue'[d][k] = queue[d][k]
        BY <1>2, <2>2, <3>1, <3>4
      <4>2. QED
        BY <3>4, <4>1 DEF BusInv, InFlight
    <3>5. QED
      BY <3>1, <3>2, <3>3, <3>4
  <2>3. QED
    BY <2>1, <2>2 DEF Put, TypeOK
<1>5. journal' = journal
  BY DEF Put
<1>6. InFlight'
  BY <1>3, <1>4, <1>5 DEF BusInv, InFlight, Journalled
<1>7. QED
  BY <1>1, <1>6 DEF BusInv

\* A crash leaves the journal, and with it the invariant.
LEMMA CrashInv ==
  ASSUME TypeOK, BusInv, Crash
  PROVE  BusInv'
<1>1. SeqContiguous' /\ CounterAgrees'
  BY DEF Crash, BusInv, SeqContiguous, CounterAgrees
<1>2. InFlight'
  <2>1. \A p \in Producers : outbox'[p].to = {}
    BY DEF Crash, TypeOK
  <2>2. \A c \in Clients : queue'[c] = <<>>
    BY DEF Crash
  <2>3. QED
    BY <2>1, <2>2 DEF InFlight
<1>3. CursorOrder'
  BY DEF Crash, clientvars, BusInv, CursorOrder
<1>4. QED
  BY <1>1, <1>2, <1>3 DEF BusInv

\* A step that moves one generator and hands nothing over: where it is, what it
\* has read or queued, and its cursor may change within the order of the
\* invariant.
LEMMA GeneratorInv ==
  ASSUME TypeOK, BusInv, NEW c \in Clients,
         UNCHANGED <<busvars, lastId, received>>,
         \A d \in Clients \ {c} :
           pc'[d] = pc[d] /\ cursor'[d] = cursor[d] /\ backlog'[d] = backlog[d]
             /\ queue'[d] = queue[d],
         lastId[c] <= cursor'[c],
         \A i \in backlog'[c] : i \in 1 .. Len(journal) /\ cursor'[c] < i,
         \A k \in 1 .. Len(queue'[c]) : Journalled(queue'[c][k])
  PROVE  BusInv'
<1>1. SeqContiguous' /\ CounterAgrees'
  BY DEF busvars, BusInv, SeqContiguous, CounterAgrees
<1>2. InFlight'
  BY DEF busvars, BusInv, InFlight, Journalled
<1>3. CursorOrder'
  BY DEF busvars, BusInv, CursorOrder
<1>4. QED
  BY <1>1, <1>2, <1>3 DEF BusInv

\* What the stream of a connection does preserves the invariant.
LEMMA StreamInv ==
  ASSUME TypeOK, BusInv, NEW c \in Clients, StreamStep(c) \/ Disconnect(c)
  PROVE  BusInv'
<1>1. CASE Open(c)
  <2>1. lastId[c] \in Nat
    BY DEF TypeOK
  <2>2. ReadSince(lastId[c]) = lastId[c] + 1 .. Len(journal)
    BY <2>1, ReadSinceBeyond DEF BusInv
  <2>3. cursor'[c] = lastId[c] /\ backlog'[c] = lastId[c] + 1 .. Len(journal)
    BY <1>1, <2>2 DEF Open, TypeOK
  <2>4. \A i \in backlog'[c] : i \in 1 .. Len(journal) /\ cursor'[c] < i
    BY <2>1, <2>3 DEF TypeOK
  <2>5. \A k \in 1 .. Len(queue'[c]) : Journalled(queue'[c][k])
    BY <1>1 DEF Open, BusInv, InFlight
  <2>6. \A d \in Clients \ {c} :
          pc'[d] = pc[d] /\ cursor'[d] = cursor[d] /\ backlog'[d] = backlog[d]
            /\ queue'[d] = queue[d]
    BY <1>1 DEF Open, TypeOK
  <2>7. UNCHANGED <<busvars, lastId, received>> /\ lastId[c] <= cursor'[c]
    BY <1>1, <2>1, <2>3 DEF Open, clientvars
  <2>8. QED
    BY <2>4, <2>5, <2>6, <2>7, GeneratorInv
<1>2. CASE Drain(c)
  <2>1. PICK i \in backlog[c] :
          /\ \A j \in backlog[c] : i <= j
          /\ cursor' = [cursor EXCEPT ![c] = journal[i].seq]
          /\ Yield(c, journal[i], pc[c], queue[c], backlog[c] \ {i})
    BY <1>2 DEF Drain
  <2>2. i \in 1 .. Len(journal) /\ cursor[c] < i /\ journal[i] \in Envelope
    BY DEF BusInv, CursorOrder, TypeOK
  <2>3. journal[i].seq = i
    BY <2>2 DEF BusInv, SeqContiguous, TypeOK
  <2>4. Journalled(journal[i]) /\ cursor[c] < journal[i].seq
    BY <2>2, <2>3 DEF Journalled
  <2>5. pc[c] \in Positions /\ pc[c] # "closed" /\ queue[c] \in Seq(Envelope)
    BY <1>2 DEF Drain, TypeOK
  <2>6. \A k \in 1 .. Len(queue[c]) : Journalled(queue[c][k])
    BY DEF BusInv, InFlight
  <2>7. backlog[c] \ {i} \in SUBSET DOMAIN journal
    BY DEF TypeOK
  <2>8. \A j \in backlog[c] \ {i} : journal[i].seq < j
    <3>1. \A j \in backlog[c] : j \in Nat
      BY DEF TypeOK
    <3>2. QED
      BY <2>1, <2>2, <2>3, <3>1
  <2>9. UNCHANGED <<journal, counter>>
    BY <1>2 DEF Drain
  <2>10. QED
    BY <2>1, <2>2, <2>4, <2>5, <2>6, <2>7, <2>8, <2>9, YieldInv
<1>3. CASE Subscribe(c)
  <2>1. lastId[c] <= cursor[c]
    BY <1>3 DEF Subscribe, BusInv, CursorOrder
  <2>2. QED
    BY <1>3, <2>1, GeneratorInv DEF Subscribe, clientvars, BusInv, InFlight, CursorOrder, TypeOK
<1>4. CASE SkipStale(c)
  <2>1. queue[c] \in Seq(Envelope) /\ queue[c] # <<>>
    BY <1>4 DEF SkipStale, TypeOK
  <2>2. \A k \in 1 .. Len(Tail(queue[c])) : Tail(queue[c])[k] = queue[c][k + 1]
    BY <2>1
  <2>3. \A k \in 1 .. Len(Tail(queue[c])) : k + 1 \in 1 .. Len(queue[c])
    BY <2>1
  <2>4. \A k \in 1 .. Len(queue'[c]) : Journalled(queue'[c][k])
    BY <1>4, <2>2, <2>3 DEF SkipStale, BusInv, InFlight, TypeOK
  <2>5. lastId[c] <= cursor[c]
    BY <1>4 DEF SkipStale, BusInv, CursorOrder
  <2>6. \A d \in Clients \ {c} : queue'[d] = queue[d]
    BY <1>4 DEF SkipStale, TypeOK
  <2>7. UNCHANGED <<busvars, lastId, received, pc, cursor, backlog>>
    BY <1>4 DEF SkipStale, clientvars
  <2>8. \A i \in backlog'[c] : i \in 1 .. Len(journal) /\ cursor'[c] < i
    BY <2>7 DEF BusInv, CursorOrder
  <2>9. QED
    BY <2>4, <2>5, <2>6, <2>7, <2>8, GeneratorInv
<1>5. CASE Deliver(c)
  <2>1. queue[c] \in Seq(Envelope) /\ queue[c] # <<>>
    BY <1>5 DEF Deliver, TypeOK
  <2>2. Head(queue[c]) = queue[c][1] /\ 1 \in 1 .. Len(queue[c])
    BY <2>1
  <2>3. Head(queue[c]) \in Envelope /\ Journalled(Head(queue[c]))
    BY <2>1, <2>2 DEF BusInv, InFlight
  <2>4. \A k \in 1 .. Len(Tail(queue[c])) :
          Tail(queue[c])[k] = queue[c][k + 1] /\ k + 1 \in 1 .. Len(queue[c])
    BY <2>1
  <2>5. \A k \in 1 .. Len(Tail(queue[c])) : Journalled(Tail(queue[c])[k])
    BY <2>4 DEF BusInv, InFlight
  <2>6. Tail(queue[c]) \in Seq(Envelope) /\ "live" \in Positions /\ {} \in SUBSET DOMAIN journal
    BY <2>1 DEF Positions
  <2>7. /\ pc[c] # "closed" /\ cursor[c] < Head(queue[c]).seq
        /\ cursor' = [cursor EXCEPT ![c] = Head(queue[c]).seq]
        /\ Yield(c, Head(queue[c]), "live", Tail(queue[c]), {})
        /\ UNCHANGED <<journal, counter>>
    <3>1. cursor[c] \in Nat /\ Head(queue[c]).seq \in Nat
      BY <2>3 DEF TypeOK, Envelope
    <3>2. QED
      BY <1>5, <3>1 DEF Deliver
  <2>8. QED
    BY <2>3, <2>5, <2>6, <2>7, YieldInv
<1>6. CASE Idle(c)
  <2>1. CASE ReadSince(cursor[c]) # {}
    <3>1. cursor[c] \in Nat
      BY DEF TypeOK
    <3>2. backlog'[c] = cursor[c] + 1 .. Len(journal)
      BY <1>6, <2>1, <3>1, ReadSinceBeyond DEF Idle, BusInv, TypeOK
    <3>3. \A i \in backlog'[c] : i \in 1 .. Len(journal) /\ cursor'[c] < i
      BY <1>6, <3>1, <3>2 DEF Idle, TypeOK
    <3>4. \A d \in Clients \ {c} : pc'[d] = pc[d] /\ backlog'[d] = backlog[d]
      BY <1>6, <2>1 DEF Idle, TypeOK
    <3>5. UNCHANGED <<busvars, lastId, received, cursor, queue>>
      BY <1>6, <2>1 DEF Idle, busvars, clientvars
    <3>6. lastId[c] <= cursor[c]
      BY <1>6 DEF Idle, BusInv, CursorOrder
    <3>7. \A k \in 1 .. Len(queue[c]) : Journalled(queue[c][k])
      BY DEF BusInv, InFlight
    <3>8. QED
      BY <3>3, <3>4, <3>5, <3>6, <3>7, GeneratorInv
  <2>2. CASE ReadSince(cursor[c]) = {}
    BY <1>6, <2>2, CloseInv DEF Idle, clientvars
  <2>3. QED
    BY <2>1, <2>2
<1>7. CASE CatchUpEnd(c)
  <2>1. CASE IsFinished
    BY <1>7, <2>1, CloseInv DEF CatchUpEnd, clientvars
  <2>2. CASE ~IsFinished
    <3>1. lastId[c] <= cursor[c]
      BY <1>7 DEF CatchUpEnd, BusInv, CursorOrder
    <3>2. UNCHANGED <<busvars, lastId, received, cursor, queue, backlog>>
      BY <1>7, <2>2 DEF CatchUpEnd, busvars, clientvars
    <3>3. \A d \in Clients \ {c} : pc'[d] = pc[d]
      BY <1>7, <2>2 DEF CatchUpEnd, TypeOK
    <3>4. \A k \in 1 .. Len(queue[c]) : Journalled(queue[c][k])
      BY DEF BusInv, InFlight
    <3>5. \A i \in backlog[c] : i \in 1 .. Len(journal) /\ cursor[c] < i
      BY DEF BusInv, CursorOrder
    <3>6. QED
      BY <3>1, <3>2, <3>3, <3>4, <3>5, GeneratorInv
  <2>3. QED
    BY <2>1, <2>2
<1>8. CASE Disconnect(c)
  BY <1>8, CloseInv DEF Disconnect
<1>9. QED
  BY <1>1, <1>2, <1>3, <1>4, <1>5, <1>6, <1>7, <1>8 DEF StreamStep

\* Every step preserves the invariant.
LEMMA NextInv == TypeOK /\ BusInv /\ [Next]_vars => BusInv'
<1> SUFFICES ASSUME TypeOK, BusInv, [Next]_vars PROVE BusInv'
  OBVIOUS
<1>1. CASE UNCHANGED vars \/ Finish \/ Delete
  BY <1>1 DEF vars, Finish, Delete, busvars, streamvars, clientvars, BusInv, SeqContiguous,
              CounterAgrees, InFlight, Journalled, CursorOrder
<1>2. QED
  BY <1>1, EmitInv, PutInv, CrashInv, StreamInv DEF Next

\* The types and the invariant always hold.
LEMMA Invariance == Spec => [](TypeOK /\ BusInv)
<1>1. TypeOK /\ BusInv /\ [Next]_vars => BusInv'
  BY NextInv
<1>2. QED
  BY <1>1, InitInv, TypeCorrect, PTL DEF Spec

-----------------------------------------------------------------------------
\* The journal of a run is numbered 1, 2, 3, ... whichever threads emit and
\* however often the service restarts.
THEOREM JournalContiguous == Spec => []SeqContiguous
<1>1. TypeOK /\ BusInv => SeqContiguous
  BY DEF BusInv
<1>2. QED
  BY <1>1, Invariance, PTL

\* No client ever holds an event that is not in the journal.
THEOREM DeliveryIsDurable == Spec => []DeliveredIsJournalled
<1>1. ASSUME TypeOK, BusInv PROVE DeliveredIsJournalled
  <2> SUFFICES ASSUME NEW c \in Clients, NEW n \in received[c]
               PROVE  \E i \in DOMAIN journal : journal[i].seq = n
    BY DEF DeliveredIsJournalled
  <2>1. n \in 1 .. lastId[c] /\ lastId[c] \in Nat /\ lastId[c] <= Len(journal)
    BY <1>1 DEF BusInv, CursorOrder, TypeOK
  <2>2. n \in DOMAIN journal
    BY <1>1, <2>1 DEF TypeOK
  <2>3. QED
    BY <1>1, <2>2 DEF BusInv, SeqContiguous
<1>2. QED
  BY <1>1, Invariance, PTL

-----------------------------------------------------------------------------
\* Between the client and the journal there is no seam: an open stream has handed over
\* all up to its cursor, and what it has read begins right behind it, without a hole.
Seamless ==
  \A c \in Clients :
    /\ pc[c] # "closed" => lastId[c] = cursor[c]
    /\ \A i \in backlog[c] : \A k \in Nat : cursor[c] < k /\ k <= i => k \in backlog[c]

\* A step of one stream has to be looked at for its own client only.
LEMMA SeamlessOne ==
  ASSUME Seamless, NEW c \in Clients,
         \A d \in Clients \ {c} :
           pc'[d] = pc[d] /\ cursor'[d] = cursor[d] /\ backlog'[d] = backlog[d]
             /\ lastId'[d] = lastId[d],
         pc'[c] # "closed" => lastId'[c] = cursor'[c],
         \A i \in backlog'[c] : \A k \in Nat : cursor'[c] < k /\ k <= i => k \in backlog'[c]
  PROVE  Seamless'
BY DEF Seamless

\* A stream that ends has nothing left to hand over.
LEMMA SeamlessClose ==
  ASSUME TypeOK, Seamless, NEW c \in Clients, Close(c),
         \A d \in Clients \ {c} : cursor'[d] = cursor[d] /\ lastId'[d] = lastId[d]
  PROVE  Seamless'
<1>1. pc'[c] = "closed" /\ backlog'[c] = {}
  BY DEF Close, TypeOK
<1>2. \A d \in Clients \ {c} : pc'[d] = pc[d] /\ backlog'[d] = backlog[d]
  BY DEF Close, TypeOK
<1> QED
  BY <1>1, <1>2, SeamlessOne

\* Handing over an envelope moves the client as far as the cursor.
LEMMA SeamlessYield ==
  ASSUME TypeOK, Seamless, NEW c \in Clients, NEW env \in Envelope, NEW next \in Positions,
         NEW q \in Seq(Envelope), NEW b \in SUBSET DOMAIN journal,
         cursor' = [cursor EXCEPT ![c] = env.seq],
         \A i \in b : \A k \in Nat : env.seq < k /\ k <= i => k \in b,
         Yield(c, env, next, q, b)
  PROVE  Seamless'
<1>1. \A d \in Clients \ {c} : cursor'[d] = cursor[d] /\ lastId'[d] = lastId[d]
  BY DEF Yield, TypeOK
<1>2. CASE Close(c)
  BY <1>1, <1>2, SeamlessClose
<1>3. CASE ~Close(c)
  <2>1. lastId'[c] = env.seq /\ cursor'[c] = env.seq /\ backlog'[c] = b
    BY <1>3 DEF Yield, TypeOK
  <2>2. \A d \in Clients \ {c} : pc'[d] = pc[d] /\ backlog'[d] = backlog[d]
    BY <1>3 DEF Yield, TypeOK
  <2> QED
    BY <1>1, <2>1, <2>2, SeamlessOne
<1> QED
  BY <1>2, <1>3

\* What the stream of a connection does leaves no seam.
LEMMA SeamlessStream ==
  ASSUME TypeOK, BusInv, Seamless, NEW c \in Clients, StreamStep(c) \/ Disconnect(c)
  PROVE  Seamless'
<1>1. CASE Open(c)
  <2>1. lastId[c] \in Nat /\ ReadSince(lastId[c]) = lastId[c] + 1 .. Len(journal)
    BY ReadSinceBeyond DEF BusInv, TypeOK
  <2>2. cursor'[c] = lastId[c] /\ lastId'[c] = lastId[c] /\ backlog'[c] = lastId[c] + 1 .. Len(journal)
    BY <1>1, <2>1 DEF Open, clientvars, TypeOK
  <2>3. \A i \in backlog'[c] : \A k \in Nat : cursor'[c] < k /\ k <= i => k \in backlog'[c]
    BY <2>1, <2>2 DEF TypeOK
  <2>4. \A d \in Clients \ {c} :
          pc'[d] = pc[d] /\ cursor'[d] = cursor[d] /\ backlog'[d] = backlog[d]
            /\ lastId'[d] = lastId[d]
    BY <1>1 DEF Open, clientvars, TypeOK
  <2> QED
    BY <2>2, <2>3, <2>4, SeamlessOne
<1>2. CASE Drain(c)
  <2>1. PICK i \in backlog[c] :
          /\ \A j \in backlog[c] : i <= j
          /\ cursor' = [cursor EXCEPT ![c] = journal[i].seq]
          /\ Yield(c, journal[i], pc[c], queue[c], backlog[c] \ {i})
    BY <1>2 DEF Drain
  <2>2. i \in 1 .. Len(journal) /\ cursor[c] < i /\ journal[i] \in Envelope
    BY DEF BusInv, CursorOrder, TypeOK
  <2>3. journal[i].seq = i
    BY <2>2 DEF BusInv, SeqContiguous, TypeOK
  <2>4. ASSUME NEW j \in backlog[c] \ {i}, NEW k \in Nat, i < k, k <= j
        PROVE  k \in backlog[c] \ {i}
    <3>1. cursor[c] < k
      BY <2>2, <2>4 DEF TypeOK
    <3> QED
      BY <2>2, <2>4, <3>1 DEF Seamless
  <2>5. \A j \in backlog[c] \ {i} : \A k \in Nat :
          journal[i].seq < k /\ k <= j => k \in backlog[c] \ {i}
    BY <2>3, <2>4
  <2>6. /\ pc[c] \in Positions /\ queue[c] \in Seq(Envelope)
        /\ backlog[c] \ {i} \in SUBSET DOMAIN journal
    BY DEF TypeOK
  <2> QED
    BY <2>1, <2>2, <2>5, <2>6, SeamlessYield
<1>3. CASE Deliver(c)
  <2>1. queue[c] \in Seq(Envelope) /\ queue[c] # <<>>
    BY <1>3 DEF Deliver, TypeOK
  <2>2. /\ Head(queue[c]) \in Envelope /\ "live" \in Positions
        /\ Tail(queue[c]) \in Seq(Envelope) /\ {} \in SUBSET DOMAIN journal
    BY <2>1 DEF Positions
  <2>3. /\ cursor' = [cursor EXCEPT ![c] = Head(queue[c]).seq]
        /\ Yield(c, Head(queue[c]), "live", Tail(queue[c]), {})
    BY <1>3 DEF Deliver
  <2>4. \A i \in {} : \A k \in Nat : Head(queue[c]).seq < k /\ k <= i => k \in {}
    OBVIOUS
  <2> QED
    BY <2>2, <2>3, <2>4, SeamlessYield
<1>4. CASE Subscribe(c)
  BY <1>4 DEF Subscribe, clientvars, Seamless, TypeOK
<1>5. CASE SkipStale(c)
  BY <1>5 DEF SkipStale, clientvars, Seamless
<1>6. CASE Idle(c)
  <2>1. CASE ReadSince(cursor[c]) # {}
    <3>1. cursor[c] \in Nat /\ ReadSince(cursor[c]) = cursor[c] + 1 .. Len(journal)
      BY ReadSinceBeyond DEF BusInv, TypeOK
    <3>2. backlog'[c] = cursor[c] + 1 .. Len(journal) /\ UNCHANGED <<cursor, lastId>>
      BY <1>6, <2>1, <3>1 DEF Idle, clientvars, TypeOK
    <3>3. \A i \in backlog'[c] : \A k \in Nat : cursor'[c] < k /\ k <= i => k \in backlog'[c]
      BY <3>1, <3>2 DEF TypeOK
    <3>4. \A d \in Clients \ {c} : pc'[d] = pc[d] /\ backlog'[d] = backlog[d]
      BY <1>6, <2>1 DEF Idle, TypeOK
    <3>5. lastId[c] = cursor[c]
      BY <1>6 DEF Idle, Seamless
    <3> QED
      BY <3>2, <3>3, <3>4, <3>5, SeamlessOne
  <2>2. CASE ReadSince(cursor[c]) = {}
    BY <1>6, <2>2, SeamlessClose DEF Idle, clientvars
  <2> QED
    BY <2>1, <2>2
<1>7. CASE CatchUpEnd(c)
  <2>1. CASE IsFinished
    BY <1>7, <2>1, SeamlessClose DEF CatchUpEnd, clientvars
  <2>2. CASE ~IsFinished
    BY <1>7, <2>2 DEF CatchUpEnd, clientvars, Seamless, TypeOK
  <2> QED
    BY <2>1, <2>2
<1>8. CASE Disconnect(c)
  BY <1>8, SeamlessClose DEF Disconnect
<1> QED
  BY <1>1, <1>2, <1>3, <1>4, <1>5, <1>6, <1>7, <1>8 DEF StreamStep

\* An open stream is never out of step with its client.
LEMMA NoSeam == Spec => [](TypeOK /\ BusInv /\ Seamless)
<1>1. Init => Seamless
  BY DEF Init, Seamless
<1>2. TypeOK /\ BusInv /\ Seamless /\ [Next]_vars => Seamless'
  <2> SUFFICES ASSUME TypeOK, BusInv, Seamless, [Next]_vars PROVE Seamless'
    OBVIOUS
  <2>1. CASE UNCHANGED vars \/ Finish \/ Delete
    BY <2>1 DEF vars, Finish, Delete, streamvars, clientvars, Seamless
  <2>2. ASSUME NEW p \in Producers, NEW event \in {"log", "done"}, Emit(p, event) PROVE Seamless'
    BY <2>2 DEF Emit, streamvars, clientvars, Seamless
  <2>3. ASSUME NEW p \in Producers, NEW c \in Clients, Put(p, c) PROVE Seamless'
    BY <2>3 DEF Put, clientvars, Seamless
  <2>4. CASE Crash
    BY <2>4 DEF Crash, Seamless
  <2> QED
    BY <2>1, <2>2, <2>3, <2>4, SeamlessStream DEF Next
<1> QED
  BY <1>1, <1>2, Invariance, PTL DEF Spec

-----------------------------------------------------------------------------
\* What a step of a stream may do to its client: nothing, or one journalled
\* event from beyond the client's position, the next one unless it is live.
LEMMA StreamMoves ==
  ASSUME TypeOK, BusInv, Seamless, NEW c \in Clients, StreamStep(c) \/ Disconnect(c)
  PROVE  /\ journal' = journal
         /\ \/ UNCHANGED <<lastId, received>>
            \/ \E n \in lastId[c] + 1 .. Len(journal) :
                 /\ lastId' = [lastId EXCEPT ![c] = n]
                 /\ received' = [received EXCEPT ![c] = @ \cup {n}]
                 /\ n = lastId[c] + 1 \/ pc[c] = "live"
<1>1. CASE Drain(c)
  <2>1. PICK i \in backlog[c] :
          /\ \A j \in backlog[c] : i <= j
          /\ Yield(c, journal[i], pc[c], queue[c], backlog[c] \ {i})
    BY <1>1 DEF Drain
  <2>2. i \in 1 .. Len(journal) /\ cursor[c] < i /\ lastId[c] = cursor[c]
    BY <1>1 DEF Drain, BusInv, CursorOrder, Seamless
  <2>3. i \in lastId[c] + 1 .. Len(journal) /\ journal[i].seq = i
    BY <2>2 DEF BusInv, SeqContiguous, TypeOK
  <2>4. cursor[c] \in Nat /\ cursor[c] + 1 \in backlog[c]
    <3>1. cursor[c] \in Nat
      BY DEF TypeOK
    <3>2. cursor[c] + 1 \in Nat /\ cursor[c] < cursor[c] + 1 /\ cursor[c] + 1 <= i
      BY <2>2, <3>1
    <3>3. \A k \in Nat : cursor[c] < k /\ k <= i => k \in backlog[c]
      BY DEF Seamless
    <3> QED
      BY <3>1, <3>2, <3>3
  <2>5. i = lastId[c] + 1
    BY <2>1, <2>2, <2>4
  <2>6. QED
    BY <1>1, <2>1, <2>3, <2>5 DEF Drain, Yield
<1>2. CASE Deliver(c)
  <2>1. Yield(c, Head(queue[c]), "live", Tail(queue[c]), {})
    BY <1>2 DEF Deliver
  <2>2. queue[c] \in Seq(Envelope) /\ queue[c] # <<>>
    BY <1>2 DEF Deliver, TypeOK
  <2>3. Head(queue[c]) = queue[c][1] /\ 1 \in 1 .. Len(queue[c])
    BY <2>2
  <2>4. Head(queue[c]).seq \in 1 .. Len(journal)
    BY <2>3 DEF BusInv, InFlight, Journalled
  <2>5. cursor[c] < Head(queue[c]).seq /\ lastId[c] <= cursor[c]
    BY <1>2, <2>4 DEF Deliver, BusInv, CursorOrder, TypeOK
  <2>6. Head(queue[c]).seq \in lastId[c] + 1 .. Len(journal)
    BY <2>4, <2>5 DEF TypeOK
  <2>7. QED
    BY <1>2, <2>1, <2>6 DEF Deliver, Yield
<1>3. CASE ~Drain(c) /\ ~Deliver(c)
  BY <1>3 DEF StreamStep, Open, Subscribe, SkipStale, Idle, CatchUpEnd, Disconnect,
              busvars, clientvars
<1>4. QED
  BY <1>1, <1>2, <1>3

\* A client is never handed an event twice nor out of order, and replay and catch-up
\* leave no event out.
THEOREM DeliveryIsOrdered == Spec => OrderedDelivery
<1> DEFINE Ordered == \A c \in Clients : received'[c] # received[c] =>
                        /\ lastId'[c] > lastId[c]
                        /\ \A n \in received[c] : n < lastId'[c]
                        /\ lastId'[c] = lastId[c] + 1 \/ pc[c] = "live"
<1>1. TypeOK /\ BusInv /\ Seamless /\ [Next]_vars => [Ordered]_vars
  <2> SUFFICES ASSUME TypeOK, BusInv, Seamless, [Next]_vars PROVE Ordered \/ UNCHANGED vars
    OBVIOUS
  <2>1. CASE UNCHANGED <<lastId, received>>
    BY <2>1
  <2>2. ASSUME NEW d \in Clients, NEW n \in lastId[d] + 1 .. Len(journal),
               lastId' = [lastId EXCEPT ![d] = n],
               received' = [received EXCEPT ![d] = @ \cup {n}],
               n = lastId[d] + 1 \/ pc[d] = "live"
        PROVE  Ordered
    <3>1. lastId[d] \in Nat /\ n > lastId[d] /\ lastId'[d] = n
      BY <2>2 DEF TypeOK
    <3>2. \A m \in received[d] : m < n
      BY <3>1 DEF BusInv, CursorOrder
    <3>3. \A c \in Clients \ {d} : received'[c] = received[c]
      BY <2>2 DEF TypeOK
    <3>4. QED
      BY <2>2, <3>1, <3>2, <3>3
  <2>3. ASSUME NEW c \in Clients, StreamStep(c) \/ Disconnect(c)
        PROVE  Ordered
    BY <2>1, <2>2, <2>3, StreamMoves
  <2>4. QED
    BY <2>1, <2>3 DEF Next, vars, Emit, Put, Finish, Delete, Crash, streamvars, clientvars
<1>2. QED
  BY <1>1, NoSeam, PTL DEF Spec, OrderedDelivery

\* The bus keeps the promise of EventLog: emitting extends the log, a frame
\* that arrives moves one client forward, everything else is invisible.
THEOREM BusImplementsLog == Spec => LogSpec
<1>1. Init => Log!Init
  BY DEF Init, Log!Init
<1>2. TypeOK /\ BusInv /\ Seamless /\ [Next]_vars => [Log!Next]_<<Len(journal), lastId>>
  <2> SUFFICES ASSUME TypeOK, BusInv, Seamless, [Next]_vars
               PROVE  Log!Next \/ UNCHANGED <<Len(journal), lastId>>
    OBVIOUS
  <2>1. ASSUME NEW p \in Producers, NEW event \in {"log", "done"}, Emit(p, event)
        PROVE  Log!Next
    <3>1. [seq |-> NextSeq, event |-> event] \in Envelope
      BY NextSeqType DEF Envelope
    <3>2. Len(journal') = Len(journal) + 1 /\ lastId' = lastId
      BY <2>1, <3>1 DEF Emit, clientvars, TypeOK
    <3>3. QED
      BY <3>2 DEF Log!Next, Log!Extend
  <2>2. ASSUME NEW c \in Clients, StreamStep(c) \/ Disconnect(c)
        PROVE  Log!Next \/ UNCHANGED <<Len(journal), lastId>>
    BY <2>2, StreamMoves DEF Log!Next, Log!Advance
  <2>3. QED
    BY <2>1, <2>2 DEF Next, vars, busvars, clientvars, Put, Finish, Delete, Crash
<1>3. QED
  BY <1>1, <1>2, NoSeam, PTL DEF Spec, LogSpec, Log!Spec, Log!logvars
=============================================================================
