-------------------------- MODULE TransportProofs --------------------------
(***************************************************************************)
(* Proofs about Transport, for any bound on the calls, frames, ACKs, faults  *)
(* and configuration exchanges, and queues of any size.  The types hold for  *)
(* any number of calls of open(); the rest holds until the transport is      *)
(* reopened, as long as one writer runs.                                     *)
(***************************************************************************)
EXTENDS Transport, SequenceTheorems, TLAPS

Telemetry == 1 .. MaxFrames
PriorityItems == {PRIORITY, SENTINEL}
TelemetryItems == {SENTINEL} \union Telemetry
WriterPlaces == {"none", "priority", "tx", "write", "ended"} \union Disconnected
ReaderPlaces == {"none", "read", "ended"} \union Disconnected

\* TypeOK with the domains of its functions.
Types ==
    /\ tpc \in {"closed", "open", "closing", "joining"}
    /\ opens \in 0 .. MaxOpens /\ sent \in 0 .. MaxFrames /\ acks \in 0 .. MaxAcks
    /\ running \in BOOLEAN /\ plugged \in {"out", "in", "moved"} /\ gate \in BOOLEAN
    /\ port \in {"none", "up", "broken", "closed"}
    /\ priority \in Seq(PriorityItems)
    /\ tx \in Seq(TelemetryItems) /\ Len(tx) <= QueueSize
    /\ wpc \in [Opens -> WriterPlaces]
    /\ rpc \in [Opens -> ReaderPlaces]
    /\ hpc \in [Opens -> {"none", "gate", "tick", "ended"}]
    /\ item \in [Opens -> PriorityItems \union Telemetry]
    /\ cpc \in {"idle", "begin", "enter", "wait"}
    /\ hbResponse \in BOOLEAN
    /\ written \in 0 .. MaxFrames /\ behind \in 0 .. 3

\* Writers and readers start with their open(), and no sentinel is ever written.
Started ==
    /\ \A g \in Opens : g > opens => wpc[g] = "none" /\ rpc[g] = "none"
    /\ \A g \in Opens : wpc[g] = "write" => item[g] # SENTINEL

Fresh == ~running /\ tpc = "closed" /\ (gate \/ cpc # "idle")

\* Somebody is going to open the gate when it is shut.
Owned ==
    running /\ ~gate =>
        cpc # "idle" \/ \E g \in Opens : wpc[g] \in Holding \/ rpc[g] \in Holding

Waits == priority # <<>>

\* Once a frame has gone out while another one waited in the priority queue, the writer has no
\* telemetry in hand and is not about to take any before it has looked at that queue.
PriorityIsNext ==
    behind > 0 =>
        /\ behind = 1
        /\ Waits
        /\ \A g \in Opens : wpc[g] # "tx" /\ (wpc[g] = "write" => item[g] = PRIORITY)

\* The frames on their way are in order: written, in hand, in the queue, sent.
Ahead(n) == \A i \in 1 .. Len(tx) : tx[i] # SENTINEL => n < tx[i]

InOrder ==
    /\ written <= sent
    /\ Ahead(written)
    /\ \A i \in 1 .. Len(tx) : tx[i] <= sent
    /\ \A i, j \in 1 .. Len(tx) : i < j /\ tx[i] # SENTINEL /\ tx[j] # SENTINEL => tx[i] < tx[j]
    /\ \A g \in Opens : wpc[g] = "write" /\ item[g] \in Telemetry =>
            written < item[g] /\ item[g] <= sent /\ Ahead(item[g])

\* The inductive invariant.
IInv ==
    /\ Types /\ Started
    /\ opens = 0 => Fresh
    /\ opens <= 1 => Owned /\ PriorityIsNext /\ InOrder

-----------------------------------------------------------------------------
(* Queues                                                                    *)

\* What Append() does to a queue, element by element.
LEMMA AppendElements ==
    ASSUME NEW S, NEW q \in Seq(S), NEW e \in S
    PROVE  /\ Append(q, e) \in Seq(S) /\ Len(Append(q, e)) = Len(q) + 1
           /\ \A i \in 1 .. Len(q) : Append(q, e)[i] = q[i]
           /\ Append(q, e)[Len(q) + 1] = e
BY AppendProperties

\* What taking the head off a queue does to it, element by element.
LEMMA TailElements ==
    ASSUME NEW S, NEW q \in Seq(S), q # <<>>
    PROVE  /\ Head(q) \in S /\ Head(q) = q[1]
           /\ Tail(q) \in Seq(S) /\ Len(Tail(q)) = Len(q) - 1 /\ Len(q) \in Nat \ {0}
           /\ \A i \in 1 .. Len(q) - 1 : Tail(q)[i] = q[i + 1]
BY SMT

\* Something waits when something has been appended.
LEMMA StillWaits ==
    ASSUME priority \in Seq(PriorityItems), NEW e \in PriorityItems,
           priority' = Append(priority, e)
    PROVE  Waits'
<1>1. Len(priority') = Len(priority) + 1 /\ Len(priority) \in Nat
  BY AppendElements
<1>2. priority' # <<>>
  BY <1>1
<1> QED
  BY <1>2 DEF Waits

\* The constants bound what they are meant to bound.
LEMMA Constants ==
    /\ MaxOpens \in Nat /\ MaxFrames \in Nat /\ MaxAcks \in Nat /\ QueueSize \in Nat
    /\ MaxOpens > 0 /\ QueueSize > 0
BY BoundsAssumption

\* The invariant has TypeOK in it.
LEMMA TypesImply == Types /\ Started => TypeOK
<1> SUFFICES ASSUME Types, Started PROVE TypeOK
  OBVIOUS
<1>1. \A i \in DOMAIN priority : priority[i] \in {PRIORITY, SENTINEL}
  BY DEF Types, PriorityItems
<1>2. \A i \in DOMAIN tx : tx[i] \in {SENTINEL} \union (1 .. MaxFrames)
  BY DEF Types, TelemetryItems, Telemetry
<1>3. ASSUME NEW g \in Opens
      PROVE  /\ wpc[g] \in {"none", "priority", "tx", "write", "ended"} \union Disconnected
             /\ rpc[g] \in {"none", "read", "ended"} \union Disconnected
             /\ hpc[g] \in {"none", "gate", "tick", "ended"}
             /\ wpc[g] = "write" => item[g] \in {PRIORITY} \union (1 .. MaxFrames)
  BY DEF Types, Started, PriorityItems, Telemetry, WriterPlaces, ReaderPlaces
<1> QED
  BY <1>1, <1>2, <1>3 DEF Types, TypeOK

-----------------------------------------------------------------------------
(* What keeps each part of the invariant                                     *)

\* The gate has an owner as long as nobody leaves who reconnects or configures.
LEMMA OwnedKept ==
    ASSUME Owned, running' => running, gate => gate', cpc' = cpc \/ cpc' # "idle",
           \A g \in Opens : wpc[g] \in Holding => wpc'[g] \in Holding,
           \A g \in Opens : rpc[g] \in Holding => rpc'[g] \in Holding
    PROVE  Owned'
BY DEF Owned

\* A step that neither takes from a queue nor writes keeps the order of both.
LEMMA PriorityIsNextKept ==
    ASSUME PriorityIsNext, behind' = behind, Waits => Waits', item' = item,
           \A g \in Opens : wpc'[g] = wpc[g] \/ wpc'[g] \notin {"tx", "write"}
    PROVE  PriorityIsNext'
BY DEF PriorityIsNext

\* Order is kept when no writer begins to write.
LEMMA InOrderKept ==
    ASSUME InOrder, UNCHANGED <<tx, sent, written, item>>,
           \A g \in Opens : wpc'[g] = "write" => wpc[g] = "write"
    PROVE  InOrder'
BY DEF InOrder, Ahead

\* A step of anybody but the writers and TelemetryTask's open(), send() and close().
LEMMA AsideKeeps ==
    ASSUME IInv, Types', UNCHANGED <<opens, sent, tx, wpc, item, written, behind>>,
           \A g \in Opens : rpc[g] = "none" => rpc'[g] = "none",
           opens = 0 => Fresh', Owned => Owned', Waits => Waits'
    PROVE  IInv'
<1>1. Started'
  BY DEF IInv, Started
<1>2. PriorityIsNext => PriorityIsNext'
  BY PriorityIsNextKept
<1>3. InOrder => InOrder'
  BY InOrderKept
<1> QED
  BY <1>1, <1>2, <1>3 DEF IInv

-----------------------------------------------------------------------------
(* TelemetryTask and CommandReceiverTask                                     *)

\* Open keeps the invariant.
LEMMA OpenKeeps == ASSUME IInv, Open PROVE IInv'
<1>1. /\ tpc = "closed" /\ opens < MaxOpens /\ tpc' = "open" /\ opens' = opens + 1
      /\ port' \in {"up", "none"} /\ plugged' \in {"out", "in", "moved", plugged} /\ running' = TRUE
      /\ wpc' = [wpc EXCEPT ![opens + 1] = "priority"]
      /\ rpc' = [rpc EXCEPT ![opens + 1] = "read"]
      /\ hpc' = [hpc EXCEPT ![opens + 1] = "gate"]
      /\ UNCHANGED <<sent, acks, priority, tx, item, gate, cpc, hbResponse, configs, faults,
                     written, behind>>
  BY DEF Open, TriesPort, configVars, historyVars
<1>2. Types /\ Started
  BY DEF IInv
<1>3. opens \in Nat /\ opens + 1 \in Opens /\ opens + 1 \in 0 .. MaxOpens
  BY <1>1, <1>2, Constants DEF Types, Opens
<1>4. Types'
  BY <1>1, <1>2, <1>3 DEF Types, WriterPlaces, ReaderPlaces
<1>5. \A g \in Opens : wpc'[g] = wpc[g] \/ wpc'[g] = "priority"
  BY <1>1, <1>2 DEF Types
<1>6. Started'
  <2>1. ASSUME NEW g \in Opens, g > opens' PROVE wpc'[g] = "none" /\ rpc'[g] = "none"
    BY <2>1, <1>1, <1>2, <1>3 DEF Started, Types, Opens
  <2> QED
    BY <2>1, <1>1, <1>2, <1>5 DEF Started
<1>7. opens' <= 1 => opens = 0 /\ Owned' /\ PriorityIsNext' /\ InOrder'
  <2> SUFFICES ASSUME opens' <= 1 PROVE opens = 0 /\ Owned' /\ PriorityIsNext' /\ InOrder'
    OBVIOUS
  <2>1. opens = 0 /\ opens <= 1
    BY <1>1, <1>3
  <2>2. Owned'
    BY <1>1, <2>1 DEF IInv, Fresh, Owned
  <2>3. PriorityIsNext'
    BY <1>1, <1>5, <2>1, PriorityIsNextKept DEF IInv, Waits
  <2>4. InOrder'
    BY <1>1, <1>5, <2>1, InOrderKept DEF IInv
  <2> QED
    BY <2>1, <2>2, <2>3, <2>4
<1>8. opens' # 0
  BY <1>1, <1>3
<1> QED
  BY <1>4, <1>6, <1>7, <1>8 DEF IInv

\* The queue after send() has made room holds nothing that it did not hold, in the same order.
LEMMA RoomElements ==
    ASSUME Types
    PROVE  /\ Room(tx) \in Seq(TelemetryItems) /\ Len(Room(tx)) < QueueSize
           /\ \E d \in {0, 1} : /\ Len(Room(tx)) + d = Len(tx)
                                /\ \A i \in 1 .. Len(Room(tx)) : Room(tx)[i] = tx[i + d]
<1>1. CASE Len(tx) < QueueSize
  BY <1>1 DEF Room, Types
<1>2. CASE ~(Len(tx) < QueueSize)
  <2>1. tx # <<>> /\ Len(tx) = QueueSize
    BY <1>2, Constants DEF Types
  <2>2. Room(tx) = Tail(tx)
    BY <1>2 DEF Room
  <2>3. /\ Tail(tx) \in Seq(TelemetryItems) /\ Len(Tail(tx)) = Len(tx) - 1 /\ Len(tx) \in Nat
        /\ \A i \in 1 .. Len(tx) - 1 : Tail(tx)[i] = tx[i + 1]
    BY <2>1, TailElements DEF Types
  <2> QED
    BY <2>1, <2>2, <2>3
<1> QED
  BY <1>1, <1>2

\* Send keeps the invariant.
LEMMA SendKeeps == ASSUME IInv, Send PROVE IInv'
<1>1. /\ sent < MaxFrames /\ sent' = sent + 1 /\ tx' = Append(Room(tx), sent + 1)
      /\ UNCHANGED <<tpc, opens, acks, running, port, priority, wpc, item, rpc, hpc, gate, cpc,
                     hbResponse, configs, plugged, faults, written,
                     behind>>
  BY DEF Send, threadVars, configVars, radioVars, historyVars
<1>2. Types /\ Started
  BY DEF IInv
<1>3. sent \in Nat /\ sent + 1 \in Telemetry /\ sent + 1 \in 0 .. MaxFrames
      /\ sent + 1 \in TelemetryItems /\ SENTINEL = 0
  BY <1>1, <1>2, Constants DEF Types, Telemetry, TelemetryItems, SENTINEL
<1>4. /\ tx' \in Seq(TelemetryItems) /\ Len(tx') = Len(Room(tx)) + 1
      /\ \A i \in 1 .. Len(Room(tx)) : tx'[i] = Room(tx)[i]
      /\ tx'[Len(tx')] = sent'
  BY <1>1, <1>2, <1>3, RoomElements, AppendElements
<1>5. PICK d \in {0, 1} : /\ Len(Room(tx)) + d = Len(tx)
                          /\ \A i \in 1 .. Len(Room(tx)) : Room(tx)[i] = tx[i + d]
  BY <1>2, RoomElements
<1>6. /\ Len(Room(tx)) \in Nat /\ Len(Room(tx)) < QueueSize /\ Len(tx) \in Nat
      /\ tx \in Seq(TelemetryItems)
  BY <1>2, RoomElements DEF Types
<1>7. \A i \in 1 .. Len(tx') : \/ i = Len(tx') /\ tx'[i] = sent'
                               \/ i < Len(tx') /\ i + d \in 1 .. Len(tx) /\ tx'[i] = tx[i + d]
  BY <1>4, <1>5, <1>6
<1>8. Types'
  <2>1. Len(tx') <= QueueSize
    BY <1>4, <1>6, Constants
  <2> QED
    BY <2>1, <1>1, <1>2, <1>3, <1>4 DEF Types
<1>9. Started'
  BY <1>1, <1>2 DEF Started
<1>10. opens' <= 1 => Owned' /\ PriorityIsNext' /\ InOrder'
  <2> SUFFICES ASSUME opens <= 1 PROVE Owned' /\ PriorityIsNext' /\ InOrder'
    BY <1>1
  <2>1. Owned /\ PriorityIsNext /\ InOrder
    BY DEF IInv
  <2>2. Owned'
    BY <2>1, <1>1, OwnedKept
  <2>3. PriorityIsNext'
    BY <2>1, <1>1, PriorityIsNextKept DEF Waits
  <2>4. ASSUME NEW n \in 0 .. sent, Ahead(n) PROVE Ahead(n)'
    BY <2>4, <1>1, <1>3, <1>4, <1>6, <1>7 DEF Ahead
  <2>5. written' <= sent' /\ Ahead(written)'
    BY <2>1, <2>4, <1>1, <1>2, <1>3 DEF InOrder, Types
  <2>6. \A i \in 1 .. Len(tx) : tx[i] \in Int
    BY <1>6 DEF TelemetryItems, Telemetry, SENTINEL
  <2>7. ASSUME NEW i \in 1 .. Len(tx') PROVE tx'[i] <= sent'
    <3>1. CASE tx'[i] = sent'
      BY <3>1, <1>1, <1>3
    <3>2. CASE i + d \in 1 .. Len(tx) /\ tx'[i] = tx[i + d]
      <4>1. tx[i + d] <= sent /\ tx[i + d] \in Int
        BY <3>2, <2>1, <2>6 DEF InOrder
      <4> QED
        BY <4>1, <3>2, <1>1, <1>3
    <3> QED
      BY <3>1, <3>2, <1>7
  <2>8. ASSUME NEW i \in 1 .. Len(tx'), NEW j \in 1 .. Len(tx'), i < j,
               tx'[i] # SENTINEL, tx'[j] # SENTINEL
        PROVE  tx'[i] < tx'[j]
    <3>1. i + d \in 1 .. Len(tx) /\ tx'[i] = tx[i + d]
      BY <2>8, <1>4, <1>6, <1>7
    <3>2. CASE j = Len(tx')
      <4>1. tx[i + d] <= sent /\ tx[i + d] \in Int
        BY <3>1, <2>1, <2>6 DEF InOrder
      <4> QED
        BY <4>1, <3>1, <3>2, <1>1, <1>3, <1>4
    <3>3. CASE j # Len(tx')
      <4>1. j + d \in 1 .. Len(tx) /\ tx'[j] = tx[j + d] /\ i + d < j + d
        BY <2>8, <3>3, <1>4, <1>6, <1>7
      <4> QED
        BY <4>1, <3>1, <2>8, <2>1 DEF InOrder
    <3> QED
      BY <3>2, <3>3
  <2>9. ASSUME NEW g \in Opens, wpc'[g] = "write", item'[g] \in Telemetry
        PROVE  written' < item'[g] /\ item'[g] <= sent' /\ Ahead(item[g])'
    <3>1. written < item[g] /\ item[g] <= sent /\ Ahead(item[g]) /\ item[g] \in Int
      BY <2>9, <2>1, <1>1 DEF InOrder, Telemetry
    <3>2. item[g] \in 0 .. sent /\ item[g] <= sent + 1
      BY <3>1, <1>2, <1>3 DEF Types
    <3> QED
      BY <3>1, <3>2, <2>4, <1>1
  <2>10. InOrder'
    BY <2>5, <2>7, <2>8, <2>9, <1>1 DEF InOrder
  <2> QED
    BY <2>2, <2>3, <2>10
<1>11. opens' = 0 => Fresh'
  BY <1>1 DEF IInv, Fresh
<1> QED
  BY <1>8, <1>9, <1>10, <1>11 DEF IInv

\* Close keeps the invariant.
LEMMA CloseKeeps == ASSUME IInv, Close PROVE IInv'
<1>1. /\ tpc = "open" /\ running' = FALSE /\ priority' = Append(priority, SENTINEL)
      /\ tpc' = "closing"
      /\ UNCHANGED <<opens, sent, acks, port, tx, wpc, item, rpc, hpc, gate, cpc, hbResponse,
                     configs, plugged, faults, written, behind>>
  BY DEF Close, threadVars, configVars, radioVars, historyVars
<1>2. SENTINEL \in PriorityItems /\ Types
  BY DEF PriorityItems, IInv
<1>3. priority' \in Seq(PriorityItems)
  BY <1>1, <1>2, AppendElements DEF Types
<1>4. Types'
  BY <1>1, <1>2, <1>3 DEF Types
<1>5. Waits => Waits'
  BY <1>1, <1>2, StillWaits DEF Types
<1> QED
  BY <1>1, <1>4, <1>5, AsideKeeps DEF IInv, Fresh, Owned

\* The sentinel of close() is no frame, so the order does not care where it stands.
LEMMA CloseTxKeeps == ASSUME IInv, CloseTx PROVE IInv'
<1>1. /\ tpc = "closing" /\ Len(tx) < QueueSize /\ tx' = Append(tx, SENTINEL) /\ tpc' = "joining"
      /\ UNCHANGED <<opens, sent, acks, running, port, priority, wpc, item, rpc, hpc, gate, cpc,
                     hbResponse, configs, plugged, faults, written,
                     behind>>
  BY DEF CloseTx, threadVars, configVars, radioVars, historyVars
<1>2. Types /\ Started /\ SENTINEL \in TelemetryItems
  BY DEF IInv, TelemetryItems
<1>3. tx \in Seq(TelemetryItems) /\ Len(tx) \in Nat
  BY <1>2 DEF Types
<1>4. /\ tx' \in Seq(TelemetryItems) /\ Len(tx') = Len(tx) + 1
      /\ \A i \in 1 .. Len(tx) : tx'[i] = tx[i]
      /\ tx'[Len(tx) + 1] = SENTINEL
  BY <1>1, <1>2, <1>3, AppendElements
<1>5. Types'
  BY <1>1, <1>2, <1>3, <1>4, Constants DEF Types
<1>6. Started'
  BY <1>1, <1>2 DEF Started
<1>7. \A i \in 1 .. Len(tx') : \/ tx'[i] = SENTINEL
                               \/ i \in 1 .. Len(tx) /\ tx'[i] = tx[i]
  BY <1>3, <1>4
<1>8. opens' <= 1 => Owned' /\ PriorityIsNext' /\ InOrder'
  <2> SUFFICES ASSUME opens <= 1 PROVE Owned' /\ PriorityIsNext' /\ InOrder'
    BY <1>1
  <2>1. Owned /\ PriorityIsNext /\ InOrder
    BY DEF IInv
  <2>2. Owned'
    BY <2>1, <1>1, OwnedKept
  <2>3. PriorityIsNext'
    BY <2>1, <1>1, PriorityIsNextKept DEF Waits
  <2>4. ASSUME NEW n, Ahead(n) PROVE Ahead(n)'
    BY <2>4, <1>7 DEF Ahead
  <2>5. \A i \in 1 .. Len(tx') : tx'[i] <= sent'
    BY <2>1, <1>1, <1>2, <1>7 DEF InOrder, Types, SENTINEL
  <2>6. \A i, j \in 1 .. Len(tx') :
            i < j /\ tx'[i] # SENTINEL /\ tx'[j] # SENTINEL => tx'[i] < tx'[j]
    BY <2>1, <1>7 DEF InOrder
  <2>7. InOrder'
    BY <2>1, <2>4, <2>5, <2>6, <1>1 DEF InOrder
  <2> QED
    BY <2>2, <2>3, <2>7
<1>9. opens' = 0 => Fresh'
  BY <1>1 DEF IInv, Fresh
<1> QED
  BY <1>5, <1>6, <1>8, <1>9 DEF IInv

\* CloseJoin keeps the invariant.
LEMMA CloseJoinKeeps == ASSUME IInv, CloseJoin PROVE IInv'
<1>1. /\ tpc = "joining" /\ tpc' = "closed" /\ port' = (IF port = "none" THEN "none" ELSE "closed")
      /\ UNCHANGED <<opens, sent, acks, running, priority, tx, wpc, item, rpc, hpc, gate, cpc,
                     hbResponse, configs, plugged, faults, written, behind>>
  BY DEF CloseJoin, ClosesPort, threadVars, configVars, radioVars, historyVars
<1>2. Types'
  BY <1>1 DEF IInv, Types
<1> QED
  BY <1>1, <1>2, AsideKeeps DEF IInv, Fresh, Owned, Waits

\* SendPriority keeps the invariant.
LEMMA SendPriorityKeeps == ASSUME IInv, SendPriority PROVE IInv'
<1>1. /\ acks < MaxAcks /\ acks' = acks + 1 /\ priority' = Append(priority, PRIORITY)
      /\ UNCHANGED <<tpc, opens, sent, running, port, tx, wpc, item, rpc, hpc, gate, cpc,
                     hbResponse, configs, plugged, faults, written, behind>>
  BY DEF SendPriority, threadVars, configVars, radioVars, historyVars
<1>2. PRIORITY \in PriorityItems /\ Types
  BY DEF PriorityItems, IInv
<1>3. priority' \in Seq(PriorityItems) /\ acks' \in 0 .. MaxAcks
  BY <1>1, <1>2, Constants, AppendElements DEF Types
<1>4. Types'
  BY <1>1, <1>2, <1>3 DEF Types
<1>5. Waits'
  BY <1>1, <1>2, StillWaits DEF Types
<1> QED
  BY <1>1, <1>4, <1>5, AsideKeeps DEF IInv, Fresh, Owned

-----------------------------------------------------------------------------
(* The writer.  Before the transport is reopened there is only one.          *)

\* The only writer is the one of the first open().
LEMMA OneWriter ==
    ASSUME IInv, opens <= 1, NEW g \in Opens, wpc[g] # "none"
    PROVE  \A h \in Opens : h # g => wpc[h] = "none"
<1>1. opens \in Nat /\ \A h \in Opens : h \in Nat /\ h > 0
  BY Constants DEF IInv, Types, Opens
<1>2. g <= opens
  BY <1>1 DEF IInv, Started
<1> QED
  BY <1>1, <1>2 DEF IInv, Started

\* WriterTakesPriority keeps the invariant.
LEMMA WriterTakesPriorityKeeps ==
    ASSUME IInv, NEW g \in Opens, WriterTakesPriority(g) PROVE IInv'
<1>1. /\ wpc[g] = "priority"
      /\ UNCHANGED <<tpc, opens, sent, acks, running, port, tx, rpc, hpc, gate, cpc, hbResponse,
                     configs, plugged, faults, written>>
  BY DEF WriterTakesPriority, callerVars, configVars, radioVars
<1>2. Types /\ Started
  BY DEF IInv
<1>3. CASE priority = <<>>
  <2>1. wpc' = [wpc EXCEPT ![g] = "tx"] /\ UNCHANGED <<priority, item, behind>>
    BY <1>3 DEF WriterTakesPriority, Goto
  <2>2. Types' /\ Started'
    BY <2>1, <1>1, <1>2 DEF Types, Started, WriterPlaces
  <2>3. ~Waits
    BY <1>3 DEF Waits
  <2>4. Owned /\ InOrder => Owned' /\ InOrder'
    <3>1. \A h \in Opens : wpc'[h] = wpc[h] \/ wpc'[h] = "tx"
      BY <2>1, <1>2 DEF Types
    <3>2. \A h \in Opens : wpc[h] \in Holding => wpc'[h] \in Holding
      BY <2>1, <1>1, <1>2 DEF Types, Holding
    <3> QED
      BY <3>1, <3>2, <2>1, <1>1, OwnedKept, InOrderKept
  <2>5. PriorityIsNext => PriorityIsNext'
    BY <2>1, <2>3 DEF PriorityIsNext
  <2>6. opens' = 0 => Fresh'
    BY <1>1 DEF IInv, Fresh
  <2> QED
    BY <2>2, <2>4, <2>5, <2>6, <1>1 DEF IInv
<1>4. CASE priority # <<>>
  <2>1. /\ priority' = Tail(priority) /\ item' = [item EXCEPT ![g] = Head(priority)]
        /\ wpc' = [wpc EXCEPT ![g] = IF Head(priority) = SENTINEL THEN "ended" ELSE "write"]
        /\ behind' = 0
    BY <1>4 DEF WriterTakesPriority, Goto
  <2>2. /\ Head(priority) \in PriorityItems /\ Head(priority) = priority[1]
        /\ Tail(priority) \in Seq(PriorityItems) /\ Len(Tail(priority)) = Len(priority) - 1
        /\ Len(priority) \in Nat \ {0}
        /\ \A i \in 1 .. Len(priority) - 1 : Tail(priority)[i] = priority[i + 1]
    BY <1>2, <1>4, TailElements DEF Types
  <2>3. Head(priority) \notin Telemetry
    BY <2>2 DEF PriorityItems, Telemetry, SENTINEL, PRIORITY
  <2>4. wpc'[g] \in {"ended", "write"} /\ (wpc'[g] = "write" => Head(priority) # SENTINEL)
    BY <2>1, <1>2 DEF Types
  <2>5. item'[g] = Head(priority) /\ \A h \in Opens : h # g => wpc'[h] = wpc[h] /\ item'[h] = item[h]
    BY <2>1, <1>2 DEF Types
  <2>6. Types'
    <3>1. item' \in [Opens -> PriorityItems \union Telemetry]
      BY <2>1, <2>2, <1>2 DEF Types
    <3>2. wpc' \in [Opens -> WriterPlaces]
      BY <2>1, <1>2 DEF Types, WriterPlaces
    <3>3. behind' \in 0 .. 3
      BY <2>1, <1>2 DEF Types
    <3> QED
      BY <3>1, <3>2, <3>3, <2>1, <2>2, <1>1, <1>2 DEF Types
  <2>7. Started'
    BY <2>4, <2>5, <1>1, <1>2 DEF Started
  <2>8. opens' <= 1 => Owned' /\ PriorityIsNext' /\ InOrder'
    <3> SUFFICES ASSUME opens <= 1 PROVE Owned' /\ PriorityIsNext' /\ InOrder'
      BY <1>1
    <3>1. Owned /\ PriorityIsNext /\ InOrder
      BY DEF IInv
    <3>2. \A h \in Opens : h # g => wpc'[h] = "none" /\ wpc[h] = "none"
      BY <2>5, <1>1, OneWriter
    <3>3. Owned'
      <4>1. \A h \in Opens : wpc[h] \in Holding => wpc'[h] \in Holding
        BY <3>2, <1>1 DEF Holding
      <4> QED
        BY <4>1, <3>1, <1>1, OwnedKept
    <3>4. PriorityIsNext'
      BY <2>1 DEF PriorityIsNext
    <3>5. InOrder'
      BY <3>1, <3>2, <2>3, <2>5, <1>1 DEF InOrder, Ahead
    <3> QED
      BY <3>3, <3>4, <3>5
  <2>9. opens' = 0 => Fresh'
    BY <1>1 DEF IInv, Fresh
  <2> QED
    BY <2>6, <2>7, <2>8, <2>9 DEF IInv
<1> QED
  BY <1>3, <1>4

\* WriterTakesTelemetry keeps the invariant.
LEMMA WriterTakesTelemetryKeeps ==
    ASSUME IInv, NEW g \in Opens, WriterTakesTelemetry(g) PROVE IInv'
<1>1. /\ wpc[g] = "tx"
      /\ UNCHANGED <<tpc, opens, sent, acks, running, port, priority, rpc, hpc, gate, cpc,
                     hbResponse, configs, plugged, faults, written,
                     behind>>
  BY DEF WriterTakesTelemetry, callerVars, configVars, radioVars, historyVars
<1>2. Types /\ Started
  BY DEF IInv
<1>3. opens' = 0 => Fresh'
  BY <1>1 DEF IInv, Fresh
<1>4. CASE tx = <<>>
  <2>1. wpc' = [wpc EXCEPT ![g] = "priority"] /\ UNCHANGED <<tx, item>>
    BY <1>4 DEF WriterTakesTelemetry, Goto
  <2>2. Types' /\ Started'
    BY <2>1, <1>1, <1>2 DEF Types, Started, WriterPlaces
  <2>3. \A h \in Opens : wpc'[h] = wpc[h] \/ wpc'[h] = "priority"
    BY <2>1, <1>2 DEF Types
  <2>4. \A h \in Opens : wpc[h] \in Holding => wpc'[h] \in Holding
    BY <2>1, <1>1, <1>2 DEF Types, Holding
  <2>5. Owned /\ PriorityIsNext /\ InOrder => Owned' /\ PriorityIsNext' /\ InOrder'
    BY <2>1, <2>3, <2>4, <1>1, OwnedKept, PriorityIsNextKept, InOrderKept DEF Waits
  <2> QED
    BY <2>2, <2>5, <1>1, <1>3 DEF IInv
<1>5. CASE tx # <<>>
  <2>1. /\ tx' = Tail(tx) /\ item' = [item EXCEPT ![g] = Head(tx)]
        /\ wpc' = [wpc EXCEPT ![g] = IF Head(tx) = SENTINEL THEN "ended" ELSE "write"]
    BY <1>5 DEF WriterTakesTelemetry, Goto
  <2>2. /\ Head(tx) \in TelemetryItems /\ Head(tx) = tx[1]
        /\ Tail(tx) \in Seq(TelemetryItems) /\ Len(Tail(tx)) = Len(tx) - 1
        /\ Len(tx) \in Nat \ {0}
        /\ \A i \in 1 .. Len(tx) - 1 : Tail(tx)[i] = tx[i + 1]
    BY <1>2, <1>5, TailElements DEF Types
  <2>3. wpc'[g] \in {"ended", "write"} /\ (wpc'[g] = "write" => Head(tx) # SENTINEL)
    BY <2>1, <1>2 DEF Types
  <2>4. item'[g] = Head(tx) /\ \A h \in Opens : h # g => wpc'[h] = wpc[h] /\ item'[h] = item[h]
    BY <2>1, <1>2 DEF Types
  <2>5. Types'
    <3>1. item' \in [Opens -> PriorityItems \union Telemetry]
      BY <2>1, <2>2, <1>2 DEF Types, PriorityItems, TelemetryItems
    <3>2. wpc' \in [Opens -> WriterPlaces]
      BY <2>1, <1>2 DEF Types, WriterPlaces
    <3>3. Len(tx') <= QueueSize
      BY <2>1, <2>2, <1>2, Constants DEF Types
    <3> QED
      BY <3>1, <3>2, <3>3, <2>1, <2>2, <1>1, <1>2 DEF Types
  <2>6. Started'
    BY <2>3, <2>4, <1>1, <1>2 DEF Started
  <2>7. opens' <= 1 => Owned' /\ PriorityIsNext' /\ InOrder'
    <3> SUFFICES ASSUME opens <= 1 PROVE Owned' /\ PriorityIsNext' /\ InOrder'
      BY <1>1
    <3>1. Owned /\ PriorityIsNext /\ InOrder
      BY DEF IInv
    <3>2. \A h \in Opens : h # g => wpc'[h] = "none" /\ wpc[h] = "none"
      BY <2>4, <1>1, OneWriter
    <3>3. Owned'
      <4>1. \A h \in Opens : wpc[h] \in Holding => wpc'[h] \in Holding
        BY <3>2, <1>1 DEF Holding
      <4> QED
        BY <4>1, <3>1, <1>1, OwnedKept
    <3>4. PriorityIsNext'
      BY <3>1, <1>1 DEF PriorityIsNext
    <3>5. \A i \in 1 .. Len(tx') : i + 1 \in 2 .. Len(tx) /\ i + 1 \in 1 .. Len(tx) /\ tx'[i] = tx[i + 1]
      BY <2>1, <2>2
    <3>6. \A n : Ahead(n) => Ahead(n)'
      BY <3>5 DEF Ahead
    <3>7. ASSUME wpc'[g] = "write" PROVE written' < item'[g] /\ item'[g] <= sent' /\ Ahead(item[g])'
      <4>1. 1 \in 1 .. Len(tx) /\ tx[1] # SENTINEL /\ item'[g] = tx[1]
        BY <3>7, <2>2, <2>3, <2>4
      <4>2. written < tx[1] /\ tx[1] <= sent
        BY <4>1, <3>1 DEF InOrder, Ahead
      <4>3. ASSUME NEW i \in 1 .. Len(tx'), tx'[i] # SENTINEL PROVE tx[1] < tx'[i]
        BY <4>1, <4>3, <3>1, <3>5 DEF InOrder
      <4> QED
        BY <4>1, <4>2, <4>3, <1>1 DEF Ahead
    <3>8. \A i, j \in 1 .. Len(tx') :
              i < j /\ tx'[i] # SENTINEL /\ tx'[j] # SENTINEL => tx'[i] < tx'[j]
      <4> SUFFICES ASSUME NEW i \in 1 .. Len(tx'), NEW j \in 1 .. Len(tx'), i < j,
                          tx'[i] # SENTINEL, tx'[j] # SENTINEL
                   PROVE  tx'[i] < tx'[j]
        OBVIOUS
      <4>1. i + 1 < j + 1 /\ i + 1 \in 1 .. Len(tx) /\ j + 1 \in 1 .. Len(tx)
        BY <3>5
      <4> QED
        BY <4>1, <3>1, <3>5 DEF InOrder
    <3>9. \A i \in 1 .. Len(tx') : tx'[i] <= sent'
      BY <3>1, <3>5, <1>1 DEF InOrder
    <3>10. InOrder'
      BY <3>1, <3>2, <3>6, <3>7, <3>8, <3>9, <1>1 DEF InOrder
    <3> QED
      BY <3>3, <3>4, <3>10
  <2> QED
    BY <2>5, <2>6, <2>7, <1>3 DEF IInv
<1> QED
  BY <1>4, <1>5

\* WriterWrites keeps the invariant.
LEMMA WriterWritesKeeps ==
    ASSUME IInv, NEW g \in Opens, WriterWrites(g) PROVE IInv'
<1>1. /\ wpc[g] = "write" /\ item' = [item EXCEPT ![g] = SENTINEL]
      /\ UNCHANGED <<tpc, opens, sent, acks, running, port, priority, tx, rpc, hpc, gate, cpc,
                     hbResponse, configs, plugged, faults>>
  BY DEF WriterWrites, Requeued, callerVars, configVars, radioVars
<1>2. Types /\ Started
  BY DEF IInv
<1>3. opens # 0 /\ opens \in Nat
  BY <1>1, <1>2, Constants DEF Types, Started, Opens
<1>4. \/ Counted(item[g]) /\ wpc' = [wpc EXCEPT ![g] = "priority"]
      \/ UNCHANGED <<written, behind>> /\ wpc' = [wpc EXCEPT ![g] = "failed"]
  BY DEF WriterWrites, Goto, LoopTop, historyVars
<1>5. item[g] \in {PRIORITY} \union Telemetry /\ PRIORITY \notin Telemetry
  BY <1>1, <1>2 DEF Types, Started, PriorityItems, Telemetry, PRIORITY
<1>6. /\ wpc'[g] \in {"priority", "failed"}
      /\ \A h \in Opens : h # g => wpc'[h] = wpc[h] /\ item'[h] = item[h]
  BY <1>1, <1>2, <1>4 DEF Types
<1>7. \/ UNCHANGED <<written, behind>>
      \/ /\ item[g] \in Telemetry /\ written' = item[g]
         /\ behind' = (IF behind < 3 /\ Waits THEN behind + 1 ELSE behind)
  BY <1>4, <1>5 DEF Counted, Waits, historyVars
<1>8. Types'
  <2>1. written' \in 0 .. MaxFrames /\ behind' \in 0 .. 3
    BY <1>2, <1>7, Constants DEF Types, Telemetry
  <2>2. item' \in [Opens -> PriorityItems \union Telemetry] /\ wpc' \in [Opens -> WriterPlaces]
    BY <1>1, <1>2, <1>4 DEF Types, PriorityItems, WriterPlaces, Disconnected
  <2> QED
    BY <2>1, <2>2, <1>1, <1>2 DEF Types
<1>9. Started'
  BY <1>1, <1>2, <1>3, <1>6 DEF Started
<1>10. ASSUME opens <= 1 PROVE Owned' /\ PriorityIsNext' /\ InOrder'
  <2>1. Owned /\ PriorityIsNext /\ InOrder
    BY <1>10 DEF IInv
  <2>2. \A h \in Opens : h # g => wpc'[h] = "none" /\ wpc[h] = "none"
    BY <1>1, <1>6, <1>10, OneWriter
  <2>3. Owned'
    BY <2>1, <2>2, <1>1, OwnedKept DEF Holding
  <2>4. Waits' = Waits
    BY <1>1 DEF Waits
  <2>5. \A h \in Opens : wpc'[h] \notin {"tx", "write"}
    BY <2>2, <1>6
  <2>6. CASE UNCHANGED <<written, behind>>
    BY <2>1, <2>3, <2>4, <2>5, <2>6, <1>1 DEF PriorityIsNext, InOrder, Ahead
  <2>7. CASE /\ item[g] \in Telemetry /\ written' = item[g]
             /\ behind' = (IF behind < 3 /\ Waits THEN behind + 1 ELSE behind)
    <3>1. behind = 0
      BY <2>1, <2>7, <1>1, <1>2, <1>5 DEF PriorityIsNext, Types
    <3>2. behind' = 0 \/ (behind' = 1 /\ Waits)
      BY <3>1, <2>7
    <3>3. PriorityIsNext'
      BY <3>2, <2>4, <2>5 DEF PriorityIsNext
    <3>4. written < item[g] /\ item[g] <= sent /\ Ahead(item[g])
      BY <2>1, <2>7, <1>1 DEF InOrder
    <3>5. InOrder'
      BY <3>4, <2>1, <2>5, <2>7, <1>1 DEF InOrder, Ahead
    <3> QED
      BY <3>3, <3>5, <2>3
  <2> QED
    BY <2>6, <2>7, <1>7
<1> QED
  BY <1>1, <1>3, <1>8, <1>9, <1>10 DEF IInv

-----------------------------------------------------------------------------
(* _handle_disconnect()                                                      *)

\* A thread in _handle_disconnect() stays in it or leaves; it reopens the port or closes it; and
\* it stays with a gate that it leaves shut.
LEMMA Handling ==
    ASSUME NEW at, NEW next, NEW top, HandleDisconnect(at, next, top)
    PROVE  /\ at \in Disconnected /\ next \in Disconnected \union {top}
           /\ port' \in {port, "none", "closed", "up"} /\ gate' \in {gate, TRUE, FALSE}
           /\ running /\ ~gate' => next \in Holding \/ (gate' = gate /\ at \notin Holding)
BY DEF HandleDisconnect, ClosesPort, TryAgain, Disconnected, Holding

\* WriterReconnects keeps the invariant.
LEMMA WriterReconnectsKeeps ==
    ASSUME IInv, NEW g \in Opens, WriterReconnects(g) PROVE IInv'
<1>1. PICK next : HandleDisconnect(wpc[g], next, "priority") /\ wpc' = [wpc EXCEPT ![g] = next]
  BY DEF WriterReconnects, Goto, LoopTop
<1>2. UNCHANGED <<tpc, opens, sent, acks, running, priority, tx, item, rpc, hpc, cpc, hbResponse,
                  configs, plugged, faults, written, behind>>
  BY DEF WriterReconnects, callerVars, configVars, radioVars, historyVars
<1>3. Types /\ Started
  BY DEF IInv
<1>4. /\ wpc[g] \in Disconnected /\ next \in Disconnected \union {"priority"}
      /\ port' \in {port, "none", "closed", "up"} /\ gate' \in {gate, TRUE, FALSE}
      /\ running /\ ~gate' => next \in Holding \/ (gate' = gate /\ wpc[g] \notin Holding)
  BY <1>1, Handling
<1>5. wpc'[g] = next /\ \A h \in Opens : h # g => wpc'[h] = wpc[h]
  BY <1>1, <1>3 DEF Types
<1>6. Types'
  <2>1. wpc' \in [Opens -> WriterPlaces]
    BY <1>1, <1>3, <1>4 DEF Types, WriterPlaces
  <2>2. port' \in {"none", "up", "broken", "closed"} /\ gate' \in BOOLEAN
    BY <1>3, <1>4 DEF Types
  <2> QED
    BY <2>1, <2>2, <1>2, <1>3 DEF Types
<1>7. wpc[g] # "none" /\ next \notin {"tx", "write"}
  BY <1>4 DEF Disconnected
<1>8. opens # 0
  BY <1>3, <1>7, Constants DEF Types, Started, Opens
<1>9. Started'
  BY <1>2, <1>3, <1>5, <1>7 DEF Started
<1>10. Owned => Owned'
  BY <1>2, <1>4, <1>5 DEF Owned
<1>11. PriorityIsNext /\ InOrder => PriorityIsNext' /\ InOrder'
  <2>1. \A h \in Opens : wpc'[h] = wpc[h] \/ wpc'[h] \notin {"tx", "write"}
    BY <1>5, <1>7
  <2> QED
    BY <2>1, <1>2, PriorityIsNextKept, InOrderKept DEF Waits
<1> QED
  BY <1>2, <1>6, <1>8, <1>9, <1>10, <1>11 DEF IInv

-----------------------------------------------------------------------------
(* The other threads and the radio                                           *)

\* Reader keeps the invariant.
LEMMA ReaderKeeps == ASSUME IInv, NEW g \in Opens, Reader(g) PROVE IInv'
<1>1. UNCHANGED <<tpc, opens, sent, acks, running, priority, tx, wpc, item, hpc, cpc, configs,
                  plugged, faults, written, behind>>
  BY DEF Reader, ReaderReads, ReaderFails, ReaderReconnects, ReaderEnds, callerVars, threadVars,
         configVars, radioVars, historyVars
<1>2. Types /\ Started
  BY DEF IInv
<1>3. Waits => Waits'
  BY <1>1 DEF Waits
<1>4. rpc[g] # "none" => opens # 0
  BY <1>2, Constants DEF Types, Started, Opens
<1>5. CASE ReaderReads(g)
  <2>1. UNCHANGED <<port, gate, rpc>> /\ running /\ hbResponse' \in BOOLEAN
    BY <1>5 DEF ReaderReads, threadVars, OnLrFrame
  <2>2. Types'
    BY <2>1, <1>1, <1>2 DEF Types
  <2> QED
    BY <2>1, <2>2, <1>1, <1>3, AsideKeeps DEF IInv, Fresh, Owned
<1>6. CASE ReaderFails(g) \/ ReaderEnds(g)
  <2>1. PICK next \in {"failed", "ended"} : rpc' = [rpc EXCEPT ![g] = next]
    BY <1>6 DEF ReaderFails, ReaderEnds
  <2>2. rpc[g] = "read" /\ UNCHANGED <<port, gate, hbResponse>>
    BY <1>6 DEF ReaderFails, ReaderEnds, configVars
  <2>3. Types'
    BY <2>1, <2>2, <1>1, <1>2 DEF Types, ReaderPlaces, Disconnected
  <2>4. \A h \in Opens : rpc'[h] = rpc[h] \/ (rpc[h] = "read" /\ rpc'[h] # "none")
    BY <2>1, <2>2, <1>2 DEF Types
  <2>5. Owned => Owned'
    BY <2>2, <2>4, <1>1, OwnedKept DEF Holding
  <2> QED
    BY <2>2, <2>3, <2>4, <2>5, <1>1, <1>3, AsideKeeps DEF IInv, Fresh
<1>7. CASE ReaderReconnects(g)
  <2>1. PICK next : HandleDisconnect(rpc[g], next, "read") /\ rpc' = [rpc EXCEPT ![g] = next]
    BY <1>7 DEF ReaderReconnects
  <2>2. UNCHANGED hbResponse
    BY <1>7 DEF ReaderReconnects, configVars
  <2>3. /\ rpc[g] \in Disconnected /\ next \in Disconnected \union {"read"}
        /\ port' \in {port, "none", "closed", "up"} /\ gate' \in {gate, TRUE, FALSE}
        /\ running /\ ~gate' => next \in Holding \/ (gate' = gate /\ rpc[g] \notin Holding)
    BY <2>1, Handling
  <2>4. rpc'[g] = next /\ \A h \in Opens : h # g => rpc'[h] = rpc[h]
    BY <2>1, <1>2 DEF Types
  <2>5. Types'
    <3>1. rpc' \in [Opens -> ReaderPlaces]
      BY <2>1, <2>3, <1>2 DEF Types, ReaderPlaces
    <3>2. port' \in {"none", "up", "broken", "closed"} /\ gate' \in BOOLEAN
      BY <2>3, <1>2 DEF Types
    <3> QED
      BY <3>1, <3>2, <2>2, <1>1, <1>2 DEF Types
  <2>6. rpc[g] # "none"
    BY <2>3 DEF Disconnected
  <2>7. Owned => Owned'
    BY <2>3, <2>4, <1>1 DEF Owned
  <2> QED
    BY <2>4, <2>5, <2>6, <2>7, <1>1, <1>3, <1>4, AsideKeeps
<1> QED
  BY <1>5, <1>6, <1>7 DEF Reader

\* Heartbeat keeps the invariant.
LEMMA HeartbeatKeeps == ASSUME IInv, NEW g \in Opens, Heartbeat(g) PROVE IInv'
<1>1. UNCHANGED <<tpc, opens, sent, acks, running, port, tx, wpc, item, rpc, gate, cpc, hbResponse,
                  configs, plugged, faults, written, behind>>
  BY DEF Heartbeat, HeartbeatPassesGate, HeartbeatTicks, callerVars, threadVars, configVars,
         radioVars, historyVars
<1>2. Types /\ PRIORITY \in PriorityItems
  BY DEF IInv, PriorityItems
<1>3. priority' = priority \/ priority' = Append(priority, PRIORITY)
  BY DEF Heartbeat, HeartbeatPassesGate, HeartbeatTicks
<1>4. priority' \in Seq(PriorityItems)
  <2>1. priority \in Seq(PriorityItems) /\ Append(priority, PRIORITY) \in Seq(PriorityItems)
    BY <1>2, AppendElements DEF Types
  <2> QED
    BY <2>1, <1>3
<1>5. hpc' \in [Opens -> {"none", "gate", "tick", "ended"}]
  BY <1>2 DEF Heartbeat, HeartbeatPassesGate, HeartbeatTicks, Types
<1>6. Types'
  BY <1>1, <1>2, <1>4, <1>5 DEF Types
<1>7. Waits => Waits'
  <2>1. CASE priority' = priority
    BY <2>1 DEF Waits
  <2>2. CASE priority' = Append(priority, PRIORITY)
    BY <2>2, <1>2, StillWaits DEF Types
  <2> QED
    BY <2>1, <2>2, <1>3
<1> QED
  BY <1>1, <1>6, <1>7, AsideKeeps DEF IInv, Fresh, Owned

\* PortRetry keeps the invariant.
LEMMA PortRetryKeeps == ASSUME IInv, PortRetry PROVE IInv'
<1>1. /\ running /\ port' = "up" /\ plugged' = "in"
      /\ UNCHANGED <<tpc, opens, sent, acks, running, priority, tx, wpc, item, rpc, hpc, gate, cpc,
                     hbResponse, configs, faults, written, behind>>
  BY DEF PortRetry, TriesPort, callerVars, threadVars, configVars, historyVars
<1>2. Types'
  BY <1>1 DEF IInv, Types
<1> QED
  BY <1>1, <1>2, AsideKeeps DEF IInv, Fresh, Owned, Waits

\* Config keeps the invariant.
LEMMA ConfigKeeps == ASSUME IInv, Config PROVE IInv'
<1>1. UNCHANGED <<tpc, opens, sent, acks, running, port, tx, wpc, item, rpc, hpc, plugged, faults,
                  written, behind>>
  BY DEF Config, ConfigBegins, ConfigEnters, ConfigRequests, ConfigEnds, callerVars, threadVars,
         radioVars, historyVars
<1>2. Types /\ PRIORITY \in PriorityItems
  BY DEF IInv, PriorityItems
<1>3. CASE ConfigBegins
  <2>1. gate' = FALSE /\ cpc' = "begin" /\ UNCHANGED <<priority, hbResponse>>
    BY <1>3 DEF ConfigBegins
  <2>2. Types'
    BY <2>1, <1>1, <1>2 DEF Types
  <2> QED
    BY <2>1, <2>2, <1>1, AsideKeeps DEF IInv, Fresh, Owned, Waits
<1>4. CASE ConfigEnters \/ ConfigRequests
  <2>1. /\ priority' = Append(priority, PRIORITY)
        /\ cpc # "idle" /\ cpc' \in {"enter", "wait"} /\ UNCHANGED gate
        /\ hbResponse' \in {hbResponse, FALSE}
    BY <1>4 DEF ConfigEnters, ConfigRequests
  <2>2. priority' \in Seq(PriorityItems)
    BY <2>1, <1>2, AppendElements DEF Types
  <2>3. Types'
    BY <2>1, <2>2, <1>1, <1>2 DEF Types
  <2>4. Waits'
    BY <2>1, <1>2, StillWaits DEF Types
  <2> QED
    BY <2>1, <2>3, <2>4, <1>1, AsideKeeps DEF IInv, Fresh, Owned
<1>5. CASE ConfigEnds
  <2>1. cpc' = "idle" /\ gate' = TRUE /\ hbResponse' = FALSE /\ UNCHANGED priority
    BY <1>5 DEF ConfigEnds, GateAfter
  <2>2. Types'
    BY <2>1, <1>1, <1>2 DEF Types
  <2> QED
    BY <2>1, <2>2, <1>1, AsideKeeps DEF IInv, Fresh, Owned, Waits
<1> QED
  BY <1>3, <1>4, <1>5 DEF Config

\* Radio keeps the invariant.
LEMMA RadioKeeps == ASSUME IInv, Unplug \/ Plug PROVE IInv'
<1>1. /\ UNCHANGED <<tpc, opens, sent, acks, running, priority, tx, wpc, item, rpc, hpc, gate, cpc,
                     hbResponse, configs, written, behind>>
      /\ plugged' \in {"out", "in", "moved"} /\ port' \in {port, "broken"}
  BY DEF Unplug, Plug, callerVars, threadVars, configVars, historyVars
<1>2. Types'
  BY <1>1 DEF IInv, Types
<1> QED
  BY <1>1, <1>2, AsideKeeps DEF IInv, Fresh, Owned, Waits

-----------------------------------------------------------------------------
(* The theorems                                                              *)

\* The invariant holds at the start.
LEMMA InitEstablishes == Init => IInv
<1> SUFFICES ASSUME Init PROVE IInv
  OBVIOUS
<1>1. /\ tpc = "closed" /\ opens = 0 /\ sent = 0 /\ acks = 0 /\ running = FALSE /\ port = "none"
      /\ plugged \in {"out", "in"} /\ priority = <<>> /\ tx = <<>> /\ gate = TRUE /\ cpc = "idle"
      /\ hbResponse = FALSE /\ written = 0 /\ behind = 0
  BY DEF Init
<1>2. /\ wpc = [g \in Opens |-> "none"] /\ rpc = [g \in Opens |-> "none"]
      /\ hpc = [g \in Opens |-> "none"] /\ item = [g \in Opens |-> SENTINEL]
  BY DEF Init
<1>3. /\ wpc \in [Opens -> WriterPlaces]
      /\ rpc \in [Opens -> ReaderPlaces]
      /\ hpc \in [Opens -> {"none", "gate", "tick", "ended"}]
      /\ item \in [Opens -> PriorityItems \union Telemetry]
  BY <1>2 DEF PriorityItems, WriterPlaces, ReaderPlaces
<1>4. /\ priority \in Seq(PriorityItems) /\ tx \in Seq(TelemetryItems)
      /\ Len(tx) = 0 /\ Len(priority) = 0
  BY <1>1
<1>5. Types
  <2>1. /\ opens \in 0 .. MaxOpens /\ sent \in 0 .. MaxFrames /\ acks \in 0 .. MaxAcks
        /\ written \in 0 .. MaxFrames /\ behind \in 0 .. 3 /\ Len(tx) <= QueueSize
    BY <1>1, <1>4, Constants
  <2>2. /\ tpc \in {"closed", "open", "closing", "joining"}
        /\ port \in {"none", "up", "broken", "closed"}
        /\ cpc \in {"idle", "begin", "enter", "wait"}
        /\ plugged \in {"out", "in", "moved"}
    BY <1>1
  <2>3. running \in BOOLEAN /\ gate \in BOOLEAN /\ hbResponse \in BOOLEAN
    BY <1>1
  <2> QED
    BY <2>1, <2>2, <2>3, <1>3, <1>4 DEF Types
<1>6. Started
  BY <1>2 DEF Started
<1>7. Fresh /\ Owned /\ PriorityIsNext
  BY <1>1 DEF Fresh, Owned, PriorityIsNext
<1>8. InOrder
  BY <1>1, <1>2, <1>4 DEF InOrder, Ahead
<1> QED
  BY <1>5, <1>6, <1>7, <1>8 DEF IInv

\* Every step of the specification keeps the invariant.
LEMMA NextKeeps == IInv /\ [Next]_vars => IInv'
<1> SUFFICES ASSUME IInv, [Next]_vars PROVE IInv'
  OBVIOUS
<1>1. CASE Open \/ Send \/ Close \/ CloseTx \/ CloseJoin \/ SendPriority
  BY <1>1, OpenKeeps, SendKeeps, CloseKeeps, CloseTxKeeps, CloseJoinKeeps, SendPriorityKeeps
<1>2. CASE \E g \in Opens : Writer(g) \/ Reader(g) \/ Heartbeat(g)
  <2>1. ASSUME NEW g \in Opens, Writer(g) PROVE IInv'
    BY <2>1, WriterTakesPriorityKeeps, WriterTakesTelemetryKeeps, WriterWritesKeeps,
       WriterReconnectsKeeps DEF Writer
  <2> QED
    BY <1>2, <2>1, ReaderKeeps, HeartbeatKeeps
<1>3. CASE PortRetry \/ Config \/ Unplug \/ Plug
  BY <1>3, PortRetryKeeps, ConfigKeeps, RadioKeeps
<1>4. CASE UNCHANGED vars
  <2>1. UNCHANGED <<tpc, opens, sent, acks, running, port, priority, tx, wpc, item, rpc, hpc, gate,
                    cpc, hbResponse, configs, plugged, faults, written,
                    behind>>
    BY <1>4 DEF vars, callerVars, threadVars, configVars, radioVars, historyVars
  <2>2. Types'
    BY <2>1 DEF IInv, Types
  <2> QED
    BY <2>1, <2>2, AsideKeeps DEF IInv, Fresh, Owned, Waits
<1> QED
  BY <1>1, <1>2, <1>3, <1>4 DEF Next

\* The inductive invariant holds in every reachable state.
THEOREM Invariance == Spec => []IInv
BY InitEstablishes, NextKeeps, PTL DEF Spec

\* Queues, events and threads keep their types and bounds, however often the transport is
\* reopened and however many threads of earlier calls of open() are still around.
THEOREM TypeCorrect == Spec => []TypeOK
<1>1. IInv => TypeOK
  BY TypesImply DEF IInv
<1> QED
  BY <1>1, Invariance, PTL

\* Until the transport is reopened, _hb_gate is shut only by a configuration exchange under way
\* or by a thread in _handle_disconnect().
THEOREM GateIsOwned == Spec => [](opens <= 1 => GateHasOwner)
<1>1. IInv => (opens <= 1 => GateHasOwner)
  BY TypesImply DEF IInv, Owned, GateHasOwner
<1> QED
  BY <1>1, Invariance, PTL

\* Until the transport is reopened, at most one telemetry frame is written by _writer_loop()
\* ahead of a frame that waits in the priority queue.
THEOREM PriorityGoesFirst == Spec => [](opens <= 1 => PriorityOvertakesTelemetry)
<1>1. IInv => (opens <= 1 => PriorityOvertakesTelemetry)
  BY DEF IInv, Types, PriorityIsNext, PriorityOvertakesTelemetry
<1> QED
  BY <1>1, Invariance, PTL

\* What goes out of one open() is new, and was sent: a step of Transport writes nothing, or a
\* frame beyond the last one written.
LEMMA StepOfChannel ==
    ASSUME MaxOpens = 1, IInv, [Next]_vars
    PROVE  [Channel!Next]_(Channel!vars)
<1>1. Types /\ InOrder
  BY Constants DEF IInv, Types
<1>2. CASE Send
  <2>1. sent' = sent + 1 /\ written' = written
    BY <1>2 DEF Send, historyVars
  <2> QED
    BY <2>1 DEF Channel!Next, Channel!Send
<1>3. CASE \E g \in Opens : WriterWrites(g)
  <2>1. PICK g \in Opens : WriterWrites(g)
    BY <1>3
  <2>2. wpc[g] = "write" /\ sent' = sent
    BY <2>1 DEF WriterWrites, callerVars
  <2>3. written' = written \/ (item[g] # PRIORITY /\ written' = item[g])
    BY <2>1 DEF WriterWrites, Counted, historyVars
  <2>4. item[g] # PRIORITY => item[g] \in Telemetry
    BY <2>2, <1>1 DEF IInv, Types, Started, PriorityItems
  <2>5. written' = written \/ (written < written' /\ written' <= sent)
    BY <2>2, <2>3, <2>4, <1>1 DEF InOrder
  <2> QED
    BY <2>2, <2>5 DEF Channel!Next, Channel!Deliver, Channel!vars
<1>4. CASE Open \/ Close \/ CloseTx \/ CloseJoin \/ SendPriority \/ PortRetry
  BY <1>4 DEF Open, Close, CloseTx, CloseJoin, SendPriority, PortRetry, callerVars, historyVars,
              Channel!vars
<1>5. CASE Config \/ Unplug \/ Plug \/ UNCHANGED vars
  BY <1>5 DEF Config, ConfigBegins, ConfigEnters, ConfigRequests, ConfigEnds, Unplug, Plug, vars,
              callerVars, historyVars, Channel!vars
<1>6. CASE \E g \in Opens : \/ WriterTakesPriority(g) \/ WriterTakesTelemetry(g)
                            \/ WriterReconnects(g) \/ Reader(g) \/ Heartbeat(g)
  BY <1>6 DEF WriterTakesPriority, WriterTakesTelemetry, WriterReconnects, Reader, ReaderReads,
              ReaderFails, ReaderReconnects, ReaderEnds, Heartbeat, HeartbeatPassesGate,
              HeartbeatTicks, callerVars, historyVars, Channel!vars
<1> QED
  BY <1>2, <1>3, <1>4, <1>5, <1>6 DEF Next, Writer

\* SerialTransport is a lossy channel as long as it is opened once, however many frames are sent
\* and however often the radio is unplugged: the frames of send() go out in order, each at most
\* once.
THEOREM TransportIsAChannel == MaxOpens = 1 => (Spec => ImplementsChannel)
<1> SUFFICES ASSUME MaxOpens = 1 PROVE Spec => ImplementsChannel
  OBVIOUS
<1>1. Init => Channel!Init
  BY DEF Init, Channel!Init
<1>2. IInv /\ [Next]_vars => [Channel!Next]_(Channel!vars)
  BY StepOfChannel
<1> QED
  BY <1>1, <1>2, Invariance, PTL DEF Spec, ImplementsChannel, Channel!Spec

=============================================================================
