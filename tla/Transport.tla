----------------------------- MODULE Transport -----------------------------
(***************************************************************************)
(* telemetry/transport.py: SerialTransport, with its writer, reader,        *)
(* heartbeat and port retry threads, TelemetryTask that opens, feeds and    *)
(* closes it, and RadioConfigTask that reads the modem's configuration      *)
(* through it.  Every access to a queue, the gate or the port that another   *)
(* thread can see is one step.                                              *)
(*                                                                         *)
(* open() can be called again after close(): when the execute() of          *)
(* TelemetryTask raises, its teardown() closes the transport and its setup()*)
(* reopens it.  The queues live on, and so may threads: only the writer is  *)
(* joined, for three seconds.  g numbers the calls of open().               *)
(*                                                                         *)
(* The modem and the plug are external.  The bytes of a frame do not matter *)
(* here: telemetry frames are numbered from 1, the others are below.  Nor   *)
(* does what the modem answers, and when: every wait for it ends with an    *)
(* answer or without.                                                       *)
(***************************************************************************)
EXTENDS Integers, Sequences

CONSTANTS
    MaxOpens,     \* bound on the calls of open()
    MaxFrames,    \* bound on the telemetry frames sent
    MaxAcks,      \* bound on the ACKs sent
    MaxFaults,    \* bound on how often the radio is unplugged
    MaxConfigs,   \* bound on the calls of read_config() and write_config()
    MaxEvents,    \* bound on all of these and the calls of close() together
    QueueSize,    \* write_queue_maxsize
    MaxPriority   \* bound on _priority_queue where heartbeats are concerned

ASSUME BoundsAssumption ==
    /\ {MaxOpens, QueueSize, MaxPriority} \subseteq Nat \ {0}
    /\ {MaxFrames, MaxAcks, MaxFaults, MaxConfigs, MaxEvents} \subseteq Nat

Opens == 1 .. MaxOpens

\* What else a queue may hold: the sentinel of close() and, in the priority queue, ACKs,
\* keepalives, 0x1E heartbeats and configuration requests, which are not told apart.
SENTINEL == 0
PRIORITY == -1

VARIABLES
    tpc,         \* TelemetryTask: where it is with the transport
    opens,       \* calls of open() so far
    running,     \* _running
    port,        \* _serial: "none", "up", "broken" (an error is due) or "closed"
    plugged,     \* the radio: "out", "in" under the name self.port, or "moved" to another one
    priority,    \* _priority_queue
    tx,          \* _tx_queue
    wpc,         \* writer threads
    item,        \* what each of them is about to write
    rpc,         \* reader threads
    hpc,         \* heartbeat threads
    gate,        \* _hb_gate
    cpc,         \* read_config() or write_config(): where RadioConfigTask is
    hbResponse,  \* _hb_response
    faults,      \* unplugged so far
    configs,     \* read_config() calls so far
    sent,        \* telemetry frames sent so far
    acks,        \* ACKs sent so far
    written,     \* history: the last telemetry frame that went out
    behind       \* history: telemetry written since the writer last took a priority frame,
                 \* while one was waiting

callerVars == <<tpc, opens, sent, acks>>
threadVars == <<wpc, item, rpc, hpc>>
configVars == <<cpc, hbResponse, configs>>
radioVars == <<plugged, faults>>
historyVars == <<written, behind>>
vars == <<callerVars, running, port, priority, tx, threadVars, gate, configVars, radioVars,
          historyVars>>

Init ==
    /\ tpc = "closed" /\ opens = 0 /\ sent = 0 /\ acks = 0
    /\ running = FALSE
    /\ port = "none"
    /\ plugged \in {"out", "in"}
    /\ priority = <<>> /\ tx = <<>>
    /\ wpc = [g \in Opens |-> "none"]
    /\ item = [g \in Opens |-> SENTINEL]
    /\ rpc = [g \in Opens |-> "none"]
    /\ hpc = [g \in Opens |-> "none"]
    /\ gate = TRUE
    /\ cpc = "idle" /\ hbResponse = FALSE /\ configs = 0
    /\ faults = 0
    /\ written = 0 /\ behind = 0

\* The frames, ACKs, faults, exchanges and calls of close() so far.
Events == sent + acks + faults + configs + opens - (IF tpc = "open" THEN 1 ELSE 0)

-----------------------------------------------------------------------------
(* TelemetryTask: setup(), execute(), teardown()                             *)

\* _try_open_serial() asks port_resolver first, which finds the radio under whatever name it
\* has (telemetry.port = "auto" in settings.toml), and remembers the name in self.port.
TriesPort ==
    IF plugged = "out" THEN port' = "none" /\ UNCHANGED plugged
    ELSE port' = "up" /\ plugged' = "in"

Open ==
    /\ tpc = "closed"
    /\ opens < MaxOpens
    /\ tpc' = "open"
    /\ opens' = opens + 1
    /\ TriesPort
    /\ running' = TRUE
    /\ wpc' = [wpc EXCEPT ![opens'] = "priority"]
    /\ rpc' = [rpc EXCEPT ![opens'] = "read"]
    /\ hpc' = [hpc EXCEPT ![opens'] = "gate"]
    /\ UNCHANGED <<sent, acks, priority, tx, item, gate, configVars, faults, historyVars>>

\* send() drops the oldest frame when the queue is full; a stale sentinel can be that.
Room(q) == IF Len(q) < QueueSize THEN q ELSE Tail(q)

Send ==
    /\ tpc = "open"
    /\ sent < MaxFrames /\ Events < MaxEvents
    /\ sent' = sent + 1
    /\ tx' = Append(Room(tx), sent')
    /\ UNCHANGED <<tpc, opens, acks, running, port, priority, threadVars, gate, configVars,
                   radioVars, historyVars>>

\* close(): the sentinel of the priority queue first.
Close ==
    /\ tpc = "open"
    /\ Events < MaxEvents
    /\ running' = FALSE
    /\ priority' = Append(priority, SENTINEL)
    /\ tpc' = "closing"
    /\ UNCHANGED <<opens, sent, acks, port, tx, threadVars, gate, configVars, radioVars,
                   historyVars>>

\* put() blocks while the telemetry queue is full.
CloseTx ==
    /\ tpc = "closing"
    /\ Len(tx) < QueueSize
    /\ tx' = Append(tx, SENTINEL)
    /\ tpc' = "joining"
    /\ UNCHANGED <<opens, sent, acks, running, port, priority, threadVars, gate, configVars,
                   radioVars, historyVars>>

ClosesPort == port' = IF port = "none" THEN "none" ELSE "closed"

\* The join times out when the writer sleeps in _handle_disconnect().  The last keepalive
\* goes past the queue.
CloseJoin ==
    /\ tpc = "joining"
    /\ wpc[opens] \in {"ended", "sleep", "waking"}
    /\ ClosesPort
    /\ tpc' = "closed"
    /\ UNCHANGED <<opens, sent, acks, running, priority, tx, threadVars, gate, configVars,
                   radioVars, historyVars>>

\* CommandReceiverTask answers a command, whatever the transport does.
SendPriority ==
    /\ acks < MaxAcks /\ Events < MaxEvents
    /\ acks' = acks + 1
    /\ priority' = Append(priority, PRIORITY)
    /\ UNCHANGED <<tpc, opens, sent, running, port, tx, threadVars, gate, configVars,
                   radioVars, historyVars>>

-----------------------------------------------------------------------------
(* _handle_disconnect(), called by a writer or a reader                      *)

\* Where a thread is in it: about to close the port after an error, to hold the heartbeats, in
\* its sleep, at the end of its sleep, about to release the heartbeats.
Disconnected == {"failed", "hold", "sleep", "waking", "release"}

Dead == port \in {"broken", "closed"}

\* A sleep lasts a second or more: long enough for every other thread to get through what it
\* does between an error, a sleep and a read, and for a reader on a dead port to meet an
\* error, since its reads last 0.05 s.  What happens while a thread wakes up has no such time.
Settled ==
    \A g \in Opens : /\ {wpc[g], rpc[g]} \cap {"failed", "hold", "release"} = {}
                     /\ ~(rpc[g] = "read" /\ running /\ Dead)

TryAgain(top) == IF running THEN "sleep" ELSE top

\* One step of a thread at `at', after which it is at `next'; top is where its loop goes on.
\* The port that is closed is the one in _serial by now, perhaps opened by the other thread
\* meanwhile; the one that is opened has the name in self.port, and port_resolver is not
\* asked.  A sleeping thread opens it even if the transport has been closed meanwhile.
HandleDisconnect(at, next, top) ==
    \/ at = "failed" /\ next = "hold" /\ ClosesPort /\ UNCHANGED gate
    \/ at = "hold" /\ next = TryAgain(top) /\ gate' = FALSE /\ UNCHANGED port
    \/ at = "sleep" /\ Settled /\ next = "waking" /\ UNCHANGED <<port, gate>>
    \/ at = "waking" /\ plugged = "in" /\ next = "release" /\ port' = "up" /\ UNCHANGED gate
    \/ at = "waking" /\ plugged # "in" /\ next = TryAgain(top) /\ UNCHANGED <<port, gate>>
    \/ at = "release" /\ next = top /\ gate' = TRUE /\ UNCHANGED port

-----------------------------------------------------------------------------
(* _writer_loop()                                                            *)

Goto(g, label) == wpc' = [wpc EXCEPT ![g] = label]

\* The priority queue is looked at first; a sentinel of either queue ends the thread.
WriterTakesPriority(g) ==
    /\ wpc[g] = "priority"
    /\ IF priority = <<>>
       THEN Goto(g, "tx") /\ UNCHANGED <<priority, item, behind>>
       ELSE /\ priority' = Tail(priority)
            /\ item' = [item EXCEPT ![g] = Head(priority)]
            /\ Goto(g, IF Head(priority) = SENTINEL THEN "ended" ELSE "write")
            /\ behind' = 0
    /\ UNCHANGED <<callerVars, running, port, tx, rpc, hpc, gate, configVars, radioVars, written>>

WriterTakesTelemetry(g) ==
    /\ wpc[g] = "tx"
    /\ IF tx = <<>>
       THEN Goto(g, "priority") /\ UNCHANGED <<tx, item>>
       ELSE /\ tx' = Tail(tx)
            /\ item' = [item EXCEPT ![g] = Head(tx)]
            /\ Goto(g, IF Head(tx) = SENTINEL THEN "ended" ELSE "write")
    /\ UNCHANGED <<callerVars, running, port, priority, rpc, hpc, gate, configVars, radioVars,
                   historyVars>>

\* Mutants: the next frame is telemetry again while there is some; a frame that could not
\* be written is sent again.
LoopTopTelemetry == IF tx # <<>> THEN "tx" ELSE "priority"

LoopTop == "priority"

RequeuedAtEnd(f) == IF f = PRIORITY THEN tx ELSE Append(tx, f)

Requeued(f) == tx

\* Telemetry counts as written when it goes to the tee only, too.
Counted(f) ==
    IF f = PRIORITY THEN UNCHANGED historyVars
    ELSE /\ written' = f
         /\ behind' = IF behind < 3 /\ priority # <<>> THEN behind + 1 ELSE behind

WriterWrites(g) ==
    /\ wpc[g] = "write"
    /\ IF Dead
       THEN /\ Goto(g, "failed")
            /\ tx' = Requeued(item[g])
            /\ UNCHANGED historyVars
       ELSE /\ Goto(g, LoopTop)
            /\ Counted(item[g])
            /\ UNCHANGED tx
    /\ item' = [item EXCEPT ![g] = SENTINEL]
    /\ UNCHANGED <<callerVars, running, port, priority, rpc, hpc, gate, configVars, radioVars>>

WriterReconnects(g) ==
    /\ \E next \in Disconnected \union {LoopTop} :
         HandleDisconnect(wpc[g], next, LoopTop) /\ Goto(g, next)
    /\ UNCHANGED <<callerVars, running, priority, tx, item, rpc, hpc, configVars, radioVars,
                   historyVars>>

Writer(g) ==
    WriterTakesPriority(g) \/ WriterTakesTelemetry(g) \/ WriterWrites(g) \/ WriterReconnects(g)

-----------------------------------------------------------------------------
(* _reader_loop() and _on_lr_frame()                                         *)

\* An answer of the modem counts while read_config() waits for one.
OnLrFrame == cpc = "enter" /\ hbResponse' = TRUE

ReaderReads(g) ==
    /\ rpc[g] = "read"
    /\ running
    /\ port = "up"
    /\ OnLrFrame
    /\ UNCHANGED <<callerVars, running, port, priority, tx, threadVars, gate, cpc, configs,
                   radioVars, historyVars>>

ReaderFails(g) ==
    /\ rpc[g] = "read"
    /\ running
    /\ Dead
    /\ rpc' = [rpc EXCEPT ![g] = "failed"]
    /\ UNCHANGED <<callerVars, running, port, priority, tx, wpc, item, hpc, gate, configVars,
                   radioVars, historyVars>>

ReaderReconnects(g) ==
    /\ \E next \in Disconnected \union {"read"} :
         /\ HandleDisconnect(rpc[g], next, "read")
         /\ rpc' = [rpc EXCEPT ![g] = next]
    /\ UNCHANGED <<callerVars, running, priority, tx, wpc, item, hpc, configVars, radioVars,
                   historyVars>>

ReaderEnds(g) ==
    /\ rpc[g] = "read"
    /\ ~running
    /\ rpc' = [rpc EXCEPT ![g] = "ended"]
    /\ UNCHANGED <<callerVars, running, port, priority, tx, wpc, item, hpc, gate, configVars,
                   radioVars, historyVars>>

Reader(g) ==
    ReaderReads(g) \/ ReaderFails(g) \/ ReaderReconnects(g) \/ ReaderEnds(g)

-----------------------------------------------------------------------------
(* _heartbeat_loop() and _port_retry_loop()                                  *)

HeartbeatPassesGate(g) ==
    /\ hpc[g] = "gate"
    /\ gate
    /\ hpc' = [hpc EXCEPT ![g] = "tick"]
    /\ UNCHANGED <<callerVars, running, port, priority, tx, wpc, item, rpc, gate, configVars,
                   radioVars, historyVars>>

\* A heartbeat is due or not; after that `while self._running' is looked at.
HeartbeatTicks(g) ==
    /\ hpc[g] = "tick"
    /\ \/ UNCHANGED priority
       \/ /\ port # "none"
          /\ Len(priority) < MaxPriority
          /\ priority' = Append(priority, PRIORITY)
    /\ hpc' = [hpc EXCEPT ![g] = IF running THEN "gate" ELSE "ended"]
    /\ UNCHANGED <<callerVars, running, port, tx, wpc, item, rpc, gate, configVars, radioVars,
                   historyVars>>

Heartbeat(g) == HeartbeatPassesGate(g) \/ HeartbeatTicks(g)

\* Mutant: only a port that was lost is tried again, one that was not there is not.
MissingOnceOpened == port = "closed"

Missing == port = "none"

PortRetry ==
    /\ running
    /\ Missing
    /\ plugged # "out"
    /\ TriesPort
    /\ UNCHANGED <<callerVars, running, priority, tx, threadVars, gate, configVars,
                   faults, historyVars>>

-----------------------------------------------------------------------------
(* read_config() and write_config(), in the thread of RadioConfigTask         *)

ConfigBegins ==
    /\ cpc = "idle"
    /\ configs < MaxConfigs /\ Events < MaxEvents
    /\ configs' = configs + 1
    /\ gate' = FALSE
    /\ cpc' = "begin"
    /\ UNCHANGED <<callerVars, running, port, priority, tx, threadVars, hbResponse, radioVars,
                   historyVars>>

ConfigEnters ==
    /\ cpc = "begin"
    /\ hbResponse' = FALSE
    /\ priority' = Append(priority, PRIORITY)
    /\ cpc' = "enter"
    /\ UNCHANGED <<callerVars, running, port, tx, threadVars, gate, configs, radioVars,
                   historyVars>>

ConfigRequests ==
    /\ cpc = "enter"
    /\ hbResponse
    /\ priority' = Append(priority, PRIORITY)
    /\ cpc' = "wait"
    /\ UNCHANGED <<callerVars, running, port, tx, threadVars, gate, hbResponse, configs,
                   radioVars, historyVars>>

\* Mutant: the early return forgets the finally clause.
GateAfterKept == IF cpc = "enter" THEN gate ELSE TRUE

GateAfter == TRUE

\* Answered, or timed out in either wait; `finally' opens the gate.  _hb_response is cleared
\* before it is waited for again, so it is cleared here.
ConfigEnds ==
    /\ cpc \in {"enter", "wait"}
    /\ cpc' = "idle"
    /\ gate' = GateAfter
    /\ hbResponse' = FALSE
    /\ UNCHANGED <<callerVars, running, port, priority, tx, threadVars, configs, radioVars,
                   historyVars>>

Config == ConfigBegins \/ ConfigEnters \/ ConfigRequests \/ ConfigEnds

-----------------------------------------------------------------------------
(* The radio                                                                 *)

Unplug ==
    /\ plugged # "out"
    /\ faults < MaxFaults /\ Events < MaxEvents
    /\ faults' = faults + 1
    /\ plugged' = "out"
    /\ port' = IF port = "up" THEN "broken" ELSE port
    /\ UNCHANGED <<callerVars, running, priority, tx, threadVars, gate, configVars, historyVars>>

\* The system may give the radio another name than before.
Plug ==
    /\ plugged = "out"
    /\ plugged' \in {"in", "moved"}
    /\ UNCHANGED <<callerVars, running, port, priority, tx, threadVars, gate, configVars,
                   faults, historyVars>>

-----------------------------------------------------------------------------

Next ==
    \/ Open \/ Send \/ Close \/ CloseTx \/ CloseJoin \/ SendPriority
    \/ \E g \in Opens : Writer(g) \/ Reader(g) \/ Heartbeat(g)
    \/ PortRetry
    \/ Config
    \/ Unplug \/ Plug

\* The threads that matter to the port run.  Nobody is obliged to open, close or send, nor the
\* radio to be there.
Fairness ==
    /\ \A g \in Opens : WF_vars(Writer(g)) /\ WF_vars(Reader(g))
    /\ WF_vars(PortRetry)

Spec == Init /\ [][Next]_vars /\ Fairness

-----------------------------------------------------------------------------
(* Properties                                                                *)

\* Every queue, event and thread keeps its type, and the queues their bounds.
TypeOK ==
    /\ tpc \in {"closed", "open", "closing", "joining"}
    /\ opens \in 0 .. MaxOpens /\ sent \in 0 .. MaxFrames /\ acks \in 0 .. MaxAcks
    /\ running \in BOOLEAN /\ plugged \in {"out", "in", "moved"} /\ gate \in BOOLEAN
    /\ port \in {"none", "up", "broken", "closed"}
    /\ \A i \in DOMAIN priority : priority[i] \in {PRIORITY, SENTINEL}
    /\ Len(tx) <= QueueSize
    /\ \A i \in DOMAIN tx : tx[i] \in {SENTINEL} \union (1 .. MaxFrames)
    /\ \A g \in Opens :
         /\ wpc[g] \in {"none", "priority", "tx", "write", "ended"} \union Disconnected
         /\ rpc[g] \in {"none", "read", "ended"} \union Disconnected
         /\ hpc[g] \in {"none", "gate", "tick", "ended"}
         /\ wpc[g] = "write" => item[g] \in {PRIORITY} \union (1 .. MaxFrames)
    /\ cpc \in {"idle", "begin", "enter", "wait"}
    /\ hbResponse \in BOOLEAN
    /\ written \in 0 .. MaxFrames /\ behind \in 0 .. 3

Channel == INSTANCE LossyChannel WITH delivered <- written

\* Until the transport is reopened, telemetry goes through a lossy channel: in order, each
\* frame at most once, through drops, disconnections and reconnections.
ImplementsChannel == Channel!Spec

\* At most one telemetry frame goes out while an ACK, a heartbeat or a configuration request
\* is waiting: the one the writer had in hand or was about to take.
PriorityOvertakesTelemetry == behind <= 1

\* Between holding the heartbeats and releasing them.
Holding == {"sleep", "waking", "release"}

\* Heartbeats are held back only by a configuration exchange or by a thread that is
\* reconnecting: the two users of the gate never leave it shut between them.
GateHasOwner ==
    /\ TypeOK
    /\ running /\ ~gate => cpc # "idle" \/ \E g \in Opens : {wpc[g], rpc[g]} \cap Holding # {}

\* A radio that is there can be found: under any name before the port is opened for the first
\* time, and under the name it had from then on.
Findable == plugged = "in" \/ (plugged = "moved" /\ port = "none")

\* When the radio stays where it can be found, the port comes up and stays up, although the
\* writer and the reader both reopen it, and one may close what the other has opened.
PortRecovers == (<>[](Findable /\ tpc = "open")) => <>[](port = "up")

\* "A radio plugged in after startup is picked up without a restart" (_port_retry_loop()): under
\* any name, also when it had been opened before.
PortRecoversAnywhere == (<>[](plugged # "out" /\ tpc = "open")) => <>[](port = "up")

\* "Three daemon threads run while open": there is a writer.
WriterRunsWhileOpen ==
    tpc = "open" => \E g \in Opens : wpc[g] \notin {"none", "ended"}

\* "Unblock the writer and let it drain before we close the port": close() comes back,
\* if it goes on whenever it can.
ClosingSpec == Spec /\ WF_vars(CloseTx) /\ WF_vars(CloseJoin)

CloseReturns == (tpc = "closing") ~> (tpc = "closed")
=============================================================================
