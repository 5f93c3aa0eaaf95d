------------------------- MODULE PhotodiodeStream -------------------------
(***************************************************************************)
(* The way of a photodiode sample: PhotodiodeTask acquires it, writes it to *)
(* its log file and appends it to the PhotodiodeSampleBuffer; TelemetryTask *)
(* takes batches out of the buffer and hands them to the transport; the     *)
(* ground receiver labels the samples of a batch and counts what is         *)
(* missing.                                                                 *)
(*                                                                         *)
(* The two tasks are threads that share the buffer, each access one step.   *)
(* An exception in PhotodiodeTask ends its session: the next setup() opens  *)
(* the log anew and numbers the samples from 0, while the buffer lives on.  *)
(* A sample is its number in the session; `id' numbers all samples and is   *)
(* known to nobody.  The radio is external.                                 *)
(***************************************************************************)
EXTENDS Integers, Sequences, SequencesExt

CONSTANTS
    MaxSamples,    \* bound on the samples acquired
    MaxSessions,   \* bound on the log files PhotodiodeTask opens
    BatchSize,     \* photodiode_batch_size
    QueueSize,     \* write_queue_maxsize of the transport
    SeqSize        \* sequence numbers are taken modulo this

ASSUME BoundsAssumption ==
    {MaxSamples, MaxSessions, BatchSize, QueueSize, SeqSize} \subseteq Nat \ {0}

VARIABLES
    apc,        \* PhotodiodeTask: where it is
    session,    \* log files opened so far
    sequence,   \* _next_sequence
    sample,     \* the sample execute() has at hand
    log,        \* the samples in the log file
    buffer,     \* PhotodiodeSampleBuffer
    tpc,        \* TelemetryTask: where it is in _send_photodiode_batch()
    batch,      \* the samples it has peeked
    link,       \* frames between send() and the ground receiver
    prev,       \* ground: _photodiode_sample_prev
    missing,    \* ground: samples reported as missing, in all
    acquired,   \* history: samples acquired so far
    kept,       \* history: those that were appended to the buffer
    handed,     \* history: those that were handed to the transport
    first,      \* history: the first one the ground got
    last,       \* history: the last one
    received    \* history: how many

acquisitionVars == <<apc, session, sequence, sample, log, acquired>>
telemetryVars == <<tpc, batch, handed>>
groundVars == <<prev, missing, first, last, received>>
vars == <<acquisitionVars, buffer, kept, telemetryVars, link, groundVars>>

None == -1
NoSample == [id |-> 0, seq |-> 0, session |-> 0]

Init ==
    /\ apc = "setup" /\ session = 0 /\ sequence = 0 /\ sample = NoSample
    /\ log = {}
    /\ buffer = <<>> /\ kept = {}
    /\ tpc = "peek" /\ batch = <<>> /\ handed = {}
    /\ link = <<>>
    /\ prev = None /\ missing = 0
    /\ acquired = 0 /\ first = 0 /\ last = 0 /\ received = 0

-----------------------------------------------------------------------------
(* PhotodiodeTask                                                            *)

\* The log file is opened for writing: what it held is gone.
Setup ==
    /\ apc = "setup"
    /\ session < MaxSessions
    /\ session' = session + 1
    /\ log' = {}
    /\ sequence' = 0
    /\ apc' = "read"
    /\ UNCHANGED <<sample, acquired, buffer, kept, telemetryVars, link, groundVars>>

\* The readout is not there, or the header cannot be written to a log file just opened.
SetupFails ==
    /\ apc = "setup"
    /\ \/ UNCHANGED <<session, log>>
       \/ session < MaxSessions /\ session' = session + 1 /\ log' = {}
    /\ UNCHANGED <<apc, sequence, sample, acquired, buffer, kept, telemetryVars, link, groundVars>>

\* Both codes are read; a conversion that fails is a flag of the sample, not an error.
Acquire ==
    /\ apc = "read"
    /\ acquired < MaxSamples
    /\ acquired' = acquired + 1
    /\ sample' = [id |-> acquired', seq |-> sequence, session |-> session]
    /\ sequence' = (sequence + 1) % SeqSize
    /\ apc' = "log"
    /\ UNCHANGED <<session, log, buffer, kept, telemetryVars, link, groundVars>>

WriteLog ==
    /\ apc = "log"
    /\ log' = log \union {sample.id}
    /\ apc' = "append"
    /\ UNCHANGED <<session, sequence, sample, acquired, buffer, kept, telemetryVars, link,
                   groundVars>>

AfterLogError == "teardown"

LogFails ==
    /\ apc = "log"
    /\ apc' = AfterLogError
    /\ UNCHANGED <<session, sequence, sample, log, acquired, buffer, kept, telemetryVars, link,
                   groundVars>>

AppendSample ==
    /\ apc = "append"
    /\ buffer' = Append(buffer, sample)
    /\ kept' = kept \union {sample.id}
    /\ apc' = "finish"
    /\ UNCHANGED <<session, sequence, sample, log, acquired, telemetryVars, link, groundVars>>

\* Temperatures, flush and metrics; the next cycle.
Finish ==
    /\ apc = "finish"
    /\ apc' = "read"
    /\ UNCHANGED <<session, sequence, sample, log, acquired, buffer, kept, telemetryVars, link,
                   groundVars>>

\* The readout raises, or does not take its signal inputs back after the temperatures.
ExecuteFails ==
    /\ apc \in {"read", "finish"}
    /\ apc' = "teardown"
    /\ UNCHANGED <<session, sequence, sample, log, acquired, buffer, kept, telemetryVars, link,
                   groundVars>>

Teardown ==
    /\ apc = "teardown"
    /\ apc' = "setup"
    /\ UNCHANGED <<session, sequence, sample, log, acquired, buffer, kept, telemetryVars, link,
                   groundVars>>

Acquisition ==
    \/ Setup \/ SetupFails \/ Acquire \/ WriteLog \/ LogFails \/ AppendSample \/ Finish
    \/ ExecuteFails \/ Teardown

-----------------------------------------------------------------------------
(* TelemetryTask._send_photodiode_batch()                                    *)

\* Mutant: it waits for a full batch.
PeekedWhenFull == IF Len(buffer) < BatchSize THEN <<>> ELSE SubSeq(buffer, 1, BatchSize)

Peeked == SubSeq(buffer, 1, IF Len(buffer) < BatchSize THEN Len(buffer) ELSE BatchSize)

PeekBatch ==
    /\ tpc = "peek"
    /\ Peeked # <<>>
    /\ batch' = Peeked
    /\ tpc' = "send"
    /\ UNCHANGED <<acquisitionVars, buffer, kept, handed, link, groundVars>>

\* Of the sequence numbers, a frame carries that of its first sample only.  send() drops the
\* oldest frame of a full queue.
SendBatch ==
    /\ tpc = "send"
    /\ link' = Append(IF Len(link) < QueueSize THEN link ELSE Tail(link), batch)
    /\ handed' = handed \union {s.id : s \in ToSet(batch)}
    /\ tpc' = "discard"
    /\ UNCHANGED <<acquisitionVars, buffer, kept, batch, groundVars>>

\* Mutants: what was appended since the peek goes as well; one sample too few goes.
RemainingNone == <<>>

RemainingOverlap == SubSeq(buffer, Len(batch), Len(buffer))

\* As many samples go as were peeked, from the front.
Remaining == SubSeq(buffer, Len(batch) + 1, Len(buffer))

Discard ==
    /\ tpc = "discard"
    /\ buffer' = Remaining
    /\ batch' = <<>>
    /\ tpc' = "peek"
    /\ UNCHANGED <<acquisitionVars, kept, handed, link, groundVars>>

Telemetry == PeekBatch \/ SendBatch \/ Discard

-----------------------------------------------------------------------------
(* The radio and the ground receiver                                         *)

LoseFrame ==
    /\ link # <<>>
    /\ link' = Tail(link)
    /\ UNCHANGED <<acquisitionVars, buffer, kept, telemetryVars, groundVars>>

\* Mutant: the sum is not masked.
LabelUnmasked(frame, i) == frame[1].seq + i - 1

\* The number the receiver gives to the sample at position i.
Label(frame, i) == (frame[1].seq + i - 1) % SeqSize

\* How many samples are reported as missing before the label.
Gap(label) == IF prev = None THEN 0 ELSE (label - ((prev + 1) % SeqSize)) % SeqSize

ReceiveBatch ==
    /\ link # <<>>
    /\ link' = Tail(link)
    /\ LET frame == Head(link)
       IN  /\ missing' = missing + Gap(Label(frame, 1))
           /\ prev' = Label(frame, Len(frame))
           /\ first' = IF received = 0 THEN frame[1].id ELSE first
           /\ last' = frame[Len(frame)].id
           /\ received' = received + Len(frame)
    /\ UNCHANGED <<acquisitionVars, buffer, kept, telemetryVars>>

-----------------------------------------------------------------------------

Next == Acquisition \/ Telemetry \/ LoseFrame \/ ReceiveBatch

\* TelemetryTask runs periodically.  Nothing more: the readout may fail for ever, and the
\* radio may lose every frame.
Spec == Init /\ [][Next]_vars /\ WF_vars(Telemetry)

-----------------------------------------------------------------------------
(* Properties                                                                *)

Samples == [id : 0 .. MaxSamples, seq : 0 .. SeqSize - 1, session : 0 .. MaxSessions]

\* Every sequence number stays within its width, in the buffer, on the link and at the ground.
TypeOK ==
    /\ apc \in {"setup", "read", "log", "append", "finish", "teardown"}
    /\ session \in 0 .. MaxSessions /\ sequence \in 0 .. SeqSize - 1
    /\ sample \in Samples
    /\ log \subseteq 1 .. MaxSamples
    /\ \A s \in ToSet(buffer) \union ToSet(batch) : s \in Samples
    /\ tpc \in {"peek", "send", "discard"} /\ Len(batch) <= BatchSize
    /\ Len(link) <= QueueSize
    /\ prev \in {None} \union (0 .. SeqSize - 1)
    /\ missing \in 0 .. MaxSamples * SeqSize
    /\ handed \subseteq kept /\ kept \subseteq 1 .. acquired

\* "No samples are intentionally dropped here": what was appended has been handed to the
\* transport or is still in the buffer, although samples are appended between a peek and its
\* discard, and sessions end with samples in the buffer. What is lost behind that, within the
\* first session, the ground reports exactly, across the wrap of the counter.
NoSampleDropped ==
    /\ TypeOK
    /\ kept = handed \union {s.id : s \in ToSet(buffer)}
    /\ session <= 1 /\ received > 0 => missing = last - first + 1 - received

\* "Local recording always happens before a sample becomes eligible for TX": a sample of the
\* running session that anybody can send is in the log, whatever fails in which order, and
\* the batch that carries it is labelled with the number it has there; only a batch that
\* spans a restart of PhotodiodeTask is not.
SentAsRecorded ==
    /\ \A s \in ToSet(buffer) \union ToSet(batch) : s.session = session => s.id \in log
    /\ \A frame \in ToSet(link) : \A i \in DOMAIN frame :
          Label(frame, i) = frame[i].seq \/ frame[i].session # frame[1].session

\* Frames may be lost, but the ground gets each sample at most once and in the order of
\* acquisition: a batch starts behind the last sample received, across restarts as well.
EachSampleOnce ==
    [][received' # received => Head(link)[1].id > last]_vars

\* Every sample that is appended is handed to the transport in the end.
SamplesAreSent == \A n \in 1 .. MaxSamples : n \in kept ~> n \in handed
=============================================================================
