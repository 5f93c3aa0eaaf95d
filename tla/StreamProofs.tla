---------------------------- MODULE StreamProofs ----------------------------
(***************************************************************************)
(* Proofs about the two streams that the ground receiver numbers and checks  *)
(* for gaps.                                                                 *)
(*                                                                         *)
(* PhotodiodeStream: for any number of samples and sessions, any size of the *)
(* batches and of the transport's queue, and sequence numbers of any width.  *)
(*                                                                         *)
(* FrameStream: for any sources and frames, any bytes lost or corrupted, and *)
(* sequence numbers of any width.                                            *)
(***************************************************************************)
EXTENDS PhotodiodeStream, FrameStream, SequenceTheorems, FiniteSetTheorems, TLAPS

-----------------------------------------------------------------------------
(* PhotodiodeStream: the inductive invariant                                 *)

Acquiring == apc \in {"log", "append"}

\* PhotodiodeTask is between its setup() and the error that ends its session.
InSession == apc \in {"read", "log", "append", "finish"}

\* The samples up to this one have been appended, or never will be.
Done == IF Acquiring THEN acquired - 1 ELSE acquired

\* The number of the next sample to be appended.
NextNumber == IF Acquiring THEN sample.seq ELSE sequence

Ids(q) == {q[i].id : i \in 1 .. Len(q)}

\* The samples of q are in the order of acquisition, and numbered without a gap as long as no
\* restart lies between them.
Consistent(q) ==
    \A i, j \in 1 .. Len(q) : i < j =>
        /\ q[j].id >= q[i].id + (j - i)
        /\ q[i].session = q[j].session => q[j].seq = (q[i].seq + (j - i)) % SeqSize

\* The samples of q are all those between its first and its last, of the first session.
Consecutive(q) ==
    \A i \in 1 .. Len(q) :
        /\ q[i].seq = (q[i].id - 1) % SeqSize
        /\ q[i].session = 1
        /\ \A j \in 1 .. Len(q) : q[j].id = q[i].id + (j - i)

\* TypeOK with the domains of its sequences.
Types ==
    /\ apc \in {"setup", "read", "log", "append", "finish", "teardown"}
    /\ session \in 0 .. MaxSessions /\ sequence \in 0 .. SeqSize - 1
    /\ sample \in Samples /\ acquired \in 0 .. MaxSamples
    /\ log \subseteq 1 .. MaxSamples
    /\ buffer \in Seq(Samples) /\ batch \in Seq(Samples) /\ Len(batch) <= BatchSize
    /\ link \in Seq(Seq(Samples)) /\ Len(link) <= QueueSize
    /\ tpc \in {"peek", "send", "discard"}
    /\ prev \in {None} \union (0 .. SeqSize - 1)
    /\ missing \in Nat /\ first \in Nat /\ last \in Nat /\ received \in Nat

\* What PhotodiodeTask has at hand, and what it has appended before.
Acquired ==
    /\ apc # "setup" => session >= 1
    /\ session = 0 => acquired = 0
    /\ Acquiring => /\ sample.id = acquired /\ acquired >= 1 /\ sample.session = session
                    /\ sequence = (sample.seq + 1) % SeqSize
    /\ apc = "append" => sample.id \in log
    /\ kept \subseteq 1 .. Done

\* The samples in the buffer are in the log, if it is still that of their session.
Recorded ==
    \A i \in 1 .. Len(buffer) :
        /\ 1 <= buffer[i].session /\ buffer[i].session <= session
        /\ buffer[i].session = session => buffer[i].id \in log

\* The next sample continues the numbers of the buffer.
Numbered ==
    InSession =>
        \A i \in 1 .. Len(buffer) :
            buffer[i].session = session =>
                NextNumber = (buffer[i].seq + (Len(buffer) + 1 - i)) % SeqSize

\* The batch is the front of the buffer, and what is not handed over is behind what is.
Batched ==
    /\ Consistent(buffer)
    /\ kept = handed \union Ids(buffer)
    /\ tpc = "peek" => batch = <<>>
    /\ tpc # "peek" =>
          /\ batch # <<>> /\ Len(batch) <= Len(buffer)
          /\ \A i \in 1 .. Len(batch) : batch[i] = buffer[i]
    /\ tpc = "discard" => \A i \in 1 .. Len(batch) : buffer[i].id \in handed
    /\ \A n \in handed : \A i \in 1 .. Len(buffer) :
          (tpc = "discard" => i > Len(batch)) => n < buffer[i].id

\* The samples of the frames q are among those of ids and come after the sample n, in order.
InOrder(q, ids, n) ==
    /\ \A k \in 1 .. Len(q) :
          /\ q[k] # <<>> /\ Consistent(q[k])
          /\ \A m \in 1 .. Len(q[k]) : q[k][m].id \in ids /\ n < q[k][m].id
    /\ \A k, l \in 1 .. Len(q) : k < l =>
          \A m \in 1 .. Len(q[k]), p \in 1 .. Len(q[l]) : q[k][m].id < q[l][p].id

\* The frames on the link are new to the ground.
OnLink == InOrder(link, handed, last) /\ last \in handed \union {0}

\* The ground's counters.
Counted ==
    /\ received = 0 => prev = None /\ missing = 0
    /\ received > 0 => prev # None
    /\ received <= last
    /\ missing <= received * SeqSize

\* In the first session a sample's number follows from its id, and so does what is missing,
\* as long as no two samples between which others can be missing have the same number.
FirstSession ==
    session <= 1 =>
        /\ InSession => /\ NextNumber = Done % SeqSize
                        /\ \A i \in 1 .. Len(buffer) : buffer[i].id = Done - Len(buffer) + i
        /\ Consecutive(buffer)
        /\ \A k \in 1 .. Len(link) : Consecutive(link[k])
        /\ received > 0 =>
              /\ prev = (last - 1) % SeqSize
              /\ MaxSamples <= SeqSize + 1 => missing = last - first + 1 - received

\* The inductive invariant.
IInv ==
    Types /\ Acquired /\ Recorded /\ Numbered /\ Batched /\ OnLink /\ Counted /\ FirstSession

-----------------------------------------------------------------------------
(* Sequence numbers                                                          *)

\* Division with remainder, which the next lemmas rest on.
LEMMA Division ==
    ASSUME NEW x \in Int, NEW S \in Nat \ {0}
    PROVE  x = S * (x \div S) + (x % S) /\ x \div S \in Int /\ x % S \in 0 .. S - 1
BY SMTT(30)

\* A remainder is determined by its quotient.
LEMMA Remainder ==
    ASSUME NEW x \in Int, NEW S \in Nat \ {0}, NEW q \in Int, NEW r \in 0 .. S - 1, x = S * q + r
    PROVE  x % S = r
BY SMTT(30)

\* Counting on from a number that has wrapped.
LEMMA NextOfWrapped ==
    ASSUME NEW x \in Int, NEW S \in Nat \ {0}
    PROVE  ((x % S) + 1) % S = (x + 1) % S
<1>1. PICK q \in Int, r \in 0 .. S - 1 : x = S * q + r /\ x % S = r
  BY Division
<1>2. CASE r + 1 < S
  <2>1. r + 1 \in 0 .. S - 1 /\ x + 1 = S * q + (r + 1) /\ x + 1 \in Int
    BY <1>1, <1>2
  <2>2. (x + 1) % S = r + 1
    BY <2>1, Remainder
  <2>3. (r + 1) % S = r + 1
    BY <2>1
  <2> QED
    BY <2>2, <2>3, <1>1
<1>3. CASE r + 1 = S
  <2>1. /\ x + 1 = S * (q + 1) + 0 /\ x + 1 \in Int /\ q + 1 \in Int
        /\ S = S * 1 + 0 /\ S \in Int /\ 0 \in 0 .. S - 1
    BY <1>1, <1>3
  <2>2. (x + 1) % S = 0
    BY <2>1, Remainder
  <2>3. S % S = 0
    BY <2>1, Remainder
  <2> QED
    BY <1>1, <1>3, <2>2, <2>3
<1> QED
  BY <1>1, <1>2, <1>3

\* The distance of two numbers that have wrapped, when it is less than the width.
LEMMA DistanceOfWrapped ==
    ASSUME NEW x \in Int, NEW y \in Int, NEW S \in Nat \ {0}, x - y \in 0 .. S - 1
    PROVE  ((x % S) - (y % S)) % S = x - y
<1>1. PICK q \in Int, r \in 0 .. S - 1 : x = S * q + r /\ x % S = r
  BY Division
<1>2. PICK p \in Int, s \in 0 .. S - 1 : y = S * p + s /\ y % S = s
  BY Division
<1>3. r - s = S * (p - q) + (x - y) /\ p - q \in Int /\ r - s \in Int
  BY <1>1, <1>2
<1>4. (r - s) % S = x - y
  BY <1>3, Remainder
<1> QED
  BY <1>1, <1>2, <1>4

\* The constants bound what they are meant to bound.
LEMMA Constants ==
    /\ MaxSamples \in Nat /\ MaxSessions \in Nat /\ BatchSize \in Nat \ {0}
    /\ QueueSize \in Nat \ {0} /\ SeqSize \in Nat \ {0}
BY BoundsAssumption

\* The number of a sample that comes k + 1 places after one with number n.
LEMMA OneFurther ==
    ASSUME NEW n \in Nat, NEW k \in Nat, NEW m, m = (n + k) % SeqSize
    PROVE  (m + 1) % SeqSize = (n + (k + 1)) % SeqSize
<1>1. (m + 1) % SeqSize = ((n + k) + 1) % SeqSize
  <2>1. n + k \in Int
    OBVIOUS
  <2> QED
    BY <2>1, Constants, NextOfWrapped
<1>2. (n + k) + 1 = n + (k + 1)
  OBVIOUS
<1> QED
  BY <1>1, <1>2

\* A number that is within its width is not changed by wrapping it.
LEMMA WithinWidth == ASSUME NEW n \in 0 .. SeqSize - 1 PROVE n % SeqSize = n
BY Constants, SMT

-----------------------------------------------------------------------------
(* Queues                                                                    *)

\* What Append() does to a sequence, element by element.
LEMMA AppendElements ==
    ASSUME NEW S, NEW q \in Seq(S), NEW e \in S
    PROVE  /\ Append(q, e) \in Seq(S) /\ Len(Append(q, e)) = Len(q) + 1 /\ Len(q) \in Nat
           /\ \A i \in 1 .. Len(q) : Append(q, e)[i] = q[i]
           /\ Append(q, e)[Len(q) + 1] = e
BY AppendProperties

\* What taking the head off a sequence does to it, element by element.
LEMMA TailElements ==
    ASSUME NEW S, NEW q \in Seq(S), q # <<>>
    PROVE  /\ Head(q) \in S /\ Head(q) = q[1]
           /\ Tail(q) \in Seq(S) /\ Len(Tail(q)) = Len(q) - 1 /\ Len(q) \in Nat \ {0}
           /\ \A i \in 1 .. Len(q) - 1 : Tail(q)[i] = q[i + 1]
BY SMT

\* A part of a sequence, element by element.
LEMMA PartElements ==
    ASSUME NEW S, NEW q \in Seq(S), NEW d \in Nat, NEW n \in Nat, d <= n, n <= Len(q)
    PROVE  /\ SubSeq(q, d + 1, n) \in Seq(S) /\ Len(SubSeq(q, d + 1, n)) = n - d
           /\ \A i \in 1 .. n - d : SubSeq(q, d + 1, n)[i] = q[i + d]
<1>1. \A i \in d + 1 .. n : q[i] \in S
  OBVIOUS
<1>2. /\ SubSeq(q, d + 1, n) \in Seq(S)
      /\ Len(SubSeq(q, d + 1, n)) = IF d + 1 <= n THEN n - (d + 1) + 1 ELSE 0
      /\ \A i \in 1 .. n - (d + 1) + 1 : SubSeq(q, d + 1, n)[i] = q[d + 1 + i - 1]
  BY <1>1, SubSeqProperties
<1>3. Len(SubSeq(q, d + 1, n)) = n - d
  BY <1>2
<1>4. ASSUME NEW i \in 1 .. n - d PROVE SubSeq(q, d + 1, n)[i] = q[i + d]
  BY <1>2
<1> QED
  BY <1>2, <1>3, <1>4

\* A part of a consistent sequence is consistent, and of a consecutive one consecutive.
LEMMA PartConsistent ==
    ASSUME NEW q \in Seq(Samples), NEW p \in Seq(Samples), NEW d \in Nat, Len(p) + d <= Len(q),
           \A i \in 1 .. Len(p) : p[i] = q[i + d]
    PROVE  /\ Consistent(q) => Consistent(p)
           /\ Consecutive(q) => Consecutive(p)
<1>1. \A i \in 1 .. Len(p) : i + d \in 1 .. Len(q)
  OBVIOUS
<1>2. \A i, j \in 1 .. Len(p) : (j + d) - (i + d) = j - i /\ (i < j => i + d < j + d)
  OBVIOUS
<1>3. ASSUME Consistent(q), NEW i \in 1 .. Len(p), NEW j \in 1 .. Len(p), i < j
      PROVE  /\ p[j].id >= p[i].id + (j - i)
             /\ p[i].session = p[j].session => p[j].seq = (p[i].seq + (j - i)) % SeqSize
  <2>1. /\ q[j + d].id >= q[i + d].id + ((j + d) - (i + d))
        /\ q[i + d].session = q[j + d].session =>
              q[j + d].seq = (q[i + d].seq + ((j + d) - (i + d))) % SeqSize
    BY <1>1, <1>2, <1>3 DEF Consistent
  <2> QED
    BY <2>1, <1>2
<1>4. ASSUME Consecutive(q), NEW i \in 1 .. Len(p)
      PROVE  /\ p[i].seq = (p[i].id - 1) % SeqSize /\ p[i].session = 1
             /\ \A j \in 1 .. Len(p) : p[j].id = p[i].id + (j - i)
  <2>1. /\ q[i + d].seq = (q[i + d].id - 1) % SeqSize /\ q[i + d].session = 1
        /\ \A j \in 1 .. Len(p) : q[j + d].id = q[i + d].id + ((j + d) - (i + d))
    BY <1>1, <1>4 DEF Consecutive
  <2> QED
    BY <2>1, <1>2
<1> QED
  BY <1>3, <1>4 DEF Consistent, Consecutive

\* Frames that follow others in a queue are in the order in which they were there.
LEMMA PartInOrder ==
    ASSUME NEW q, NEW p, NEW d \in Nat, NEW ids, NEW n, InOrder(q, ids, n),
           Len(p) \in Nat, Len(q) \in Nat, Len(p) + d <= Len(q),
           \A k \in 1 .. Len(p) : p[k] = q[k + d]
    PROVE  InOrder(p, ids, n)
<1>1. \A k \in 1 .. Len(p) : k + d \in 1 .. Len(q)
  OBVIOUS
<1>2. \A k, l \in 1 .. Len(p) : k < l => k + d < l + d
  OBVIOUS
<1> QED
  BY <1>1, <1>2 DEF InOrder

\* In a consistent frame of one session, the ground's labels are the numbers of the samples.
LEMMA LabelsAreNumbers ==
    ASSUME NEW frame \in Seq(Samples), Consistent(frame), NEW i \in 1 .. Len(frame),
           frame[i].session = frame[1].session
    PROVE  Label(frame, i) = frame[i].seq
<1>1. 1 \in 1 .. Len(frame) /\ frame[1] \in Samples /\ frame[i] \in Samples
  OBVIOUS
<1>2. frame[1].seq \in 0 .. SeqSize - 1 /\ frame[1].seq \in Nat
  <2>1. frame[1].seq \in 0 .. SeqSize - 1
    BY <1>1 DEF Samples
  <2> QED
    BY <2>1, Constants
<1>3. CASE i = 1
  <2>1. frame[1].seq + i - 1 = frame[1].seq
    BY <1>2, <1>3
  <2> QED
    BY <2>1, <1>2, <1>3, WithinWidth DEF Label
<1>4. CASE i # 1
  <2>1. frame[i].seq = (frame[1].seq + (i - 1)) % SeqSize
    BY <1>1, <1>4 DEF Consistent
  <2>2. frame[1].seq + (i - 1) = frame[1].seq + i - 1
    BY <1>2
  <2> QED
    BY <2>1, <2>2 DEF Label
<1> QED
  BY <1>3, <1>4

-----------------------------------------------------------------------------
(* PhotodiodeTask                                                            *)

\* What PhotodiodeTask leaves alone, but for the append.
Others == <<tpc, batch, handed, link, prev, missing, first, last, received>>

\* A step of PhotodiodeTask that appends nothing.
LEMMA NothingAppended ==
    ASSUME IInv, UNCHANGED <<buffer, kept, Others>>, Types', Acquired', Recorded', Numbered',
           FirstSession'
    PROVE  IInv'
<1>1. UNCHANGED <<buffer, kept, tpc, batch, handed, link, prev, missing, first, last, received>>
  BY DEF Others
<1>2. Batched' /\ OnLink' /\ Counted'
  BY <1>1 DEF IInv, Batched, OnLink, Counted, Consistent, Ids
<1> QED
  BY <1>2 DEF IInv

\* A step within a session that appends nothing keeps what is known of the next sample.
LEMMA NextSampleKept ==
    ASSUME IInv, UNCHANGED <<buffer, link, prev, missing, first, last, received, session>>,
           InSession' => InSession /\ NextNumber' = NextNumber /\ Done' = Done
    PROVE  Numbered' /\ FirstSession'
<1>1. Numbered'
  BY DEF IInv, Numbered
<1>2. FirstSession'
  BY DEF IInv, FirstSession, Consecutive
<1> QED
  BY <1>1, <1>2

\* The samples of the buffer, and what their sessions can be.
LEMMA SamplesOfBuffer ==
    ASSUME IInv, NEW i \in 1 .. Len(buffer)
    PROVE  /\ buffer[i] \in Samples /\ buffer[i].id \in Nat /\ buffer[i].seq \in 0 .. SeqSize - 1
           /\ buffer[i].session \in Nat /\ 1 <= buffer[i].session /\ buffer[i].session <= session
<1>1. buffer[i] \in Samples
  BY DEF IInv, Types
<1>2. 1 <= buffer[i].session /\ buffer[i].session <= session
  BY DEF IInv, Recorded
<1> QED
  BY <1>1, <1>2, Constants DEF Samples

\* Setup keeps the invariant.
LEMMA SetupKeeps == ASSUME IInv, Setup PROVE IInv'
<1>1. /\ apc = "setup" /\ session < MaxSessions /\ session' = session + 1 /\ log' = {}
      /\ sequence' = 0 /\ apc' = "read"
      /\ UNCHANGED <<sample, acquired, buffer, kept, tpc, batch, handed, link, prev, missing, first,
                     last, received>>
  BY DEF Setup, telemetryVars, groundVars
<1>2. Types /\ Acquired /\ Recorded /\ FirstSession
  BY DEF IInv
<1>3. session \in Nat /\ session' \in 0 .. MaxSessions /\ 0 \in 0 .. SeqSize - 1
  BY <1>1, <1>2, Constants DEF Types
<1>4. Types'
  BY <1>1, <1>2, <1>3 DEF Types
<1>5. Acquired'
  BY <1>1, <1>2, <1>3 DEF Acquired, Acquiring, Done
<1>6. \A i \in 1 .. Len(buffer) :
          1 <= buffer[i].session /\ buffer[i].session <= session /\ buffer[i].session \in Nat
  BY SamplesOfBuffer
<1>7. \A i \in 1 .. Len(buffer) : buffer[i].session < session'
  BY <1>1, <1>3, <1>6
<1>8. Recorded' /\ Numbered'
  BY <1>1, <1>3, <1>6, <1>7 DEF Recorded, Numbered
<1>9. FirstSession'
  <2> SUFFICES ASSUME session' <= 1 PROVE FirstSession'
    BY DEF FirstSession
  <2>1. session = 0 /\ session <= 1 /\ acquired = 0
    BY <1>1, <1>2, <1>3 DEF Acquired
  <2>2. \A i \in 1 .. Len(buffer) : FALSE
    BY <2>1, <1>6
  <2>3. NextNumber' = 0 /\ Done' = 0 /\ 0 % SeqSize = 0
    BY <2>1, <1>1, <1>3, WithinWidth DEF NextNumber, Done, Acquiring
  <2> QED
    BY <2>1, <2>2, <2>3, <1>1, <1>2 DEF FirstSession, Consecutive
<1> QED
  BY <1>1, <1>4, <1>5, <1>8, <1>9, NothingAppended DEF Others

\* SetupFails keeps the invariant.
LEMMA SetupFailsKeeps == ASSUME IInv, SetupFails PROVE IInv'
<1>1. /\ apc = "setup" /\ apc' = "setup"
      /\ \/ session' = session /\ log' = log
         \/ session' = session + 1 /\ log' = {} /\ session < MaxSessions
      /\ UNCHANGED <<sequence, sample, acquired, buffer, kept, tpc, batch, handed, link, prev,
                     missing, first, last, received>>
  BY DEF SetupFails, telemetryVars, groundVars
<1>2. Types /\ Acquired /\ Recorded /\ FirstSession
  BY DEF IInv
<1>3. session \in Nat /\ session' \in 0 .. MaxSessions /\ session <= session'
  BY <1>1, <1>2, Constants DEF Types
<1>4. Types'
  BY <1>1, <1>2, <1>3 DEF Types
<1>5. Acquired'
  BY <1>1, <1>2, <1>3 DEF Acquired, Acquiring, Done
<1>6. \A i \in 1 .. Len(buffer) :
          1 <= buffer[i].session /\ buffer[i].session <= session /\ buffer[i].session \in Nat
  BY SamplesOfBuffer
<1>7. Recorded'
  BY <1>1, <1>2, <1>3, <1>6 DEF Recorded
<1>8. Numbered'
  BY <1>1 DEF Numbered, InSession
<1>9. FirstSession'
  BY <1>1, <1>2, <1>3 DEF FirstSession, InSession, Consecutive
<1> QED
  BY <1>1, <1>4, <1>5, <1>7, <1>8, <1>9, NothingAppended DEF Others

\* Acquire keeps the invariant.
LEMMA AcquireKeeps == ASSUME IInv, Acquire PROVE IInv'
<1>1. /\ apc = "read" /\ apc' = "log" /\ acquired < MaxSamples /\ acquired' = acquired + 1
      /\ sample' = [id |-> acquired + 1, seq |-> sequence, session |-> session]
      /\ sequence' = (sequence + 1) % SeqSize
      /\ UNCHANGED <<session, log, buffer, kept, tpc, batch, handed, link, prev, missing, first,
                     last, received>>
  BY DEF Acquire, telemetryVars, groundVars
<1>2. Types /\ Acquired /\ Recorded
  BY DEF IInv
<1>3. acquired \in Nat /\ acquired' \in 0 .. MaxSamples /\ sequence \in Nat
  BY <1>1, <1>2, Constants DEF Types
<1>4. sequence' \in 0 .. SeqSize - 1
  BY <1>1, <1>3, Constants, Division
<1>5. sample' \in Samples
  BY <1>1, <1>2, <1>3 DEF Types, Samples
<1>6. Types'
  BY <1>1, <1>2, <1>3, <1>4, <1>5 DEF Types
<1>7. Done' = Done /\ Done = acquired /\ NextNumber' = NextNumber
  BY <1>1, <1>3 DEF Done, NextNumber, Acquiring
<1>8. Acquired'
  BY <1>1, <1>2, <1>3, <1>7 DEF Acquired, Acquiring
<1>9. Recorded'
  BY <1>1, <1>2 DEF Recorded
<1>10. Numbered' /\ FirstSession'
  BY <1>1, <1>7, NextSampleKept DEF InSession
<1> QED
  BY <1>1, <1>6, <1>8, <1>9, <1>10, NothingAppended DEF Others

\* WriteLog keeps the invariant.
LEMMA WriteLogKeeps == ASSUME IInv, WriteLog PROVE IInv'
<1>1. /\ apc = "log" /\ apc' = "append" /\ log' = log \union {sample.id}
      /\ UNCHANGED <<session, sequence, sample, acquired, buffer, kept, tpc, batch, handed, link,
                     prev, missing, first, last, received>>
  BY DEF WriteLog, telemetryVars, groundVars
<1>2. Types /\ Acquired /\ Recorded
  BY DEF IInv
<1>3. sample.id \in 1 .. MaxSamples
  BY <1>1, <1>2 DEF Types, Acquired, Acquiring
<1>4. Types'
  BY <1>1, <1>2, <1>3 DEF Types
<1>5. Done' = Done /\ NextNumber' = NextNumber
  BY <1>1 DEF Done, NextNumber, Acquiring
<1>6. Acquired'
  BY <1>1, <1>2, <1>5 DEF Acquired, Acquiring
<1>7. Recorded'
  BY <1>1, <1>2 DEF Recorded
<1>8. Numbered' /\ FirstSession'
  BY <1>1, <1>5, NextSampleKept DEF InSession
<1> QED
  BY <1>1, <1>4, <1>6, <1>7, <1>8, NothingAppended DEF Others

\* The other steps only move on: within the session, to its end, and to the next setup().
LEMMA MovesOnKeeps ==
    ASSUME IInv, LogFails \/ Finish \/ ExecuteFails \/ Teardown PROVE IInv'
<1>1. /\ apc' \in {"read", "setup", "teardown"}
      /\ apc' = "read" => apc = "finish"
      /\ apc # "setup"
      /\ UNCHANGED <<session, sequence, sample, log, acquired, buffer, kept, tpc, batch, handed,
                     link, prev, missing, first, last, received>>
  BY DEF LogFails, AfterLogError, Finish, ExecuteFails, Teardown, telemetryVars, groundVars
<1>2. Types /\ Acquired /\ Recorded
  BY DEF IInv
<1>3. Types'
  BY <1>1, <1>2 DEF Types
<1>4. acquired \in Nat /\ Done <= Done' /\ Done \in Int /\ Done' \in Int
  BY <1>1, <1>2 DEF Types, Done, Acquiring
<1>5. Acquired'
  BY <1>1, <1>2, <1>4 DEF Acquired, Acquiring
<1>6. Recorded'
  BY <1>1, <1>2 DEF Recorded
<1>7. apc' = "read" => Done' = Done /\ NextNumber' = NextNumber
  BY <1>1 DEF Done, NextNumber, Acquiring
<1>8. Numbered' /\ FirstSession'
  BY <1>1, <1>7, NextSampleKept DEF InSession
<1> QED
  BY <1>1, <1>3, <1>5, <1>6, <1>8, NothingAppended DEF Others

\* AppendSample keeps the invariant.
LEMMA AppendSampleKeeps == ASSUME IInv, AppendSample PROVE IInv'
<1>1. /\ apc = "append" /\ apc' = "finish" /\ buffer' = Append(buffer, sample)
      /\ kept' = kept \union {sample.id}
      /\ UNCHANGED <<session, sequence, sample, log, acquired, tpc, batch, handed, link, prev,
                     missing, first, last, received>>
  BY DEF AppendSample, telemetryVars, groundVars
<1>2. Types /\ Acquired /\ Recorded /\ Numbered /\ Batched /\ FirstSession
  BY DEF IInv
<1>3. /\ acquired \in Nat /\ acquired >= 1 /\ sample.id = acquired /\ sample.session = session
      /\ sample.id \in log /\ session >= 1 /\ session \in Nat
      /\ sequence = (sample.seq + 1) % SeqSize /\ sample.seq \in Nat /\ sample \in Samples
  BY <1>1, <1>2, Constants DEF Types, Acquired, Acquiring, Samples
<1>4. Done = acquired - 1 /\ Done' = acquired /\ NextNumber = sample.seq /\ NextNumber' = sequence
      /\ InSession /\ InSession'
  BY <1>1 DEF Done, NextNumber, Acquiring, InSession
<1>5. /\ buffer' \in Seq(Samples) /\ Len(buffer') = Len(buffer) + 1 /\ Len(buffer) \in Nat
      /\ \A i \in 1 .. Len(buffer) : buffer'[i] = buffer[i]
      /\ buffer'[Len(buffer) + 1] = sample
  BY <1>1, <1>2, <1>3, AppendElements DEF Types
<1>6. \A i \in 1 .. Len(buffer') : \/ i \in 1 .. Len(buffer) /\ buffer'[i] = buffer[i]
                                   \/ i = Len(buffer) + 1 /\ buffer'[i] = sample
  BY <1>5
<1>7. Ids(buffer') = Ids(buffer) \union {sample.id}
  BY <1>5, <1>6 DEF Ids
<1>8. \A n \in kept : n < acquired
  BY <1>2, <1>3, <1>4 DEF Acquired
<1>9. \A i \in 1 .. Len(buffer) : buffer[i].id < acquired
  BY <1>2, <1>8 DEF Batched, Ids
<1>10. Types'
  BY <1>1, <1>2, <1>5 DEF Types
<1>11. Acquired'
  BY <1>1, <1>2, <1>3, <1>4 DEF Acquired, Acquiring
<1>12. Recorded'
  BY <1>1, <1>2, <1>3, <1>6 DEF Recorded
<1>13. Numbered'
  <2>1. ASSUME NEW i \in 1 .. Len(buffer'), buffer'[i].session = session
        PROVE  sequence = (buffer'[i].seq + (Len(buffer') + 1 - i)) % SeqSize
    <3>1. CASE i \in 1 .. Len(buffer) /\ buffer'[i] = buffer[i]
      <4>1. sample.seq = (buffer[i].seq + (Len(buffer) + 1 - i)) % SeqSize
        BY <2>1, <3>1, <1>2, <1>4 DEF Numbered
      <4>2. buffer[i].seq \in Nat /\ Len(buffer) + 1 - i \in Nat
            /\ (Len(buffer) + 1 - i) + 1 = Len(buffer') + 1 - i
        BY <3>1, <1>5, SamplesOfBuffer, Constants
      <4>3. (sample.seq + 1) % SeqSize = (buffer[i].seq + ((Len(buffer) + 1 - i) + 1)) % SeqSize
        BY <4>1, <4>2, OneFurther
      <4> QED
        BY <4>2, <4>3, <3>1, <1>3
    <3>2. CASE i = Len(buffer) + 1 /\ buffer'[i] = sample
      <4>1. Len(buffer') + 1 - i = 1
        BY <3>2, <1>5
      <4> QED
        BY <4>1, <3>2, <1>3
    <3> QED
      BY <3>1, <3>2, <1>6
  <2> QED
    BY <2>1, <1>1, <1>4 DEF Numbered
<1>14. Consistent(buffer)'
  <2> SUFFICES ASSUME NEW i \in 1 .. Len(buffer'), NEW j \in 1 .. Len(buffer'), i < j
               PROVE  /\ buffer'[j].id >= buffer'[i].id + (j - i)
                      /\ buffer'[i].session = buffer'[j].session =>
                            buffer'[j].seq = (buffer'[i].seq + (j - i)) % SeqSize
    BY DEF Consistent
  <2>1. i \in 1 .. Len(buffer) /\ buffer'[i] = buffer[i]
    BY <1>5, <1>6
  <2>2. CASE j \in 1 .. Len(buffer) /\ buffer'[j] = buffer[j]
    BY <2>1, <2>2, <1>2 DEF Batched, Consistent
  <2>3. CASE j = Len(buffer) + 1 /\ buffer'[j] = sample
    <3>1. sample.id >= buffer[i].id + (j - i)
      <4>1. CASE i = Len(buffer)
        BY <4>1, <2>1, <2>3, <1>3, <1>9, SamplesOfBuffer
      <4>2. CASE i # Len(buffer)
        <5>1. buffer[Len(buffer)].id >= buffer[i].id + (Len(buffer) - i)
              /\ Len(buffer) \in 1 .. Len(buffer)
          BY <4>2, <2>1, <1>2, <1>5 DEF Batched, Consistent
        <5>2. buffer[Len(buffer)].id < acquired
          BY <5>1, <1>9
        <5> QED
          <6>1. buffer[i].id \in Nat /\ buffer[Len(buffer)].id \in Nat
            BY <5>1, <2>1, SamplesOfBuffer
          <6> QED
            BY <6>1, <5>1, <5>2, <2>1, <2>3, <1>3, <1>5
      <4> QED
        BY <4>1, <4>2
    <3>2. buffer[i].session = session => sample.seq = (buffer[i].seq + (Len(buffer) + 1 - i)) % SeqSize
      BY <2>1, <1>2, <1>4 DEF Numbered
    <3> QED
      BY <3>1, <3>2, <2>1, <2>3, <1>3
  <2> QED
    BY <2>2, <2>3, <1>6
<1>15. Batched'
  <2>1. kept' = handed' \union Ids(buffer')
    BY <1>1, <1>2, <1>7 DEF Batched
  <2>2. tpc' # "peek" => /\ batch' # <<>> /\ Len(batch') <= Len(buffer')
                         /\ \A i \in 1 .. Len(batch') : batch'[i] = buffer'[i]
    <3> SUFFICES ASSUME tpc # "peek"
                 PROVE  /\ batch # <<>> /\ Len(batch) <= Len(buffer')
                        /\ \A i \in 1 .. Len(batch) : batch[i] = buffer'[i]
      BY <1>1
    <3>1. /\ batch # <<>> /\ Len(batch) <= Len(buffer) /\ Len(batch) \in Nat
          /\ \A i \in 1 .. Len(batch) : batch[i] = buffer[i] /\ i \in 1 .. Len(buffer)
      BY <1>2, <1>5 DEF Batched, Types
    <3> QED
      BY <3>1, <1>5
  <2>3. tpc' = "discard" => \A i \in 1 .. Len(batch') : buffer'[i].id \in handed'
    <3> SUFFICES ASSUME tpc = "discard", NEW i \in 1 .. Len(batch) PROVE buffer'[i].id \in handed
      BY <1>1
    <3>1. buffer[i].id \in handed /\ i \in 1 .. Len(buffer)
      BY <1>2, <1>5 DEF Batched, Types
    <3> QED
      BY <3>1, <1>5
  <2>4. ASSUME NEW n \in handed, NEW i \in 1 .. Len(buffer'), tpc = "discard" => i > Len(batch)
        PROVE  n < buffer'[i].id
    <3>1. CASE i \in 1 .. Len(buffer) /\ buffer'[i] = buffer[i]
      BY <2>4, <3>1, <1>2 DEF Batched
    <3>2. CASE buffer'[i] = sample
      BY <3>2, <1>2, <1>3, <1>8 DEF Batched
    <3> QED
      BY <3>1, <3>2, <1>6
  <2> QED
    BY <2>1, <2>2, <2>3, <2>4, <1>1, <1>2, <1>14 DEF Batched
<1>16. FirstSession'
  <2> SUFFICES ASSUME session <= 1 PROVE FirstSession'
    BY <1>1 DEF FirstSession
  <2>1. session = 1
    BY <1>3
  <2>2. /\ sample.seq = (acquired - 1) % SeqSize
        /\ \A i \in 1 .. Len(buffer) : buffer[i].id = acquired - 1 - Len(buffer) + i
        /\ Consecutive(buffer)
    BY <1>2, <1>4 DEF FirstSession
  <2>3. NextNumber' = Done' % SeqSize
    <3>1. (sample.seq + 1) % SeqSize = ((acquired - 1) + 1) % SeqSize
      <4>1. acquired - 1 \in Int
        BY <1>3
      <4> QED
        BY <4>1, <2>2, Constants, NextOfWrapped
    <3>2. (acquired - 1) + 1 = acquired
      BY <1>3
    <3> QED
      BY <3>1, <3>2, <1>3, <1>4
  <2>4. \A i \in 1 .. Len(buffer') : buffer'[i].id = Done' - Len(buffer') + i
    <3> SUFFICES ASSUME NEW i \in 1 .. Len(buffer')
                 PROVE  buffer'[i].id = acquired - (Len(buffer) + 1) + i
      BY <1>4, <1>5
    <3>1. CASE i \in 1 .. Len(buffer) /\ buffer'[i] = buffer[i]
      <4>1. buffer[i].id = acquired - 1 - Len(buffer) + i
        BY <3>1, <2>2
      <4> QED
        BY <4>1, <3>1, <1>3, <1>5
    <3>2. CASE i = Len(buffer) + 1 /\ buffer'[i] = sample
      BY <3>2, <1>3, <1>5
    <3> QED
      BY <3>1, <3>2, <1>6
  <2>5. Consecutive(buffer)'
    <3>1. \A i \in 1 .. Len(buffer') :
              buffer'[i].seq = (buffer'[i].id - 1) % SeqSize /\ buffer'[i].session = 1
      BY <2>1, <2>2, <1>3, <1>6 DEF Consecutive
    <3>2. \A i, j \in 1 .. Len(buffer') : buffer'[j].id = buffer'[i].id + (j - i)
      BY <2>4, <1>3, <1>4, <1>5
    <3> QED
      BY <3>1, <3>2 DEF Consecutive
  <2> QED
    BY <2>3, <2>4, <2>5, <1>1, <1>2 DEF FirstSession, Consecutive
<1>17. OnLink' /\ Counted'
  <2>1. OnLink'
    BY <1>1 DEF IInv, OnLink
  <2>2. Counted'
    BY <1>1 DEF IInv, Counted
  <2> QED
    BY <2>1, <2>2
<1> QED
  BY <1>10, <1>11, <1>12, <1>13, <1>15, <1>16, <1>17 DEF IInv

-----------------------------------------------------------------------------
(* TelemetryTask                                                             *)

\* What TelemetryTask and the radio leave alone.
LEMMA AcquisitionKept ==
    ASSUME IInv, UNCHANGED <<acquisitionVars, kept>>
    PROVE  Acquired' /\ Done' = Done /\ NextNumber' = NextNumber /\ InSession' = InSession
<1>1. UNCHANGED <<apc, session, sequence, sample, log, acquired, kept>>
  BY DEF acquisitionVars
<1> QED
  BY <1>1 DEF IInv, Acquired, Done, NextNumber, InSession, Acquiring

\* PeekBatch keeps the invariant.
LEMMA PeekBatchKeeps == ASSUME IInv, PeekBatch PROVE IInv'
<1>1. /\ tpc = "peek" /\ tpc' = "send" /\ Peeked # <<>> /\ batch' = Peeked
      /\ UNCHANGED <<acquisitionVars, apc, session, sequence, sample, log, acquired, buffer, kept,
                     handed, link, prev, missing, first, last, received>>
  BY DEF PeekBatch, acquisitionVars, groundVars
<1>2. Types /\ Recorded /\ Numbered /\ Batched /\ FirstSession
  BY DEF IInv
<1>3. PICK n \in Nat : n <= Len(buffer) /\ n <= BatchSize /\ Peeked = SubSeq(buffer, 1, n)
  <2>1. Len(buffer) \in Nat /\ BatchSize \in Nat
    BY <1>2, Constants DEF Types
  <2> QED
    BY <2>1 DEF Peeked
<1>4. 0 + 1 = 1 /\ n - 0 = n
  OBVIOUS
<1>5. /\ batch' \in Seq(Samples) /\ Len(batch') = n
      /\ \A i \in 1 .. n : batch'[i] = buffer[i]
  <2>1. /\ SubSeq(buffer, 0 + 1, n) \in Seq(Samples) /\ Len(SubSeq(buffer, 0 + 1, n)) = n - 0
        /\ \A i \in 1 .. n - 0 : SubSeq(buffer, 0 + 1, n)[i] = buffer[i + 0]
    BY <1>2, <1>3, PartElements DEF Types
  <2> QED
    BY <2>1, <1>1, <1>3, <1>4
<1>6. Types'
  BY <1>1, <1>2, <1>3, <1>5 DEF Types
<1>7. Acquired' /\ Recorded' /\ Numbered'
  <2>1. Acquired' /\ Done' = Done /\ NextNumber' = NextNumber /\ InSession' = InSession
    BY <1>1, AcquisitionKept
  <2>2. Recorded'
    BY <1>1, <1>2 DEF Recorded
  <2>3. Numbered'
    BY <2>1, <1>1, <1>2 DEF Numbered
  <2> QED
    BY <2>1, <2>2, <2>3
<1>8. Batched'
  <2>1. batch' # <<>> /\ Len(batch') <= Len(buffer')
    BY <1>1, <1>3, <1>5
  <2> QED
    BY <2>1, <1>1, <1>2, <1>5 DEF Batched
<1>9. OnLink' /\ Counted'
  BY <1>1 DEF IInv, OnLink, Counted
<1>10. FirstSession'
  BY <1>1, <1>2, AcquisitionKept DEF FirstSession
<1> QED
  BY <1>6, <1>7, <1>8, <1>9, <1>10 DEF IInv

\* The queue after send() has made room, frame by frame.
Room == IF Len(link) < QueueSize THEN link ELSE Tail(link)

\* The queue of the transport, after it has dropped its oldest frame if it was full.
LEMMA RoomElements ==
    ASSUME Types
    PROVE  /\ Room \in Seq(Seq(Samples)) /\ Len(Room) \in Nat /\ Len(Room) < QueueSize
           /\ \E d \in {0, 1} : /\ Len(Room) + d = Len(link)
                                /\ \A k \in 1 .. Len(Room) : Room[k] = link[k + d]
<1>1. CASE Len(link) < QueueSize
  BY <1>1 DEF Room, Types
<1>2. CASE ~(Len(link) < QueueSize)
  <2>1. link # <<>> /\ Len(link) = QueueSize
    BY <1>2, Constants DEF Types
  <2>2. /\ Tail(link) \in Seq(Seq(Samples)) /\ Len(Tail(link)) = Len(link) - 1
        /\ Len(link) \in Nat \ {0}
        /\ \A i \in 1 .. Len(link) - 1 : Tail(link)[i] = link[i + 1]
    BY <2>1, TailElements DEF Types
  <2>3. Room = Tail(link)
    BY <1>2 DEF Room
  <2> QED
    BY <2>1, <2>2, <2>3
<1> QED
  BY <1>1, <1>2

\* SendBatch keeps the invariant.
LEMMA SendBatchKeeps == ASSUME IInv, SendBatch PROVE IInv'
<1>1. /\ tpc = "send" /\ tpc' = "discard" /\ link' = Append(Room, batch)
      /\ handed' = handed \union {s.id : s \in ToSet(batch)}
      /\ UNCHANGED <<acquisitionVars, apc, session, sequence, sample, log, acquired, buffer, kept,
                     batch, prev, missing, first, last, received>>
  BY DEF SendBatch, Room, acquisitionVars, groundVars
<1>2. Types /\ Acquired /\ Recorded /\ Numbered /\ Batched /\ OnLink /\ Counted /\ FirstSession
  BY DEF IInv
<1>3. /\ batch \in Seq(Samples) /\ buffer \in Seq(Samples) /\ batch # <<>>
      /\ Len(batch) <= Len(buffer) /\ Len(batch) \in Nat /\ Len(buffer) \in Nat
      /\ \A i \in 1 .. Len(batch) : batch[i] = buffer[i] /\ i \in 1 .. Len(buffer)
  BY <1>1, <1>2 DEF Batched, Types
<1>4. handed' = handed \union Ids(batch)
  BY <1>1, <1>3 DEF ToSet, Ids
<1>5. Consistent(batch) /\ (Consecutive(buffer) => Consecutive(batch))
  <2>1. \A i \in 1 .. Len(batch) : batch[i] = buffer[i + 0]
    BY <1>3
  <2>2. Len(batch) + 0 <= Len(buffer) /\ 0 \in Nat
    BY <1>3
  <2> QED
    BY <2>1, <2>2, <1>2, <1>3, PartConsistent DEF Batched
<1>6. PICK d \in {0, 1} : /\ Len(Room) + d = Len(link)
                          /\ \A k \in 1 .. Len(Room) : Room[k] = link[k + d]
  BY <1>2, RoomElements
<1>7. /\ link' \in Seq(Seq(Samples)) /\ Len(link') = Len(Room) + 1 /\ Len(Room) \in Nat
      /\ Len(Room) < QueueSize
      /\ \A k \in 1 .. Len(Room) : link'[k] = Room[k]
      /\ link'[Len(Room) + 1] = batch
  BY <1>1, <1>2, <1>3, RoomElements, AppendElements
<1>8. \A k \in 1 .. Len(link') : \/ k \in 1 .. Len(Room) /\ link'[k] = Room[k]
                                 \/ k = Len(Room) + 1 /\ link'[k] = batch
  BY <1>7
<1>9. Types'
  BY <1>1, <1>2, <1>7, Constants DEF Types
<1>10. Acquired' /\ Recorded' /\ Numbered'
  <2>1. Acquired' /\ Done' = Done /\ NextNumber' = NextNumber /\ InSession' = InSession
    BY <1>1, AcquisitionKept
  <2>2. Recorded'
    BY <1>1, <1>2 DEF Recorded
  <2>3. Numbered'
    BY <2>1, <1>1, <1>2 DEF Numbered
  <2> QED
    BY <2>1, <2>2, <2>3
<1>11. \A n \in handed : \A i \in 1 .. Len(buffer) : n < buffer[i].id
  BY <1>1, <1>2 DEF Batched
<1>12. Batched'
  <2>1. Ids(batch) \subseteq Ids(buffer)
    BY <1>3 DEF Ids
  <2>2. kept' = handed' \union Ids(buffer')
    BY <2>1, <1>1, <1>2, <1>4 DEF Batched
  <2>3. \A i \in 1 .. Len(batch) : buffer[i].id \in handed'
    BY <1>3, <1>4 DEF Ids
  <2>4. ASSUME NEW n \in handed', NEW i \in 1 .. Len(buffer), i > Len(batch)
        PROVE  n < buffer[i].id
    <3>1. CASE n \in handed
      BY <3>1, <1>11
    <3>2. CASE n \in Ids(batch)
      <4>1. PICK m \in 1 .. Len(batch) : n = buffer[m].id
        BY <3>2, <1>3 DEF Ids
      <4>2. m \in 1 .. Len(buffer) /\ m < i /\ m \in Nat /\ i \in Nat
        BY <2>4, <1>3
      <4>3. buffer[i].id >= buffer[m].id + (i - m)
        BY <4>2, <1>2 DEF Batched, Consistent
      <4>4. buffer[i].id \in Nat /\ buffer[m].id \in Nat
        BY <4>2, SamplesOfBuffer
      <4> QED
        BY <4>1, <4>2, <4>3, <4>4
    <3> QED
      BY <3>1, <3>2, <1>4
  <2>5. Consistent(buffer)'
    BY <1>1, <1>2 DEF Batched
  <2> QED
    BY <2>2, <2>3, <2>4, <2>5, <1>1, <1>3 DEF Batched
<1>13. OnLink'
  <2>1. InOrder(Room, handed, last)
    <3>1. Len(Room) + d <= Len(link) /\ Len(link) \in Nat /\ d \in Nat
      BY <1>6, <1>7, <1>2 DEF Types
    <3> QED
      BY <3>1, <1>2, <1>6, <1>7, PartInOrder DEF OnLink
  <2>2. \A m \in 1 .. Len(batch) : batch[m].id \in handed' /\ last < batch[m].id
    <3> SUFFICES ASSUME NEW m \in 1 .. Len(batch)
                 PROVE  batch[m].id \in handed' /\ last < batch[m].id
      OBVIOUS
    <3>1. batch[m].id \in handed'
      BY <1>4 DEF Ids
    <3>2. batch[m] = buffer[m] /\ m \in 1 .. Len(buffer)
      BY <1>3
    <3>3. buffer[m].id \in kept /\ Done \in Int
      BY <3>2, <1>2 DEF Batched, Ids, Done, Types
    <3>4. buffer[m].id > 0
      BY <3>3, <1>2 DEF Acquired
    <3> QED
      BY <3>1, <3>2, <3>4, <1>2, <1>11 DEF OnLink
  <2>3. ASSUME NEW k \in 1 .. Len(link')
        PROVE  /\ link'[k] # <<>> /\ Consistent(link'[k])
               /\ \A m \in 1 .. Len(link'[k]) :
                     link'[k][m].id \in handed' /\ last < link'[k][m].id
    <3>1. CASE k \in 1 .. Len(Room) /\ link'[k] = Room[k]
      BY <3>1, <2>1, <1>4 DEF InOrder
    <3>2. CASE link'[k] = batch
      BY <3>2, <2>2, <1>3, <1>5
    <3> QED
      BY <3>1, <3>2, <1>8
  <2>4. ASSUME NEW k \in 1 .. Len(link'), NEW l \in 1 .. Len(link'), k < l,
               NEW m \in 1 .. Len(link'[k]), NEW p \in 1 .. Len(link'[l])
        PROVE  link'[k][m].id < link'[l][p].id
    <3>1. k \in 1 .. Len(Room) /\ link'[k] = Room[k]
      BY <2>4, <1>7, <1>8
    <3>2. CASE l \in 1 .. Len(Room) /\ link'[l] = Room[l]
      BY <3>1, <3>2, <2>1, <2>4 DEF InOrder
    <3>3. CASE link'[l] = batch
      <4>1. Room[k][m].id \in handed
        BY <3>1, <2>1, <2>4 DEF InOrder
      <4>2. p \in 1 .. Len(buffer) /\ batch[p] = buffer[p]
        BY <3>3, <2>4, <1>3
      <4> QED
        BY <4>1, <4>2, <3>1, <3>3, <1>11
    <3> QED
      BY <3>2, <3>3, <1>8
  <2>5. last' \in handed' \union {0}
    BY <1>1, <1>2 DEF OnLink
  <2> QED
    BY <2>3, <2>4, <2>5, <1>1 DEF OnLink, InOrder
<1>14. Counted'
  BY <1>1, <1>2 DEF Counted
<1>15. FirstSession'
  <2>1. ASSUME session <= 1, NEW k \in 1 .. Len(link') PROVE Consecutive(link'[k])
    <3>1. CASE k \in 1 .. Len(Room) /\ link'[k] = Room[k]
      <4>1. k + d \in 1 .. Len(link) /\ Room[k] = link[k + d]
        BY <3>1, <1>6, <1>7
      <4> QED
        BY <4>1, <3>1, <2>1, <1>2 DEF FirstSession
    <3>2. CASE link'[k] = batch
      BY <3>2, <2>1, <1>2, <1>5 DEF FirstSession
    <3> QED
      BY <3>1, <3>2, <1>8
  <2> QED
    BY <2>1, <1>1, <1>2, AcquisitionKept DEF FirstSession
<1> QED
  BY <1>9, <1>10, <1>12, <1>13, <1>14, <1>15 DEF IInv

\* Discard keeps the invariant.
LEMMA DiscardKeeps == ASSUME IInv, Discard PROVE IInv'
<1>1. /\ tpc = "discard" /\ tpc' = "peek" /\ batch' = <<>>
      /\ buffer' = SubSeq(buffer, Len(batch) + 1, Len(buffer))
      /\ UNCHANGED <<acquisitionVars, apc, session, sequence, sample, log, acquired, kept, handed,
                     link, prev, missing, first, last, received>>
  BY DEF Discard, Remaining, acquisitionVars, groundVars
<1>2. Types /\ Acquired /\ Recorded /\ Numbered /\ Batched /\ FirstSession
  BY DEF IInv
<1> DEFINE d == Len(batch)
<1>3. d \in Nat /\ Len(buffer) \in Nat /\ d <= Len(buffer) /\ buffer \in Seq(Samples)
  BY <1>1, <1>2 DEF Batched, Types
<1>4. /\ buffer' \in Seq(Samples) /\ Len(buffer') = Len(buffer) - d
      /\ \A i \in 1 .. Len(buffer) - d : buffer'[i] = buffer[i + d]
  BY <1>1, <1>3, PartElements
<1> HIDE DEF d
<1>5. \A i \in 1 .. Len(buffer') : /\ i + d \in 1 .. Len(buffer) /\ i + d > d
                                   /\ buffer'[i] = buffer[i + d]
  BY <1>3, <1>4
<1>6. Acquired' /\ Done' = Done /\ NextNumber' = NextNumber /\ InSession' = InSession
  BY <1>1, AcquisitionKept
<1>7. Types'
  <2>1. batch' \in Seq(Samples) /\ Len(batch') <= BatchSize
    BY <1>1, Constants
  <2> QED
    BY <2>1, <1>1, <1>2, <1>4 DEF Types
<1>8. Recorded'
  BY <1>1, <1>2, <1>5 DEF Recorded
<1>9. Numbered'
  <2> SUFFICES ASSUME InSession, NEW i \in 1 .. Len(buffer'), buffer'[i].session = session
               PROVE  NextNumber = (buffer'[i].seq + (Len(buffer') + 1 - i)) % SeqSize
    BY <1>1, <1>6 DEF Numbered
  <2>1. NextNumber = (buffer[i + d].seq + (Len(buffer) + 1 - (i + d))) % SeqSize
    BY <1>2, <1>5 DEF Numbered
  <2>2. Len(buffer) + 1 - (i + d) = Len(buffer') + 1 - i
    BY <1>3, <1>4
  <2> QED
    BY <2>1, <2>2, <1>5
<1>10. Consistent(buffer)' /\ (Consecutive(buffer) => Consecutive(buffer)')
  <2>1. Len(buffer') + d <= Len(buffer)
    BY <1>3, <1>4
  <2>2. /\ Consistent(buffer) => Consistent(buffer')
        /\ Consecutive(buffer) => Consecutive(buffer')
    BY <2>1, <1>3, <1>4, <1>5, PartConsistent
  <2> QED
    BY <2>2, <1>2 DEF Batched, Consistent, Consecutive
<1>11. Batched'
  <2>1. \A i \in 1 .. d : buffer[i].id \in handed
    BY <1>1, <1>2 DEF Batched, d
  <2>2. Ids(buffer') \subseteq Ids(buffer)
    BY <1>5 DEF Ids
  <2>3. ASSUME NEW n \in Ids(buffer) PROVE n \in handed \/ n \in Ids(buffer')
    <3>1. PICK i \in 1 .. Len(buffer) : n = buffer[i].id
      BY <2>3 DEF Ids
    <3>2. CASE i <= d
      <4>1. i \in 1 .. d
        BY <3>2, <1>3
      <4> QED
        BY <4>1, <3>1, <2>1
    <3>3. CASE i > d
      <4>1. i - d \in 1 .. Len(buffer') /\ (i - d) + d = i
        BY <3>3, <1>3, <1>4
      <4> QED
        BY <4>1, <3>1, <1>5 DEF Ids
    <3> QED
      BY <3>2, <3>3, <1>3
  <2>4. kept' = handed' \union Ids(buffer')
    BY <2>2, <2>3, <1>1, <1>2 DEF Batched
  <2>5. \A n \in handed : \A i \in 1 .. Len(buffer') : n < buffer'[i].id
    BY <1>1, <1>2, <1>5 DEF Batched, d
  <2> QED
    BY <2>4, <2>5, <1>1, <1>10 DEF Batched
<1>12. OnLink' /\ Counted'
  BY <1>1 DEF IInv, OnLink, Counted
<1>13. FirstSession'
  <2> SUFFICES ASSUME session <= 1 PROVE FirstSession'
    BY <1>1 DEF FirstSession
  <2>1. ASSUME InSession, NEW i \in 1 .. Len(buffer')
        PROVE  buffer'[i].id = Done - Len(buffer') + i
    <3>1. buffer[i + d].id = Done - Len(buffer) + (i + d) /\ Done \in Int
      BY <2>1, <1>2, <1>5 DEF FirstSession, Done, Types
    <3> QED
      BY <3>1, <1>3, <1>4, <1>5
  <2>2. Consecutive(buffer)'
    BY <1>2, <1>10 DEF FirstSession
  <2> QED
    BY <2>1, <2>2, <1>1, <1>2, <1>6 DEF FirstSession
<1> QED
  BY <1>6, <1>7, <1>8, <1>9, <1>11, <1>12, <1>13 DEF IInv

-----------------------------------------------------------------------------
(* The radio and the ground receiver                                         *)

\* What is true of the frame that is next to leave the link.
LEMMA HeadOfLink ==
    ASSUME IInv, link # <<>>, link' = Tail(link)
    PROVE  /\ Head(link) = link[1] /\ 1 \in 1 .. Len(link)
           /\ Head(link) \in Seq(Samples) /\ Head(link) # <<>> /\ Consistent(Head(link))
           /\ link' \in Seq(Seq(Samples)) /\ Len(link') <= QueueSize
           /\ Len(link) \in Nat /\ Len(link') = Len(link) - 1
           /\ \A k \in 1 .. Len(link') : k + 1 \in 1 .. Len(link) /\ link'[k] = link[k + 1]
           /\ \A n : InOrder(link, handed, n) => InOrder(link', handed, n)
<1>1. Types /\ OnLink
  BY DEF IInv
<1>2. /\ Head(link) \in Seq(Samples) /\ Head(link) = link[1]
      /\ link' \in Seq(Seq(Samples)) /\ Len(link') = Len(link) - 1 /\ Len(link) \in Nat \ {0}
      /\ \A i \in 1 .. Len(link) - 1 : link'[i] = link[i + 1]
  BY <1>1, TailElements DEF Types
<1>3. 1 \in 1 .. Len(link) /\ Len(link') <= QueueSize /\ Len(link') \in Nat
      /\ Len(link') + 1 <= Len(link)
  BY <1>1, <1>2, Constants DEF Types
<1>4. \A k \in 1 .. Len(link') : k + 1 \in 1 .. Len(link) /\ link'[k] = link[k + 1]
  BY <1>2
<1>5. \A n : InOrder(link, handed, n) => InOrder(link', handed, n)
  BY <1>2, <1>3, <1>4, PartInOrder
<1>6. link[1] # <<>> /\ Consistent(link[1])
  BY <1>1, <1>3 DEF OnLink, InOrder
<1> QED
  BY <1>2, <1>3, <1>4, <1>5, <1>6

\* LoseFrame keeps the invariant.
LEMMA LoseFrameKeeps == ASSUME IInv, LoseFrame PROVE IInv'
<1>1. /\ link # <<>> /\ link' = Tail(link)
      /\ UNCHANGED <<acquisitionVars, apc, session, sequence, sample, log, acquired, buffer, kept,
                     tpc, batch, handed, prev, missing, first, last, received>>
  BY DEF LoseFrame, acquisitionVars, telemetryVars, groundVars
<1>2. /\ link' \in Seq(Seq(Samples)) /\ Len(link') <= QueueSize
      /\ \A k \in 1 .. Len(link') : k + 1 \in 1 .. Len(link) /\ link'[k] = link[k + 1]
      /\ \A n : InOrder(link, handed, n) => InOrder(link', handed, n)
  BY <1>1, HeadOfLink
<1>3. Acquired' /\ Done' = Done /\ NextNumber' = NextNumber /\ InSession' = InSession
  BY <1>1, AcquisitionKept
<1>4. Types'
  BY <1>1, <1>2 DEF IInv, Types
<1>5. Recorded' /\ Numbered' /\ Batched' /\ Counted'
  BY <1>1, <1>3 DEF IInv, Recorded, Numbered, Batched, Counted
<1>6. OnLink'
  BY <1>1, <1>2 DEF IInv, OnLink
<1>7. FirstSession'
  BY <1>1, <1>2, <1>3 DEF IInv, FirstSession
<1> QED
  BY <1>3, <1>4, <1>5, <1>6, <1>7 DEF IInv

\* A product that grows by a factor of at least one.
LEMMA OneFactorMore ==
    ASSUME NEW r \in Nat, NEW k \in Nat \ {0}, NEW s \in Nat
    PROVE  r * s + s <= (r + k) * s
<1>1. (r + k) * s = r * s + k * s
  OBVIOUS
<1>2. k * s >= s
  <2>1. k = (k - 1) + 1 /\ k - 1 \in Nat
    OBVIOUS
  <2>2. k * s = (k - 1) * s + s
    BY <2>1
  <2>3. (k - 1) * s >= 0
    BY <2>1
  <2> QED
    BY <2>2, <2>3
<1> QED
  BY <1>1, <1>2

\* ReceiveBatch keeps the invariant.
LEMMA ReceiveBatchKeeps == ASSUME IInv, ReceiveBatch PROVE IInv'
<1> DEFINE frame == Head(link)
           N == Len(frame)
<1>1. /\ link # <<>> /\ link' = Tail(link)
      /\ missing' = missing + Gap(Label(frame, 1))
      /\ prev' = Label(frame, N)
      /\ first' = (IF received = 0 THEN frame[1].id ELSE first)
      /\ last' = frame[N].id
      /\ received' = received + N
      /\ UNCHANGED <<acquisitionVars, apc, session, sequence, sample, log, acquired, buffer, kept,
                     tpc, batch, handed>>
  BY DEF ReceiveBatch, acquisitionVars, telemetryVars
<1>2. Types /\ Acquired /\ Batched /\ OnLink /\ Counted /\ FirstSession
  BY DEF IInv
<1>3. /\ frame = link[1] /\ 1 \in 1 .. Len(link) /\ frame \in Seq(Samples) /\ frame # <<>>
      /\ Consistent(frame) /\ link' \in Seq(Seq(Samples)) /\ Len(link') <= QueueSize
      /\ Len(link) \in Nat /\ Len(link') = Len(link) - 1
      /\ \A k \in 1 .. Len(link') : k + 1 \in 1 .. Len(link) /\ link'[k] = link[k + 1]
  BY <1>1, HeadOfLink
<1>4. InOrder(link', handed, last)
  BY <1>1, <1>2, HeadOfLink DEF OnLink
<1> HIDE DEF frame
<1>5. N \in Nat \ {0} /\ 1 \in 1 .. N /\ N \in 1 .. N
  BY <1>3
<1> HIDE DEF N
<1>6. \A i \in 1 .. N : /\ frame[i] \in Samples /\ frame[i].id \in Nat
                        /\ frame[i].seq \in 0 .. SeqSize - 1 /\ frame[i].seq \in Nat
  <2>1. \A i \in 1 .. N : frame[i] \in Samples
    BY <1>3 DEF N
  <2> QED
    BY <2>1, Constants DEF Samples
<1>7. \A i \in 1 .. N : frame[i].id \in handed /\ last < frame[i].id
  BY <1>2, <1>3 DEF OnLink, InOrder, N
<1>8. frame[N].id >= frame[1].id + (N - 1)
  <2>1. CASE N = 1
    BY <2>1, <1>5, <1>6
  <2>2. CASE N # 1
    <3>1. 1 \in 1 .. Len(frame) /\ N \in 1 .. Len(frame) /\ 1 < N
      <4>1. 1 < N
        BY <2>2, <1>5
      <4>2. Len(frame) = N
        BY DEF N
      <4> QED
        BY <4>1, <4>2, <1>5
    <3> QED
      BY <3>1, <1>3 DEF Consistent
  <2> QED
    BY <2>1, <2>2
<1>9. Label(frame, 1) = frame[1].seq
  <2>1. 1 \in 1 .. Len(frame)
    BY <1>5 DEF N
  <2> QED
    BY <2>1, <1>3, LabelsAreNumbers
<1>10. prev' \in 0 .. SeqSize - 1
  <2>1. frame[1].seq + N - 1 \in Int
    BY <1>5, <1>6
  <2> QED
    BY <2>1, <1>1, Constants, Division DEF Label
<1>11. Gap(Label(frame, 1)) \in 0 .. SeqSize - 1
  <2>1. CASE prev = None
    BY <2>1, Constants DEF Gap
  <2>2. CASE prev # None
    <3>1. prev \in Int /\ frame[1].seq \in Int
      BY <2>2, <1>2, <1>5, <1>6, Constants DEF Types
    <3>2. prev + 1 \in Int /\ (prev + 1) % SeqSize \in Int
      BY <3>1, Constants, Division
    <3>3. frame[1].seq - ((prev + 1) % SeqSize) \in Int
      BY <3>1, <3>2
    <3> QED
      BY <3>3, <2>2, <1>9, Constants, Division DEF Gap
  <2> QED
    BY <2>1, <2>2
<1>12. received \in Nat /\ missing \in Nat /\ last \in Nat /\ first \in Nat
  BY <1>2 DEF Types
<1>13. /\ received' \in Nat /\ received' > 0 /\ last' \in Nat /\ missing' \in Nat /\ first' \in Nat
  BY <1>1, <1>5, <1>6, <1>11, <1>12, Constants
<1>14. Types'
  BY <1>1, <1>2, <1>3, <1>10, <1>13 DEF Types
<1>15. Acquired' /\ Recorded' /\ Numbered' /\ Batched'
  <2>1. Acquired' /\ Done' = Done /\ NextNumber' = NextNumber /\ InSession' = InSession
    BY <1>1, AcquisitionKept
  <2> QED
    BY <2>1, <1>1 DEF IInv, Recorded, Numbered, Batched
<1>16. OnLink'
  <2>1. ASSUME NEW k \in 1 .. Len(link'), NEW m \in 1 .. Len(link'[k])
        PROVE  last' < link'[k][m].id
    <3>1. k + 1 \in 1 .. Len(link) /\ 1 < k + 1 /\ link'[k] = link[k + 1]
      BY <1>3
    <3>2. N \in 1 .. Len(link[1]) /\ frame = link[1]
      BY <1>3, <1>5 DEF N
    <3> QED
      BY <2>1, <3>1, <3>2, <1>1, <1>2, <1>3 DEF OnLink, InOrder
  <2>2. InOrder(link', handed, last')
    BY <2>1, <1>4 DEF InOrder
  <2>3. last' \in handed
    BY <1>1, <1>5, <1>7
  <2> QED
    BY <2>2, <2>3, <1>1 DEF OnLink
<1>17. Counted'
  <2>1. received' <= last'
    <3>1. received <= last /\ last < frame[1].id
      BY <1>2, <1>5, <1>7 DEF Counted
    <3> QED
      BY <3>1, <1>1, <1>5, <1>6, <1>8, <1>12
  <2>2. missing' <= received' * SeqSize
    <3>1. missing <= received * SeqSize
      BY <1>2 DEF Counted
    <3>2. received * SeqSize + SeqSize <= (received + N) * SeqSize
      BY <1>5, <1>12, Constants, OneFactorMore
    <3>3. received * SeqSize \in Nat /\ (received + N) * SeqSize \in Nat
      BY <1>5, <1>12, Constants
    <3> QED
      BY <3>1, <3>2, <3>3, <1>1, <1>11, <1>12, Constants
  <2>3. prev' # None
    BY <1>10, Constants DEF None
  <2> QED
    BY <2>1, <2>2, <2>3, <1>13 DEF Counted
<1>18. FirstSession'
  <2> SUFFICES ASSUME session <= 1 PROVE FirstSession'
    BY <1>1 DEF FirstSession
  <2>1. Consecutive(frame)
    BY <1>2, <1>3 DEF FirstSession
  <2>2. /\ \A i \in 1 .. N : frame[i].seq = (frame[i].id - 1) % SeqSize /\ frame[i].session = 1
        /\ frame[N].id = frame[1].id + (N - 1)
    BY <2>1, <1>5 DEF Consecutive, N
  <2>3. prev' = (last' - 1) % SeqSize
    <3>1. N \in 1 .. Len(frame) /\ frame[N].session = frame[1].session
      BY <2>2, <1>5 DEF N
    <3>2. Label(frame, N) = frame[N].seq
      BY <3>1, <1>3, LabelsAreNumbers
    <3> QED
      BY <3>2, <2>2, <1>1, <1>5
  <2>4. ASSUME MaxSamples <= SeqSize + 1 PROVE missing' = last' - first' + 1 - received'
    <3>1. CASE received = 0
      <4>1. missing' = 0
        BY <3>1, <1>1, <1>2 DEF Counted, Gap
      <4> QED
        BY <4>1, <3>1, <2>2, <1>1, <1>5, <1>6
    <3>2. CASE received # 0
      <4>1. /\ prev = (last - 1) % SeqSize /\ prev # None
            /\ missing = last - first + 1 - received /\ last >= 1
        BY <2>4, <3>2, <1>2, <1>12 DEF FirstSession, Counted
      <4>2. frame[1].id \in Nat /\ last < frame[1].id /\ frame[1].id <= MaxSamples
        <5>1. frame[1].id \in kept
          BY <1>2, <1>5, <1>7 DEF Batched
        <5>2. Done \in Int /\ Done <= acquired /\ acquired <= MaxSamples /\ acquired \in Int
          BY <1>2, Constants DEF Types, Done
        <5> QED
          BY <5>1, <5>2, <1>2, <1>5, <1>6, <1>7, Constants DEF Acquired
      <4>3. (prev + 1) % SeqSize = last % SeqSize
        <5>1. last - 1 \in Int /\ (last - 1) + 1 = last
          BY <1>12
        <5> QED
          BY <5>1, <4>1, Constants, NextOfWrapped
      <4>4. Gap(Label(frame, 1)) = frame[1].id - 1 - last
        <5>1. /\ frame[1].id - 1 \in Int /\ last \in Int
              /\ (frame[1].id - 1) - last \in 0 .. SeqSize - 1
          BY <2>4, <4>1, <4>2, <1>12, Constants
        <5>2. (((frame[1].id - 1) % SeqSize) - (last % SeqSize)) % SeqSize
                 = (frame[1].id - 1) - last
          BY <5>1, Constants, DistanceOfWrapped
        <5>3. Label(frame, 1) = (frame[1].id - 1) % SeqSize
          BY <1>5, <1>9, <2>2
        <5> QED
          BY <5>2, <5>3, <4>1, <4>3 DEF Gap
      <4> QED
        <5>1. /\ missing' = (last - first + 1 - received) + (frame[1].id - 1 - last)
              /\ first' = first /\ received' = received + N
              /\ last' = frame[1].id + (N - 1)
          BY <4>1, <4>4, <3>2, <2>2, <1>1
        <5> QED
          BY <5>1, <4>2, <1>5, <1>12
    <3> QED
      BY <3>1, <3>2
  <2>5. \A k \in 1 .. Len(link') : Consecutive(link'[k])
    BY <1>2, <1>3 DEF FirstSession
  <2>6. Done' = Done /\ NextNumber' = NextNumber /\ InSession' = InSession
    BY <1>1, AcquisitionKept
  <2> QED
    BY <2>3, <2>4, <2>5, <2>6, <1>1, <1>2 DEF FirstSession
<1> QED
  BY <1>14, <1>15, <1>16, <1>17, <1>18 DEF IInv

-----------------------------------------------------------------------------
(* The theorems                                                              *)

\* The invariant holds at the start.
LEMMA InitEstablishes == Init => IInv
<1> SUFFICES ASSUME Init PROVE IInv
  OBVIOUS
<1>1. /\ apc = "setup" /\ session = 0 /\ sequence = 0 /\ sample = NoSample /\ log = {}
      /\ buffer = <<>> /\ kept = {} /\ tpc = "peek" /\ batch = <<>> /\ handed = {} /\ link = <<>>
      /\ prev = None /\ missing = 0 /\ acquired = 0 /\ first = 0 /\ last = 0 /\ received = 0
  BY DEF Init
<1>2. sample \in Samples
  BY <1>1, Constants DEF NoSample, Samples
<1>3. /\ buffer \in Seq(Samples) /\ batch \in Seq(Samples) /\ link \in Seq(Seq(Samples))
      /\ Len(buffer) = 0 /\ Len(batch) = 0 /\ Len(link) = 0
  BY <1>1
<1>4. Types
  BY <1>1, <1>2, <1>3, Constants DEF Types
<1>5. Acquired
  BY <1>1 DEF Acquired, Acquiring
<1>6. Recorded /\ Numbered
  BY <1>1, <1>3 DEF Recorded, Numbered
<1>7. Batched
  BY <1>1, <1>3 DEF Batched, Consistent, Ids
<1>8. OnLink
  BY <1>1, <1>3 DEF OnLink, InOrder
<1>9. Counted
  BY <1>1, Constants DEF Counted
<1>10. FirstSession
  BY <1>1, <1>3 DEF FirstSession, InSession, Consecutive
<1> QED
  BY <1>4, <1>5, <1>6, <1>7, <1>8, <1>9, <1>10 DEF IInv

\* Every step of the specification keeps the invariant.
LEMMA NextKeeps == IInv /\ [Next]_vars => IInv'
<1> SUFFICES ASSUME IInv, [Next]_vars PROVE IInv'
  OBVIOUS
<1>1. CASE Acquisition
  BY <1>1, SetupKeeps, SetupFailsKeeps, AcquireKeeps, WriteLogKeeps, AppendSampleKeeps,
     MovesOnKeeps DEF Acquisition
<1>2. CASE Telemetry
  BY <1>2, PeekBatchKeeps, SendBatchKeeps, DiscardKeeps DEF Telemetry
<1>3. CASE LoseFrame \/ ReceiveBatch
  BY <1>3, LoseFrameKeeps, ReceiveBatchKeeps
<1>4. CASE UNCHANGED vars
  <2>1. /\ UNCHANGED <<acquisitionVars, kept>>
        /\ UNCHANGED <<apc, session, sequence, sample, log, acquired, buffer, tpc, batch, handed,
                       link, prev, missing, first, last, received>>
    BY <1>4 DEF vars, acquisitionVars, telemetryVars, groundVars
  <2>2. Acquired' /\ Done' = Done /\ NextNumber' = NextNumber /\ InSession' = InSession
    BY <2>1, AcquisitionKept
  <2>3. Types' /\ Recorded' /\ Numbered' /\ Batched'
    BY <2>1, <2>2 DEF IInv, Types, Recorded, Numbered, Batched
  <2>4. OnLink' /\ Counted' /\ FirstSession'
    BY <2>1, <2>2 DEF IInv, OnLink, Counted, FirstSession
  <2> QED
    BY <2>2, <2>3, <2>4 DEF IInv
<1> QED
  BY <1>1, <1>2, <1>3, <1>4 DEF Next

\* The inductive invariant holds in every reachable state.
THEOREM Invariance == Spec => []IInv
BY InitEstablishes, NextKeeps, PTL DEF Spec

\* The invariant has TypeOK in it: no more can be missing than the numbers of as many frames as
\* there are samples can tell.
LEMMA TypesImply == IInv => TypeOK
<1> SUFFICES ASSUME IInv PROVE TypeOK
  OBVIOUS
<1>1. Types /\ Acquired /\ Batched /\ OnLink /\ Counted
  BY DEF IInv
<1>2. \A s \in ToSet(buffer) \union ToSet(batch) : s \in Samples
  BY <1>1 DEF Types, ToSet
<1>3. Done \in Int /\ Done <= acquired /\ acquired \in Int /\ acquired <= MaxSamples
  BY <1>1, Constants DEF Types, Done
<1>4. handed \subseteq kept /\ kept \subseteq 1 .. acquired
  BY <1>1, <1>3 DEF Batched, Acquired
<1>5. received <= MaxSamples /\ received \in Nat
  <2>1. last = 0 \/ last <= acquired
    BY <1>1, <1>3, <1>4 DEF OnLink
  <2> QED
    BY <2>1, <1>1, <1>3, Constants DEF Counted, Types
<1>6. missing \in 0 .. MaxSamples * SeqSize
  <2>1. CASE received = MaxSamples
    BY <2>1, <1>1, Constants DEF Counted, Types
  <2>2. CASE received # MaxSamples
    <3>1. MaxSamples - received \in Nat \ {0} /\ received + (MaxSamples - received) = MaxSamples
      BY <2>2, <1>5, Constants
    <3>2. received * SeqSize + SeqSize <= (received + (MaxSamples - received)) * SeqSize
      BY <3>1, <1>5, Constants, OneFactorMore
    <3>3. received * SeqSize \in Nat /\ MaxSamples * SeqSize \in Nat
      BY <1>5, Constants
    <3> QED
      BY <3>1, <3>2, <3>3, <1>1, Constants DEF Counted, Types
  <2> QED
    BY <2>1, <2>2
<1> QED
  BY <1>1, <1>2, <1>4, <1>6 DEF Types, TypeOK

\* What PhotodiodeTask appends is in the PhotodiodeSampleBuffer until it has been handed to the
\* transport. And what the ground reports as missing in the first session is what is missing,
\* if the sequence numbers are wide enough for all the samples that can be lost in a row (they
\* are of 32 bits).
THEOREM SamplesAreKept == MaxSamples <= SeqSize + 1 => (Spec => []NoSampleDropped)
<1> SUFFICES ASSUME MaxSamples <= SeqSize + 1 PROVE Spec => []NoSampleDropped
  OBVIOUS
<1>1. IInv => NoSampleDropped
  <2> SUFFICES ASSUME IInv PROVE NoSampleDropped
    OBVIOUS
  <2>1. TypeOK
    BY TypesImply
  <2>2. Ids(buffer) = {s.id : s \in ToSet(buffer)}
    BY DEF IInv, Types, Ids, ToSet
  <2>3. kept = handed \union {s.id : s \in ToSet(buffer)}
    BY <2>2 DEF IInv, Batched
  <2>4. session <= 1 /\ received > 0 => missing = last - first + 1 - received
    BY DEF IInv, FirstSession
  <2> QED
    BY <2>1, <2>3, <2>4 DEF NoSampleDropped
<1> QED
  BY <1>1, Invariance, PTL

\* What is sent of the running session is in its log, under the number that the ground will give
\* to it.
THEOREM RecordedBeforeSent == Spec => []SentAsRecorded
<1>1. IInv => SentAsRecorded
  <2> SUFFICES ASSUME IInv PROVE SentAsRecorded
    OBVIOUS
  <2>1. Types /\ Recorded /\ Batched /\ OnLink
    BY DEF IInv
  <2>2. ASSUME NEW s \in ToSet(buffer), s.session = session PROVE s.id \in log
    <3>1. PICK i \in 1 .. Len(buffer) : s = buffer[i]
      BY <2>1, <2>2 DEF Types, ToSet
    <3> QED
      BY <3>1, <2>1, <2>2 DEF Recorded
  <2>3. \A s \in ToSet(batch) : s \in ToSet(buffer)
    <3>1. DOMAIN batch = 1 .. Len(batch) /\ DOMAIN buffer = 1 .. Len(buffer)
          /\ Len(batch) \in Nat /\ Len(buffer) \in Nat
      BY <2>1 DEF Types
    <3>2. CASE tpc = "peek"
      BY <3>2, <2>1 DEF Batched, ToSet
    <3>3. CASE tpc # "peek"
      <4>1. /\ Len(batch) <= Len(buffer)
            /\ \A i \in 1 .. Len(batch) : batch[i] = buffer[i]
        BY <3>3, <2>1 DEF Batched
      <4> QED
        BY <4>1, <3>1 DEF ToSet
    <3> QED
      BY <3>2, <3>3
  <2>4. ASSUME NEW frame \in ToSet(link), NEW i \in DOMAIN frame
        PROVE  Label(frame, i) = frame[i].seq \/ frame[i].session # frame[1].session
    <3>1. PICK k \in 1 .. Len(link) : frame = link[k]
      BY <2>1, <2>4 DEF Types, ToSet
    <3>2. frame \in Seq(Samples) /\ Consistent(frame)
      BY <3>1, <2>1 DEF Types, OnLink, InOrder
    <3>3. i \in 1 .. Len(frame)
      BY <3>2, <2>4
    <3> QED
      BY <3>2, <3>3, LabelsAreNumbers
  <2> QED
    BY <2>2, <2>3, <2>4 DEF SentAsRecorded
<1> QED
  BY <1>1, Invariance, PTL

\* The ground receiver gets every sample at most once, and in order.
THEOREM SamplesComeOnce == Spec => EachSampleOnce
<1>1. IInv /\ [Next]_vars => [received' # received => Head(link)[1].id > last]_vars
  <2> SUFFICES ASSUME IInv, Next, received' # received PROVE Head(link)[1].id > last
    OBVIOUS
  <2>1. ReceiveBatch
    BY DEF Next, Acquisition, Setup, SetupFails, Acquire, WriteLog, LogFails, AppendSample, Finish,
           ExecuteFails, Teardown, Telemetry, PeekBatch, SendBatch, Discard, LoseFrame, groundVars
  <2>2. link # <<>> /\ link' = Tail(link)
    BY <2>1 DEF ReceiveBatch
  <2>3. Head(link) = link[1] /\ 1 \in 1 .. Len(link) /\ link[1] \in Seq(Samples) /\ link[1] # <<>>
    BY <2>2, HeadOfLink
  <2>4. 1 \in 1 .. Len(link[1])
    BY <2>3
  <2>5. last < link[1][1].id /\ last \in Nat /\ link[1][1] \in Samples
    <3>1. last < link[1][1].id
      BY <2>3, <2>4 DEF IInv, OnLink, InOrder
    <3>2. last \in Nat
      BY DEF IInv, Types
    <3> QED
      BY <3>1, <3>2, <2>3, <2>4
  <2> QED
    BY <2>3, <2>5 DEF Samples
<1> QED
  BY <1>1, Invariance, PTL DEF Spec, EachSampleOnce

-----------------------------------------------------------------------------
(* FrameStream: the inductive invariant                                      *)

\* What the parser has yet to look at.
Pipe == buf \o cmdBuf

Genuine(b) == b.from # Nowhere

\* Byte i of frame n comes before byte j of frame m of the same source.
Earlier(n, i, m, j) == n < m \/ (n = m /\ i < j)

Before(b, c) ==
    Genuine(b) /\ Genuine(c) /\ b.from[1] = c.from[1] =>
        Earlier(b.from[2], b.from[3], c.from[2], c.from[3])

\* Its source is past the byte, and none of the frames that follow has been passed on.
OnItsWay(b) ==
    Genuine(b) =>
        /\ Earlier(b.from[2], b.from[3], sent[b.from[1]].frame, sent[b.from[1]].byte)
        /\ \A k \in 1 .. Len(decoded) : decoded[k][1] = b.from[1] => decoded[k][2] < b.from[2]

\* The bytes of each source are in the order in which it sent them.
Arriving ==
    \A i \in 1 .. Len(Pipe) :
        OnItsWay(Pipe[i]) /\ \A j \in 1 .. Len(Pipe) : i < j => Before(Pipe[i], Pipe[j])

\* The frames that were passed on are in order, and their sources are past them.
PassedOn ==
    \A k \in 1 .. Len(decoded) :
        /\ decoded[k][2] < sent[decoded[k][1]].frame
        /\ \A l \in 1 .. Len(decoded) :
              k < l /\ decoded[k][1] = decoded[l][1] => decoded[k][2] < decoded[l][2]

\* The last frame of a source is the one its counter is at.
AtLast ==
    \A s \in Sources :
        IF Numbers(s) = {} THEN seqPrev[s] = -1
        ELSE \E m \in Numbers(s) : seqPrev[s] = m % Modulus /\ \A n \in Numbers(s) : n <= m

\* The inductive invariant.
FrameIInv == FrameTypeOK /\ Arriving /\ PassedOn /\ AtLast /\ DropsAreReported

-----------------------------------------------------------------------------
(* Frames and their bytes                                                    *)

\* The sizes are those of a frame.
LEMMA Sizes ==
    /\ Header \in Nat \ {0, 1} /\ Trailer \in Nat \ {0} /\ Sync \in Nat
    /\ Modulus \in Nat \ {0} /\ MaxDamage \in Nat /\ Noise \subseteq Nat
BY SizesAssumption

\* A frame of a source is well-formed.
LEMMA FrameFacts ==
    ASSUME NEW f \in AllFrames
    PROVE  /\ f[1] \in Sources /\ f[2] \in DOMAIN Frames[f[1]] /\ f = <<f[1], f[2]>>
           /\ DOMAIN Frames[f[1]] = 1 .. Len(Frames[f[1]]) /\ Len(Frames[f[1]]) \in Nat
           /\ Frames[f[1]][f[2]] \in Seq(Nat) /\ WellFormed(Frames[f[1]][f[2]])
<1>1. PICK s \in Sources : \E n \in DOMAIN Frames[s] : f = <<s, n>>
  BY DEF AllFrames
<1>2. PICK n \in DOMAIN Frames[s] : f = <<s, n>>
  BY <1>1
<1>3. f[1] = s /\ f[2] = n
  BY <1>2
<1>4. Frames[s] \in Seq(Seq(Nat)) /\ WellFormed(Frames[s][n])
  BY FramesAssumption, <1>2
<1>5. DOMAIN Frames[s] = 1 .. Len(Frames[s]) /\ Len(Frames[s]) \in Nat
  BY <1>4
<1> QED
  BY <1>2, <1>3, <1>4, <1>5

\* The bytes of a frame know where they are from.
LEMMA BytesFacts ==
    ASSUME NEW f \in AllFrames
    PROVE  /\ Bytes[f] \in Seq(Byte) /\ Len(Bytes[f]) \in Nat \ {0, 1, 2}
           /\ Len(Bytes[f]) = Len(Frames[f[1]][f[2]])
           /\ \A i \in 1 .. Len(Bytes[f]) :
                 /\ Bytes[f][i].from = <<f[1], f[2], i>> /\ Genuine(Bytes[f][i])
                 /\ Bytes[f][i].v = Frames[f[1]][f[2]][i] /\ Bytes[f][i].v \in Nat
<1> DEFINE fr == Frames[f[1]][f[2]]
<1>1. fr \in Seq(Nat) /\ DOMAIN fr = 1 .. Len(fr) /\ Len(fr) \in Nat
  BY FrameFacts
<1>2. Len(fr) >= 3
  BY <1>1, FrameFacts, Sizes DEF WellFormed
<1> HIDE DEF fr
<1>3. Bytes[f] = [i \in 1 .. Len(fr) |-> [v |-> fr[i], from |-> <<f[1], f[2], i>>]]
  BY <1>1 DEF Bytes, fr
<1>4. \A i \in 1 .. Len(fr) : Bytes[f][i] \in ToSet(Bytes[f])
  BY <1>3 DEF ToSet
<1>5. \A i \in 1 .. Len(fr) : Bytes[f][i] \in Byte
  BY <1>4 DEF Byte
<1>6. Bytes[f] \in Seq(Byte) /\ Len(Bytes[f]) = Len(fr)
  <2>1. Bytes[f] \in [1 .. Len(fr) -> Byte]
    BY <1>3, <1>5
  <2> QED
    BY <2>1, <1>1
<1>7. \A i \in 1 .. Len(fr) :
         /\ Bytes[f][i].from = <<f[1], f[2], i>> /\ Bytes[f][i].v = fr[i] /\ fr[i] \in Nat
  BY <1>3, <1>1
<1>8. \A i \in 1 .. Len(fr) : Genuine(Bytes[f][i])
  <2>1. \A i : <<f[1], f[2], i>> # <<>>
    <3>1. \A i : DOMAIN <<f[1], f[2], i>> = 1 .. 3 /\ DOMAIN <<>> = {} /\ 1 \in 1 .. 3
      OBVIOUS
    <3> QED
      BY <3>1
  <2> QED
    BY <1>7, <2>1 DEF Genuine, Nowhere
<1>9. Len(fr) \in Nat \ {0, 1, 2}
  BY <1>1, <1>2
<1> QED
  BY <1>6, <1>7, <1>8, <1>9 DEF fr

\* A byte has been corrupted, or belongs to a frame.
LEMMA ByteFacts ==
    ASSUME NEW b \in Byte
    PROVE  /\ b.v \in Nat
           /\ Genuine(b) => \E f \in AllFrames : \E i \in 1 .. Len(Bytes[f]) : b = Bytes[f][i]
<1>1. CASE b \in [v : Noise, from : {Nowhere}]
  BY <1>1, Sizes DEF Genuine
<1>2. CASE b \in UNION {ToSet(Bytes[f]) : f \in AllFrames}
  <2>1. PICK f \in AllFrames : b \in ToSet(Bytes[f])
    BY <1>2
  <2>2. DOMAIN Bytes[f] = 1 .. Len(Bytes[f])
    BY BytesFacts
  <2>3. PICK i \in 1 .. Len(Bytes[f]) : b = Bytes[f][i]
    BY <2>1, <2>2 DEF ToSet
  <2> QED
    BY <2>3, BytesFacts
<1> QED
  BY <1>1, <1>2 DEF Byte

\* No byte belongs to two frames, or to two places of one.
LEMMA SameOrigin ==
    ASSUME NEW f \in AllFrames, NEW g \in AllFrames,
           NEW i \in 1 .. Len(Bytes[f]), NEW j \in 1 .. Len(Bytes[g]), Bytes[f][i] = Bytes[g][j]
    PROVE  f = g /\ i = j
<1>1. <<f[1], f[2], i>> = <<g[1], g[2], j>>
  BY BytesFacts
<1>2. f[1] = g[1] /\ f[2] = g[2] /\ i = j
  BY <1>1
<1> QED
  BY <1>2, FrameFacts

-----------------------------------------------------------------------------
(* FrameStream: the sources                                                  *)

\* The pipe, element by element.
LEMMA PipeFacts ==
    ASSUME buf \in Seq(Byte), cmdBuf \in Seq(Byte)
    PROVE  /\ Pipe \in Seq(Byte) /\ Len(Pipe) = Len(buf) + Len(cmdBuf)
           /\ Len(Pipe) \in Nat /\ Len(buf) \in Nat /\ Len(cmdBuf) \in Nat
           /\ \A i \in 1 .. Len(buf) : Pipe[i] = buf[i]
           /\ \A i \in 1 .. Len(cmdBuf) : Pipe[i + Len(buf)] = cmdBuf[i]
<1>1. Len(buf) \in Nat /\ Len(cmdBuf) \in Nat
  OBVIOUS
<1>2. /\ Pipe \in Seq(Byte) /\ Len(Pipe) = Len(buf) + Len(cmdBuf)
      /\ \A i \in 1 .. Len(buf) + Len(cmdBuf) :
            Pipe[i] = IF i <= Len(buf) THEN buf[i] ELSE cmdBuf[i - Len(buf)]
  BY ConcatProperties DEF Pipe
<1>3. \A i \in 1 .. Len(buf) : Pipe[i] = buf[i]
  BY <1>1, <1>2
<1>4. ASSUME NEW i \in 1 .. Len(cmdBuf) PROVE Pipe[i + Len(buf)] = cmdBuf[i]
  <2>1. /\ i + Len(buf) \in 1 .. Len(buf) + Len(cmdBuf) /\ ~(i + Len(buf) <= Len(buf))
        /\ (i + Len(buf)) - Len(buf) = i
    BY <1>1
  <2> QED
    BY <2>1, <1>2
<1> QED
  BY <1>1, <1>2, <1>3, <1>4

\* What is left of the pipe when bytes are taken off its front still arrives in order.
LEMMA RestArrives ==
    ASSUME Arriving, UNCHANGED <<sent, decoded>>, NEW d \in Nat, Len(Pipe) \in Nat,
           Len(Pipe') \in Nat, Len(Pipe') + d <= Len(Pipe),
           \A i \in 1 .. Len(Pipe') : Pipe'[i] = Pipe[i + d]
    PROVE  Arriving'
<1>1. \A i \in 1 .. Len(Pipe') : i + d \in 1 .. Len(Pipe)
  OBVIOUS
<1>2. \A i, j \in 1 .. Len(Pipe') : i < j => i + d < j + d
  OBVIOUS
<1>3. \A i \in 1 .. Len(Pipe') : OnItsWay(Pipe'[i])
  BY <1>1 DEF Arriving
<1>4. ASSUME NEW i \in 1 .. Len(Pipe'), NEW j \in 1 .. Len(Pipe'), i < j
      PROVE  Before(Pipe'[i], Pipe'[j])
  <2>1. Before(Pipe[i + d], Pipe[j + d])
    BY <1>1, <1>2, <1>4 DEF Arriving
  <2> QED
    BY <2>1
<1>5. \A i \in 1 .. Len(Pipe') : OnItsWay(Pipe[i])'
  BY <1>3 DEF OnItsWay
<1> QED
  BY <1>4, <1>5 DEF Arriving, Before, Genuine

\* The counters of the ground are about the frames that were passed on.
LEMMA CountersUntouched ==
    ASSUME FrameIInv, UNCHANGED <<decoded, seqPrev, gaps>>
    PROVE  AtLast' /\ DropsAreReported'
<1>1. \A s : Numbers(s)' = Numbers(s) /\ MissingBetween(s)' = MissingBetween(s)
  BY DEF Numbers, MissingBetween
<1>2. \A s : GapsAreShort(s)' <=> GapsAreShort(s)
  BY <1>1 DEF GapsAreShort
<1> QED
  BY <1>1, <1>2 DEF FrameIInv, AtLast, DropsAreReported

\* A source sends the next byte of a frame.
LEMMA FeedFacts ==
    ASSUME FrameTypeOK, NEW s \in Sources, Feed(s)
    PROVE  /\ <<s, sent[s].frame>> \in AllFrames
           /\ sent[s].byte \in 1 .. Len(Bytes[<<s, sent[s].frame>>])
           /\ NextByte(s) \in Byte /\ NextByte(s).from = <<s, sent[s].frame, sent[s].byte>>
           /\ Earlier(sent[s].frame, sent[s].byte, sent'[s].frame, sent'[s].byte)
           /\ sent[s].frame <= sent'[s].frame
           /\ sent' \in [Sources -> [frame : Nat \ {0}, byte : Nat \ {0}]]
           /\ \A o \in Sources \ {s} : sent'[o] = sent[o]
           /\ \A o \in Sources : HasMore(o)' => sent'[o].byte <= Len(Frames[o][sent'[o].frame])
<1> DEFINE n == sent[s].frame
           i == sent[s].byte
           f == <<s, n>>
<1>1. /\ n \in Nat \ {0} /\ i \in Nat \ {0} /\ n <= Len(Frames[s]) /\ i <= Len(Frames[s][n])
      /\ sent \in [Sources -> [frame : Nat \ {0}, byte : Nat \ {0}]]
  BY DEF FrameTypeOK, Feed, HasMore
<1>2. /\ Frames[s] \in Seq(Seq(Nat)) /\ DOMAIN Frames[s] = 1 .. Len(Frames[s])
      /\ Len(Frames[s]) \in Nat
  BY FramesAssumption
<1>3. f \in AllFrames
  BY <1>1, <1>2 DEF AllFrames
<1>4. f[1] = s /\ f[2] = n
  OBVIOUS
<1>5. Len(Bytes[f]) = Len(Frames[s][n]) /\ Len(Frames[s][n]) \in Nat
  BY <1>3, <1>4, BytesFacts
<1>6. i \in 1 .. Len(Bytes[f])
  BY <1>1, <1>5
<1>7. NextByte(s) \in Byte /\ NextByte(s).from = <<s, n, i>>
  <2>1. Bytes[f] \in Seq(Byte) /\ Bytes[f][i].from = <<f[1], f[2], i>>
    BY <1>3, <1>6, BytesFacts
  <2>2. NextByte(s) = Bytes[f][i]
    BY DEF NextByte
  <2> HIDE DEF f, i
  <2> QED
    BY <2>1, <2>2, <1>4, <1>6
<1>8. /\ sent' = [sent EXCEPT ![s] = Following(s, n, i)]
      /\ Following(s, n, i) = IF i < Len(Frames[s][n]) THEN [frame |-> n, byte |-> i + 1]
                              ELSE [frame |-> n + 1, byte |-> 1]
  BY <1>1 DEF Feed, Following
<1>9. sent'[s] = Following(s, n, i) /\ \A o \in Sources \ {s} : sent'[o] = sent[o]
  BY <1>1, <1>8
<1>10. Following(s, n, i) \in [frame : Nat \ {0}, byte : Nat \ {0}]
  BY <1>1, <1>8
<1>11. sent' \in [Sources -> [frame : Nat \ {0}, byte : Nat \ {0}]]
  BY <1>1, <1>8, <1>10
<1>12. /\ Earlier(n, i, sent'[s].frame, sent'[s].byte) /\ n <= sent'[s].frame
       /\ sent'[s].frame <= Len(Frames[s]) => sent'[s].byte <= Len(Frames[s][sent'[s].frame])
  <2>1. CASE i < Len(Frames[s][n])
    <3>1. sent'[s] = [frame |-> n, byte |-> i + 1]
      BY <1>8, <1>9, <2>1
    <3>2. sent'[s].frame = n /\ sent'[s].byte = i + 1
      BY <3>1
    <3> QED
      BY <3>2, <2>1, <1>1, <1>5 DEF Earlier
  <2>2. CASE ~(i < Len(Frames[s][n]))
    <3>1. sent'[s] = [frame |-> n + 1, byte |-> 1]
      BY <1>8, <1>9, <2>2
    <3>2. sent'[s].frame = n + 1 /\ sent'[s].byte = 1
      BY <3>1
    <3>3. n + 1 <= Len(Frames[s]) => 1 <= Len(Frames[s][n + 1])
      <4> SUFFICES ASSUME n + 1 <= Len(Frames[s]) PROVE 1 <= Len(Frames[s][n + 1])
        OBVIOUS
      <4>1. n + 1 \in DOMAIN Frames[s]
        BY <1>1, <1>2
      <4>2. Frames[s][n + 1] \in Seq(Nat) /\ WellFormed(Frames[s][n + 1])
        BY <1>2, <4>1, FramesAssumption
      <4> QED
        <5>1. Len(Frames[s][n + 1]) \in Nat /\ Len(Frames[s][n + 1]) >= Header + Trailer
          BY <4>2 DEF WellFormed
        <5> QED
          BY <5>1, Sizes
    <3> QED
      BY <3>2, <3>3, <1>1 DEF Earlier
  <2> QED
    BY <2>1, <2>2
<1>13. ASSUME NEW o \in Sources, HasMore(o)'
       PROVE  sent'[o].byte <= Len(Frames[o][sent'[o].frame])
  <2>1. CASE o = s
    BY <2>1, <1>12, <1>13 DEF HasMore
  <2>2. CASE o # s
    BY <2>2, <1>9, <1>13 DEF HasMore, FrameTypeOK
  <2> QED
    BY <2>1, <2>2
<1> QED
  BY <1>3, <1>6, <1>7, <1>9, <1>11, <1>12, <1>13

\* Where a byte is from.
LEMMA OriginFacts ==
    ASSUME NEW b \in Byte, Genuine(b)
    PROVE  /\ b.from = <<b.from[1], b.from[2], b.from[3]>>
           /\ <<b.from[1], b.from[2]>> \in AllFrames
           /\ b.from[1] \in Sources /\ b.from[2] \in Nat \ {0} /\ b.from[3] \in Nat \ {0}
           /\ b.from[3] <= Len(Bytes[<<b.from[1], b.from[2]>>])
<1>1. PICK f \in AllFrames : \E i \in 1 .. Len(Bytes[f]) : b = Bytes[f][i]
  BY ByteFacts
<1>2. PICK i \in 1 .. Len(Bytes[f]) : b = Bytes[f][i]
  BY <1>1
<1>3. b.from = <<f[1], f[2], i>> /\ Len(Bytes[f]) \in Nat
  BY <1>2, BytesFacts
<1>4. b.from[1] = f[1] /\ b.from[2] = f[2] /\ b.from[3] = i
  BY <1>3
<1>5. /\ f = <<f[1], f[2]>> /\ f[1] \in Sources
      /\ f[2] \in 1 .. Len(Frames[f[1]]) /\ Len(Frames[f[1]]) \in Nat
  BY FrameFacts
<1> QED
  BY <1>2, <1>3, <1>4, <1>5

\* A byte that is on its way stays so when more is sent.
LEMMA StillOnItsWay ==
    ASSUME FrameTypeOK, NEW s \in Sources, Feed(s), UNCHANGED decoded, NEW b \in Byte, OnItsWay(b)
    PROVE  OnItsWay(b)'
<1> SUFFICES ASSUME Genuine(b)
             PROVE  Earlier(b.from[2], b.from[3], sent'[b.from[1]].frame, sent'[b.from[1]].byte)
  BY DEF OnItsWay, Genuine
<1> DEFINE o == b.from[1]
<1>1. o \in Sources /\ b.from[2] \in Nat /\ b.from[3] \in Nat
  BY OriginFacts
<1>2. Earlier(b.from[2], b.from[3], sent[o].frame, sent[o].byte)
  BY DEF OnItsWay
<1>3. CASE o # s
  BY <1>1, <1>2, <1>3, FeedFacts
<1>4. CASE o = s
  <2>1. Earlier(sent[s].frame, sent[s].byte, sent'[s].frame, sent'[s].byte)
    BY FeedFacts
  <2>2. /\ sent[s].frame \in Nat /\ sent[s].byte \in Nat
        /\ sent'[s].frame \in Nat /\ sent'[s].byte \in Nat
    BY FeedFacts DEF FrameTypeOK
  <2>3. Earlier(b.from[2], b.from[3], sent[s].frame, sent[s].byte)
    BY <1>2, <1>4
  <2>4. Earlier(b.from[2], b.from[3], sent'[s].frame, sent'[s].byte)
    <3>1. \A n, i, m, j, q, r \in Nat :
             Earlier(n, i, m, j) /\ Earlier(m, j, q, r) => Earlier(n, i, q, r)
      BY DEF Earlier
    <3> QED
      BY <1>1, <2>1, <2>2, <2>3, <3>1
  <2> QED
    BY <1>4, <2>4
<1> QED
  BY <1>3, <1>4

\* What is sent keeps the frames passed on behind it.
LEMMA FeedKeepsPassedOn ==
    ASSUME FrameIInv, NEW s \in Sources, Feed(s), UNCHANGED decoded
    PROVE  PassedOn'
<1>1. FrameTypeOK /\ PassedOn
  BY DEF FrameIInv
<1>2. ASSUME NEW k \in 1 .. Len(decoded) PROVE decoded[k][2] < sent'[decoded[k][1]].frame
  <2>1. decoded[k] \in AllFrames
    BY <1>1 DEF FrameTypeOK
  <2>2. decoded[k][1] \in Sources /\ decoded[k][2] \in Nat
    BY <2>1, FrameFacts
  <2>3. decoded[k][2] < sent[decoded[k][1]].frame
    BY <1>1 DEF PassedOn
  <2>4. sent[decoded[k][1]].frame \in Nat /\ sent'[decoded[k][1]].frame \in Nat
    BY <1>1, <2>2, FeedFacts DEF FrameTypeOK
  <2>5. sent[decoded[k][1]].frame <= sent'[decoded[k][1]].frame
    <3>1. CASE decoded[k][1] = s
      BY <1>1, <3>1, FeedFacts
    <3>2. CASE decoded[k][1] # s
      <4>1. sent'[decoded[k][1]] = sent[decoded[k][1]]
        BY <1>1, <2>2, <3>2, FeedFacts
      <4> QED
        BY <2>4, <4>1
    <3> QED
      BY <3>1, <3>2
  <2> QED
    BY <2>2, <2>3, <2>4, <2>5
<1> QED
  BY <1>1, <1>2 DEF PassedOn

\* A byte that comes to the end of the pipe keeps it in order.
LEMMA NewByteArrives ==
    ASSUME FrameIInv, NEW s \in Sources, Feed(s), UNCHANGED <<decoded, buf>>, NEW b \in Byte,
           cmdBuf' = Append(cmdBuf, b), Genuine(b) => b = NextByte(s)
    PROVE  Arriving' /\ cmdBuf' \in Seq(Byte)
<1>1. FrameTypeOK /\ Arriving /\ PassedOn /\ buf \in Seq(Byte) /\ cmdBuf \in Seq(Byte)
  BY DEF FrameIInv, FrameTypeOK
<1>2. /\ cmdBuf' \in Seq(Byte) /\ Len(cmdBuf') = Len(cmdBuf) + 1
      /\ \A i \in 1 .. Len(cmdBuf) : cmdBuf'[i] = cmdBuf[i]
      /\ cmdBuf'[Len(cmdBuf) + 1] = b
  BY <1>1, AppendElements
<1>0. PICK N \in Nat : N = Len(Pipe)
  BY <1>1, PipeFacts
<1>3. /\ Len(Pipe') = N + 1 /\ Pipe'[N + 1] = b
      /\ \A i \in 1 .. N : Pipe'[i] = Pipe[i] /\ Pipe[i] \in Byte
  <2>1. Pipe' = Append(Pipe, b) /\ Pipe \in Seq(Byte)
    <3>1. /\ Pipe \in Seq(Byte) /\ Len(Pipe) = Len(buf) + Len(cmdBuf)
          /\ Len(buf) \in Nat /\ Len(cmdBuf) \in Nat
          /\ \A i \in 1 .. Len(buf) : Pipe[i] = buf[i]
          /\ \A i \in 1 .. Len(cmdBuf) : Pipe[i + Len(buf)] = cmdBuf[i]
      BY <1>1, PipeFacts
    <3>2. buf \o Append(cmdBuf, b) = Append(buf \o cmdBuf, b)
      BY <1>1
    <3> QED
      BY <3>1, <3>2 DEF Pipe
  <2> QED
    BY <2>1, <1>0, AppendElements
<1>4. \A i \in 1 .. N : OnItsWay(Pipe[i]) /\ OnItsWay(Pipe[i])'
  <2>1. \A i \in 1 .. N : OnItsWay(Pipe[i])
    BY <1>0, <1>1 DEF Arriving
  <2>2. \A c \in Byte : OnItsWay(c) => OnItsWay(c)'
    BY <1>1, StillOnItsWay
  <2>3. \A c \in Byte : Genuine(c) /\ OnItsWay(c) =>
           /\ Earlier(c.from[2], c.from[3], sent'[c.from[1]].frame, sent'[c.from[1]].byte)
           /\ \A k \in 1 .. Len(decoded') :
                 decoded'[k][1] = c.from[1] => decoded'[k][2] < c.from[2]
    BY <2>2 DEF OnItsWay, Genuine
  <2> QED
    BY <1>3, <2>1, <2>3 DEF OnItsWay, Genuine
<1>5. /\ <<s, sent[s].frame>> \in AllFrames /\ NextByte(s).from = <<s, sent[s].frame, sent[s].byte>>
      /\ Earlier(sent[s].frame, sent[s].byte, sent'[s].frame, sent'[s].byte)
  BY <1>1, FeedFacts
<1>6. Genuine(b) => b.from[1] = s /\ b.from[2] = sent[s].frame /\ b.from[3] = sent[s].byte
  BY <1>5
<1>7. OnItsWay(b)'
  <2> SUFFICES ASSUME Genuine(b) PROVE OnItsWay(b)'
    BY DEF OnItsWay, Genuine
  <2>1. \A k \in 1 .. Len(decoded) : decoded[k][1] = s => decoded[k][2] < sent[s].frame
    BY <1>1 DEF PassedOn
  <2> QED
    BY <2>1, <1>5, <1>6 DEF OnItsWay
<1>8. \A i \in 1 .. N : Before(Pipe[i], b)
  BY <1>4, <1>6 DEF OnItsWay, Before
<1>9. ASSUME NEW i \in 1 .. N + 1, NEW j \in 1 .. N + 1, i < j PROVE Before(Pipe'[i], Pipe'[j])
  <2>1. i \in 1 .. N
    BY <1>3, <1>9
  <2>2. CASE j = N + 1
    BY <2>1, <2>2, <1>3, <1>8
  <2>3. CASE j # N + 1
    <3>1. j \in 1 .. N
      BY <2>3, <1>3
    <3>2. Before(Pipe[i], Pipe[j])
      BY <2>1, <3>1, <1>0, <1>1, <1>9 DEF Arriving
    <3> QED
      BY <2>1, <3>1, <3>2, <1>3
  <2> QED
    BY <2>2, <2>3
<1>10. \A i \in 1 .. N + 1 : OnItsWay(Pipe[i])'
  <2>1. OnItsWay(Pipe[N + 1])'
    BY <1>3, <1>7 DEF OnItsWay, Genuine
  <2> QED
    BY <2>1, <1>3, <1>4
<1>11. Arriving'
  BY <1>3, <1>9, <1>10 DEF Arriving
<1> QED
  BY <1>2, <1>11

\* Receive keeps the invariant.
LEMMA ReceiveKeeps == ASSUME FrameIInv, NEW s \in Sources, Receive(s) PROVE FrameIInv'
<1>1. /\ Feed(s) /\ cmdBuf' = Append(cmdBuf, NextByte(s))
      /\ UNCHANGED <<buf, pc, decoded, seqPrev, gaps, torn, damage>> /\ mixed' \in BOOLEAN
  BY DEF Receive, Feed, parser, FrameIInv, FrameTypeOK
<1>2. FrameTypeOK
  BY DEF FrameIInv
<1>3. NextByte(s) \in Byte
  BY <1>1, <1>2, FeedFacts
<1>4. Arriving' /\ cmdBuf' \in Seq(Byte)
  BY <1>1, <1>3, NewByteArrives
<1>5. FrameTypeOK'
  BY <1>1, <1>2, <1>4, FeedFacts DEF FrameTypeOK
<1> QED
  BY <1>1, <1>4, <1>5, FeedKeepsPassedOn, CountersUntouched DEF FrameIInv

\* Damaged keeps the invariant.
LEMMA DamagedKeeps ==
    ASSUME FrameIInv, NEW s \in Sources, NEW v \in {<<x>> : x \in Noise} \cup {Nowhere},
           Damaged(s, v)
    PROVE  FrameIInv'
<1>1. /\ Feed(s) /\ damage < MaxDamage /\ damage' = damage + 1
      /\ UNCHANGED <<buf, pc, decoded, seqPrev, gaps, torn>> /\ mixed' \in BOOLEAN
      /\ cmdBuf' = IF v = Nowhere THEN cmdBuf ELSE Append(cmdBuf, [v |-> v[1], from |-> Nowhere])
  BY DEF Damaged, Feed, parser, FrameIInv, FrameTypeOK
<1>2. FrameTypeOK /\ Arriving
  BY DEF FrameIInv
<1>3. Arriving' /\ cmdBuf' \in Seq(Byte)
  <2>1. CASE v = Nowhere
    <3>1. UNCHANGED Pipe /\ Pipe \in Seq(Byte)
      BY <1>1, <1>2, <2>1, PipeFacts DEF Pipe, FrameTypeOK
    <3>2. \A b \in Byte : OnItsWay(b) => OnItsWay(b)'
      BY <1>1, <1>2, StillOnItsWay
    <3>3. \A b \in Byte : Genuine(b) /\ OnItsWay(b) =>
             /\ Earlier(b.from[2], b.from[3], sent'[b.from[1]].frame, sent'[b.from[1]].byte)
             /\ \A k \in 1 .. Len(decoded') :
                   decoded'[k][1] = b.from[1] => decoded'[k][2] < b.from[2]
      BY <3>2 DEF OnItsWay, Genuine
    <3>4. \A i \in 1 .. Len(Pipe) : Pipe[i] \in Byte
      BY <3>1
    <3>5. \A i \in 1 .. Len(Pipe) : OnItsWay(Pipe[i])'
      BY <1>2, <3>1, <3>3, <3>4 DEF Arriving, OnItsWay, Genuine
    <3>6. Arriving'
      BY <1>2, <3>1, <3>5 DEF Arriving, Before, Genuine
    <3> QED
      BY <3>6, <1>1, <1>2, <2>1 DEF FrameTypeOK
  <2>2. CASE v # Nowhere
    <3> DEFINE b == [v |-> v[1], from |-> Nowhere]
    <3>1. v[1] \in Noise
      BY <2>2
    <3>2. b \in Byte /\ ~Genuine(b)
      BY <3>1 DEF Byte, Genuine
    <3>3. cmdBuf' = Append(cmdBuf, b)
      BY <1>1, <2>2
    <3> QED
      BY <1>1, <3>2, <3>3, NewByteArrives
  <2> QED
    BY <2>1, <2>2
<1>4. damage' \in 0 .. MaxDamage
  BY <1>1, <1>2, Sizes DEF FrameTypeOK
<1>5. FrameTypeOK'
  BY <1>1, <1>2, <1>3, <1>4, FeedFacts DEF FrameTypeOK
<1> QED
  BY <1>1, <1>3, <1>5, FeedKeepsPassedOn, CountersUntouched DEF FrameIInv

-----------------------------------------------------------------------------
(* FrameStream: the parser                                                   *)

\* A step that leaves what was sent and what was passed on alone.
LEMMA PipeOnly ==
    ASSUME FrameIInv, UNCHANGED <<sent, decoded, seqPrev, gaps>>, FrameTypeOK', Arriving'
    PROVE  FrameIInv'
BY CountersUntouched DEF FrameIInv, PassedOn

\* Read keeps the invariant.
LEMMA ReadKeeps == ASSUME FrameIInv, Read PROVE FrameIInv'
<1>1. /\ buf' = buf \o cmdBuf /\ cmdBuf' = <<>> /\ pc' = "loop"
      /\ UNCHANGED <<sent, decoded, seqPrev, gaps, damage, mixed, torn>>
  BY DEF Read
<1>2. FrameTypeOK /\ Arriving /\ buf \in Seq(Byte) /\ cmdBuf \in Seq(Byte)
  BY DEF FrameIInv, FrameTypeOK
<1>3. buf' \in Seq(Byte) /\ cmdBuf' \in Seq(Byte) /\ buf' \o <<>> = buf'
  BY <1>1, <1>2
<1>4. FrameTypeOK'
  BY <1>1, <1>2, <1>3 DEF FrameTypeOK, HasMore
<1>5. UNCHANGED Pipe
  BY <1>1, <1>3 DEF Pipe
<1>6. Arriving'
  BY <1>1, <1>2, <1>5 DEF Arriving, OnItsWay, Before, Genuine
<1> QED
  BY <1>1, <1>4, <1>6, PipeOnly

\* The back of the buffer is the back of the pipe.
LEMMA BackOfBuffer ==
    ASSUME FrameTypeOK, NEW d \in Nat, d <= Len(buf), buf' = SubSeq(buf, d + 1, Len(buf)),
           UNCHANGED cmdBuf
    PROVE  /\ buf' \in Seq(Byte) /\ Len(Pipe) \in Nat /\ Len(Pipe') \in Nat
           /\ Len(Pipe') + d = Len(Pipe)
           /\ \A i \in 1 .. Len(Pipe') : Pipe'[i] = Pipe[i + d]
<1>1. buf \in Seq(Byte) /\ cmdBuf \in Seq(Byte) /\ cmdBuf' \in Seq(Byte) /\ Len(buf) \in Nat
  BY DEF FrameTypeOK
<1>2. /\ buf' \in Seq(Byte) /\ Len(buf') = Len(buf) - d
      /\ \A i \in 1 .. Len(buf) - d : buf'[i] = buf[i + d]
  BY <1>1, PartElements
<1>3. /\ Len(Pipe) = Len(buf) + Len(cmdBuf) /\ Len(Pipe) \in Nat /\ Len(cmdBuf) \in Nat
      /\ \A i \in 1 .. Len(buf) : Pipe[i] = buf[i]
      /\ \A i \in 1 .. Len(cmdBuf) : Pipe[i + Len(buf)] = cmdBuf[i]
  BY <1>1, PipeFacts
<1>4. /\ Len(Pipe') = Len(buf') + Len(cmdBuf') /\ Len(Pipe') \in Nat
      /\ \A i \in 1 .. Len(buf') : Pipe'[i] = buf'[i]
      /\ \A i \in 1 .. Len(cmdBuf') : Pipe'[i + Len(buf')] = cmdBuf'[i]
  <2>1. (buf \in Seq(Byte) /\ cmdBuf \in Seq(Byte) =>
            /\ Len(Pipe) = Len(buf) + Len(cmdBuf) /\ Len(Pipe) \in Nat
            /\ \A i \in 1 .. Len(buf) : Pipe[i] = buf[i]
            /\ \A i \in 1 .. Len(cmdBuf) : Pipe[i + Len(buf)] = cmdBuf[i])'
    BY PipeFacts, PTL
  <2> QED
    BY <1>1, <1>2, <2>1
<1>5. Len(Pipe') + d = Len(Pipe) /\ Len(Pipe') = (Len(buf) - d) + Len(cmdBuf)
  BY <1>1, <1>2, <1>3, <1>4
<1>6. ASSUME NEW i \in 1 .. Len(Pipe') PROVE Pipe'[i] = Pipe[i + d]
  <2>1. CASE i <= Len(buf) - d
    <3>1. i \in 1 .. Len(buf') /\ i \in 1 .. Len(buf) - d /\ i + d \in 1 .. Len(buf)
      BY <2>1, <1>1, <1>2
    <3> QED
      BY <3>1, <1>2, <1>3, <1>4
  <2>2. CASE i > Len(buf) - d
    <3>1. PICK B \in Nat, C \in Nat : B = Len(buf) /\ C = Len(cmdBuf)
      BY <1>1, <1>3
    <3>2. i \in Nat /\ i > B - d /\ i <= (B - d) + C /\ d <= B /\ Len(buf') = B - d
      BY <2>2, <3>1, <1>1, <1>2, <1>3, <1>5
    <3>3. PICK j \in Int : j = i - (B - d)
      BY <3>1, <3>2
    <3>4. j \in 1 .. C /\ i = j + (B - d) /\ i + d = j + B
      BY <3>1, <3>2, <3>3
    <3>5. Pipe'[j + (B - d)] = cmdBuf[j] /\ Pipe[j + B] = cmdBuf[j]
      BY <3>1, <3>2, <3>4, <1>3, <1>4
    <3> QED
      BY <3>4, <3>5
  <2> QED
    BY <2>1, <2>2, <1>1
<1> QED
  BY <1>2, <1>3, <1>4, <1>5, <1>6

\* Scan keeps the invariant.
LEMMA ScanKeeps == ASSUME FrameIInv, Scan PROVE FrameIInv'
<1>1. /\ UNCHANGED <<sent, cmdBuf, pc, decoded, seqPrev, gaps, damage, mixed, torn>>
      /\ \/ buf' = <<>>
         \/ \E n \in Syncs : buf' = SubSeq(buf, n, Len(buf))
  BY DEF Scan, Tried
<1>2. FrameTypeOK /\ Arriving /\ buf \in Seq(Byte) /\ Len(buf) \in Nat
  BY DEF FrameIInv, FrameTypeOK
<1>3. PICK d \in Nat : d <= Len(buf) /\ buf' = SubSeq(buf, d + 1, Len(buf))
  <2>1. CASE buf' = <<>>
    <3>1. SubSeq(buf, Len(buf) + 1, Len(buf)) = <<>>
      BY <1>2, SubSeqEmpty
    <3> QED
      BY <1>2, <2>1, <3>1
  <2>2. ASSUME NEW n \in Syncs, buf' = SubSeq(buf, n, Len(buf))
        PROVE  \E d \in Nat : d <= Len(buf) /\ buf' = SubSeq(buf, d + 1, Len(buf))
    <3>1. n \in 1 .. Len(buf)
      BY <1>2 DEF Syncs
    <3>2. n - 1 \in Nat /\ n - 1 <= Len(buf) /\ (n - 1) + 1 = n
      BY <3>1, <1>2
    <3> QED
      BY <2>2, <3>2
  <2> QED
    BY <1>1, <2>1, <2>2
<1>4. /\ buf' \in Seq(Byte) /\ Len(Pipe) \in Nat /\ Len(Pipe') \in Nat
      /\ Len(Pipe') + d = Len(Pipe) /\ \A i \in 1 .. Len(Pipe') : Pipe'[i] = Pipe[i + d]
  BY <1>1, <1>2, <1>3, BackOfBuffer
<1>5. Arriving'
  BY <1>1, <1>2, <1>4, RestArrives
<1>6. FrameTypeOK'
  BY <1>1, <1>2, <1>4 DEF FrameTypeOK, HasMore
<1> QED
  BY <1>1, <1>5, <1>6, PipeOnly

\* Wait keeps the invariant.
LEMMA WaitKeeps == ASSUME FrameIInv, Wait PROVE FrameIInv'
<1>1. pc' = "read" /\ UNCHANGED <<sent, cmdBuf, buf, decoded, seqPrev, gaps, damage, mixed, torn>>
  BY DEF Wait, Tried
<1>2. FrameTypeOK'
  BY <1>1 DEF FrameIInv, FrameTypeOK, HasMore
<1>3. UNCHANGED Pipe
  BY <1>1 DEF Pipe
<1>4. Arriving'
  BY <1>1, <1>3 DEF FrameIInv, Arriving, OnItsWay, Before, Genuine
<1> QED
  BY <1>1, <1>2, <1>4, PipeOnly

\* A candidate is the front of the buffer.
LEMMA CandidateFacts ==
    ASSUME FrameTypeOK, Complete
    PROVE  /\ Len(buf) \in Nat /\ FrameSize \in Nat \ {0} /\ FrameSize <= Len(buf)
           /\ Candidate \in Seq(Byte) /\ Len(Candidate) = FrameSize
           /\ \A i \in 1 .. FrameSize : Candidate[i] = buf[i]
<1>1. buf \in Seq(Byte) /\ Len(buf) \in Nat
  BY DEF FrameTypeOK
<1>2. Len(buf) >= Header + Trailer /\ Len(buf) >= FrameSize
  BY DEF Complete, InSync, Enough
<1>3. Header \in 1 .. Len(buf)
  BY <1>1, <1>2, Sizes
<1>4. buf[Header].v \in Nat
  <2>1. buf[Header] \in Byte
    BY <1>1, <1>3
  <2> QED
    BY <2>1, ByteFacts
<1>5. FrameSize \in Nat \ {0}
  BY <1>4, Sizes DEF FrameSize
<1> HIDE DEF FrameSize
<1>6. \A i \in 1 .. FrameSize : buf[i] \in Byte
  BY <1>1, <1>2, <1>5
<1>7. /\ Candidate \in Seq(Byte)
      /\ Len(Candidate) = IF 1 <= FrameSize THEN FrameSize - 1 + 1 ELSE 0
      /\ \A i \in 1 .. FrameSize - 1 + 1 : Candidate[i] = buf[1 + i - 1]
  BY <1>5, <1>6, SubSeqProperties DEF Candidate
<1>8. Len(Candidate) = FrameSize
  BY <1>5, <1>7
<1>9. \A i \in 1 .. FrameSize : Candidate[i] = buf[i]
  BY <1>5, <1>7
<1> QED
  BY <1>1, <1>2, <1>5, <1>7, <1>8, <1>9

\* A byte of a candidate touches the frame it belongs to.
LEMMA TouchedFrames ==
    ASSUME NEW q \in Seq(Byte)
    PROVE  /\ Touched(q) \subseteq AllFrames
           /\ \A f \in AllFrames : \A i \in 1 .. Len(q) : \A j \in 1 .. Len(Bytes[f]) :
                 q[i] = Bytes[f][j] => f \in Touched(q)
<1>1. DOMAIN q = 1 .. Len(q) /\ ToSet(q) = {q[i] : i \in 1 .. Len(q)}
  BY DEF ToSet
<1>2. ASSUME NEW f \in Touched(q) PROVE f \in AllFrames
  <2>1. PICK o \in Origins(q) \ {Nowhere} : f = <<o[1], o[2]>>
    BY <1>2 DEF Touched
  <2>2. PICK b \in ToSet(q) : o = b.from
    BY <2>1 DEF Origins
  <2>3. b \in Byte /\ Genuine(b)
    BY <1>1, <2>1, <2>2 DEF Genuine
  <2> QED
    BY <2>1, <2>2, <2>3, OriginFacts
<1>3. ASSUME NEW f \in AllFrames, NEW i \in 1 .. Len(q), NEW j \in 1 .. Len(Bytes[f]),
             q[i] = Bytes[f][j]
      PROVE  f \in Touched(q)
  <2>1. q[i].from = <<f[1], f[2], j>> /\ Genuine(q[i])
    BY <1>3, BytesFacts
  <2>2. q[i].from \in Origins(q) \ {Nowhere}
    BY <1>1, <2>1 DEF Origins, Genuine
  <2>3. f = <<q[i].from[1], q[i].from[2]>>
    BY <2>1, FrameFacts
  <2> QED
    BY <2>2, <2>3 DEF Touched
<1> QED
  BY <1>2, <1>3

\* Refuse keeps the invariant.
LEMMA RefuseKeeps == ASSUME FrameIInv, Refuse PROVE FrameIInv'
<1>1. /\ UNCHANGED <<sent, cmdBuf, pc, decoded, seqPrev, gaps, damage, mixed>>
      /\ Complete /\ buf' = SubSeq(buf, FrameSize + 1, Len(buf))
      /\ torn' \subseteq torn \cup Touched(Candidate)
  BY DEF Refuse, Tried, AfterRefusal
<1>2. FrameTypeOK /\ Arriving
  BY DEF FrameIInv
<1>3. FrameSize \in Nat /\ FrameSize <= Len(buf) /\ Candidate \in Seq(Byte)
  BY <1>1, <1>2, CandidateFacts
<1>4. PICK d \in Nat : d = FrameSize
  BY <1>3
<1>5. /\ buf' \in Seq(Byte) /\ Len(Pipe) \in Nat /\ Len(Pipe') \in Nat
      /\ Len(Pipe') + d = Len(Pipe) /\ \A i \in 1 .. Len(Pipe') : Pipe'[i] = Pipe[i + d]
  BY <1>1, <1>2, <1>3, <1>4, BackOfBuffer
<1>6. Arriving'
  BY <1>1, <1>2, <1>5, RestArrives
<1>7. torn' \subseteq AllFrames
  BY <1>1, <1>2, <1>3, TouchedFrames DEF FrameTypeOK
<1>8. FrameTypeOK'
  BY <1>1, <1>2, <1>5, <1>7 DEF FrameTypeOK, HasMore
<1> QED
  BY <1>1, <1>6, <1>8, PipeOnly

\* How many numbers lie between two that have wrapped, when there are fewer than the width.
LEMMA BetweenWrapped ==
    ASSUME NEW x \in Int, NEW y \in Int, NEW S \in Nat \ {0}, x - y - 1 \in 0 .. S - 1
    PROVE  ((x % S) - (y % S) - 1) % S = x - y - 1
<1>1. PICK q \in Int, r \in 0 .. S - 1 : x = S * q + r /\ x % S = r
  BY Division
<1>2. PICK p \in Int, s \in 0 .. S - 1 : y = S * p + s /\ y % S = s
  BY Division
<1>3. /\ S * (p - q) = S * p - S * q /\ p - q \in Int
      /\ S * p \in Int /\ S * q \in Int
  BY <1>1, <1>2
<1>4. r - s - 1 = S * (p - q) + (x - y - 1) /\ r - s - 1 \in Int
  BY <1>1, <1>2, <1>3
<1>5. (r - s - 1) % S = x - y - 1
  BY <1>3, <1>4, Remainder
<1> QED
  BY <1>1, <1>2, <1>5

\* The numbers of the frames passed on are those of frames.
LEMMA NumbersFacts ==
    ASSUME decoded \in Seq(AllFrames), NEW s \in Sources
    PROVE  /\ Numbers(s) = {decoded[k][2] : k \in {l \in 1 .. Len(decoded) : decoded[l][1] = s}}
           /\ Numbers(s) \subseteq 1 .. Len(Frames[s]) /\ Len(Frames[s]) \in Nat
<1>1. ToSet(decoded) = {decoded[k] : k \in 1 .. Len(decoded)}
  BY DEF ToSet
<1>2. Numbers(s) = {decoded[k][2] : k \in {l \in 1 .. Len(decoded) : decoded[l][1] = s}}
  BY <1>1 DEF Numbers
<1>3. \A k \in 1 .. Len(decoded) :
          decoded[k][1] = s => decoded[k][2] \in 1 .. Len(Frames[s])
  <2>1. \A k \in 1 .. Len(decoded) : decoded[k] \in AllFrames
    OBVIOUS
  <2> QED
    BY <2>1, FrameFacts
<1>4. Frames[s] \in Seq(Seq(Nat))
  BY FramesAssumption
<1> QED
  BY <1>2, <1>3, <1>4

\* What is accepted is behind everything that was passed on of its source, in front of what is
\* left of it, and behind what the source sends next.
LEMMA AcceptedFrame ==
    ASSUME FrameIInv, Complete, NEW f \in AllFrames, CrcMatches(f)
    PROVE  /\ FrameSize = Len(Bytes[f]) /\ FrameSize <= Len(Pipe)
           /\ f[2] < sent[f[1]].frame
           /\ \A k \in 1 .. Len(decoded) : decoded[k][1] = f[1] => decoded[k][2] < f[2]
           /\ \A i \in 1 .. Len(Pipe) :
                 i > FrameSize /\ Genuine(Pipe[i]) /\ Pipe[i].from[1] = f[1] =>
                     f[2] < Pipe[i].from[2]
<1>1. FrameTypeOK /\ Arriving /\ buf \in Seq(Byte) /\ cmdBuf \in Seq(Byte)
  BY DEF FrameIInv, FrameTypeOK
<1>2. /\ Len(buf) \in Nat /\ FrameSize \in Nat \ {0} /\ FrameSize <= Len(buf)
      /\ Len(Candidate) = FrameSize /\ \A i \in 1 .. FrameSize : Candidate[i] = buf[i]
  BY <1>1, CandidateFacts
<1>3. /\ Pipe \in Seq(Byte) /\ Len(Pipe) \in Nat /\ Len(buf) <= Len(Pipe)
      /\ \A i \in 1 .. Len(buf) : Pipe[i] = buf[i]
  BY <1>1, PipeFacts
<1>4. PICK L \in Nat \ {0} : L = FrameSize
  BY <1>2
<1>5. Candidate = Bytes[f] /\ Len(Bytes[f]) = L
  BY <1>2, <1>4 DEF CrcMatches
<1>6. \A i \in 1 .. L : i \in 1 .. Len(Pipe) /\ Pipe[i] = Bytes[f][i]
  BY <1>2, <1>3, <1>4, <1>5
<1>7. 1 \in 1 .. L /\ L \in 1 .. L
  BY <1>4
<1>8. /\ Pipe[1].from = <<f[1], f[2], 1>> /\ Genuine(Pipe[1])
      /\ Pipe[L].from = <<f[1], f[2], L>> /\ Genuine(Pipe[L])
  BY <1>5, <1>6, <1>7, BytesFacts
<1>9. /\ Pipe[1].from[1] = f[1] /\ Pipe[1].from[2] = f[2]
      /\ Pipe[L].from[1] = f[1] /\ Pipe[L].from[2] = f[2] /\ Pipe[L].from[3] = L
  BY <1>8
<1>10. f[1] \in Sources /\ f[2] \in 1 .. Len(Frames[f[1]]) /\ Len(Frames[f[1]]) \in Nat
       /\ f = <<f[1], f[2]>>
  BY FrameFacts
<1>11. \A k \in 1 .. Len(decoded) : decoded[k][1] = f[1] => decoded[k][2] < f[2]
  <2>1. OnItsWay(Pipe[1])
    BY <1>1, <1>6, <1>7 DEF Arriving
  <2> QED
    BY <2>1, <1>8, <1>9 DEF OnItsWay
<1>12. f[2] < sent[f[1]].frame
  <2>1. OnItsWay(Pipe[L])
    BY <1>1, <1>6, <1>7 DEF Arriving
  <2>2. Earlier(f[2], L, sent[f[1]].frame, sent[f[1]].byte)
    BY <2>1, <1>8, <1>9 DEF OnItsWay
  <2>3. sent[f[1]].frame \in Nat /\ sent[f[1]].byte \in Nat
    BY <1>1, <1>10 DEF FrameTypeOK
  <2>4. sent[f[1]].frame = f[2] => sent[f[1]].byte <= L
    <3>1. Len(Frames[f[1]][f[2]]) = L
      BY <1>5, BytesFacts
    <3>2. sent[f[1]].frame <= Len(Frames[f[1]]) =>
             sent[f[1]].byte <= Len(Frames[f[1]][sent[f[1]].frame])
      BY <1>1, <1>10 DEF FrameTypeOK, HasMore
    <3> QED
      BY <3>1, <3>2, <1>10
  <2> QED
    BY <2>2, <2>3, <2>4, <1>10 DEF Earlier
<1>13. ASSUME NEW i \in 1 .. Len(Pipe), i > L, Genuine(Pipe[i]), Pipe[i].from[1] = f[1]
       PROVE  f[2] < Pipe[i].from[2]
  <2>1. Before(Pipe[L], Pipe[i])
    BY <1>1, <1>6, <1>7, <1>13 DEF Arriving
  <2>2. Earlier(f[2], L, Pipe[i].from[2], Pipe[i].from[3])
    BY <2>1, <1>8, <1>9, <1>13 DEF Before
  <2>3. Pipe[i] \in Byte
    BY <1>3
  <2>4. /\ Pipe[i].from[2] \in Nat /\ Pipe[i].from[3] \in Nat
        /\ Pipe[i].from[3] <= Len(Bytes[<<f[1], Pipe[i].from[2]>>])
    BY <2>3, <1>13, OriginFacts
  <2>5. f[2] = Pipe[i].from[2] => Pipe[i].from[3] <= L
    BY <2>4, <1>5, <1>10
  <2> QED
    BY <2>2, <2>4, <2>5, <1>10 DEF Earlier
<1> QED
  BY <1>2, <1>3, <1>4, <1>5, <1>11, <1>12, <1>13

\* The ground counts the frames that are missing before the one it has got.
LEMMA CheckSeqCounts ==
    ASSUME FrameIInv, NEW f \in AllFrames, CheckSeq(f[1], f[2] % Modulus),
           decoded' = Append(decoded, f),
           \A k \in 1 .. Len(decoded) : decoded[k][1] = f[1] => decoded[k][2] < f[2]
    PROVE  /\ seqPrev' \in [Sources -> -1..Modulus-1] /\ gaps' \in [Sources -> Nat]
           /\ AtLast' /\ DropsAreReported'
<1> DEFINE s == f[1]
           n == f[2]
<1>1. /\ seqPrev \in [Sources -> -1..Modulus-1] /\ gaps \in [Sources -> Nat]
      /\ decoded \in Seq(AllFrames) /\ AtLast
  BY DEF FrameIInv, FrameTypeOK
<1>2. /\ gaps' = [gaps EXCEPT ![s] = gaps[s] + Missing(s, n % Modulus)]
      /\ seqPrev' = [seqPrev EXCEPT ![s] = n % Modulus]
  BY <1>1 DEF CheckSeq
<1>3. s \in Sources /\ n \in 1 .. Len(Frames[s]) /\ Len(Frames[s]) \in Nat
  BY FrameFacts
<1>4. n % Modulus \in 0 .. Modulus - 1 /\ n \in Int
  <2>1. n \in Int
    BY <1>3
  <2> HIDE DEF n
  <2> QED
    BY <2>1, Sizes, Division
<1>5. Missing(s, n % Modulus) \in Nat
  <2>1. CASE seqPrev[s] = -1
    BY <2>1 DEF Missing
  <2>2. CASE seqPrev[s] # -1
    <3>1. (n % Modulus) - seqPrev[s] - 1 \in Int
      BY <1>1, <1>3, <1>4, Sizes
    <3>2. ((n % Modulus) - seqPrev[s] - 1) % Modulus \in 0 .. Modulus - 1
      BY <3>1, Sizes, Division
    <3> QED
      BY <3>2, <2>2, Sizes DEF Missing
  <2> QED
    BY <2>1, <2>2
<1>6. seqPrev' \in [Sources -> -1..Modulus-1] /\ gaps' \in [Sources -> Nat]
  BY <1>1, <1>2, <1>3, <1>4, <1>5, Sizes
<1>7. /\ decoded' \in Seq(AllFrames) /\ Len(decoded') = Len(decoded) + 1 /\ Len(decoded) \in Nat
      /\ \A k \in 1 .. Len(decoded) : decoded'[k] = decoded[k]
      /\ decoded'[Len(decoded) + 1] = f
  BY <1>1, AppendElements
<1>8. \A o \in Sources : Numbers(o)' = IF o = s THEN Numbers(o) \cup {n} ELSE Numbers(o)
  <2>1. ToSet(decoded') = ToSet(decoded) \cup {f}
    <3>1. /\ ToSet(decoded) = {decoded[k] : k \in 1 .. Len(decoded)}
          /\ ToSet(decoded') = {decoded'[k] : k \in 1 .. Len(decoded) + 1}
      <4>1. DOMAIN decoded = 1 .. Len(decoded) /\ DOMAIN decoded' = 1 .. Len(decoded) + 1
        BY <1>1, <1>7
      <4> QED
        BY <4>1 DEF ToSet
    <3>2. 1 .. Len(decoded) + 1 = (1 .. Len(decoded)) \cup {Len(decoded) + 1}
      BY <1>7
    <3> QED
      BY <3>1, <3>2, <1>7
  <2> QED
    BY <2>1 DEF Numbers
<1>9. \A o \in Sources : Numbers(o) \subseteq 1 .. Len(Frames[o]) /\ Len(Frames[o]) \in Nat
  BY <1>1, NumbersFacts
<1>10. \A m \in Numbers(s) : m < n
  BY <1>1, <1>3, NumbersFacts
<1>11. AtLast'
  <2>1. ASSUME NEW o \in Sources
        PROVE  IF Numbers(o)' = {} THEN seqPrev'[o] = -1
               ELSE \E m \in Numbers(o)' :
                       seqPrev'[o] = m % Modulus /\ \A l \in Numbers(o)' : l <= m
    <3>1. CASE o = s
      <4>1. n \in Numbers(o)' /\ seqPrev'[o] = n % Modulus
        BY <3>1, <1>1, <1>2, <1>3, <1>8
      <4>2. \A l \in Numbers(o)' : l <= n
        BY <3>1, <1>3, <1>8, <1>9, <1>10
      <4> QED
        BY <4>1, <4>2
    <3>2. CASE o # s
      <4>1. Numbers(o)' = Numbers(o) /\ seqPrev'[o] = seqPrev[o]
        BY <3>2, <1>1, <1>2, <1>3, <1>8
      <4> QED
        BY <4>1, <1>1 DEF AtLast
    <3> QED
      BY <3>1, <3>2
  <2> QED
    BY <2>1 DEF AtLast
<1>12. DropsAreReported'
  <2>1. \A o \in Sources : GapsAreShort(o) => gaps[o] = Cardinality(MissingBetween(o))
    BY DEF FrameIInv, DropsAreReported
  <2>2. ASSUME NEW o \in Sources, o # s, GapsAreShort(o)'
        PROVE  gaps'[o] = Cardinality(MissingBetween(o)')
    <3>1. Numbers(o)' = Numbers(o)
      BY <2>2, <1>8
    <3>2. MissingBetween(o)' = MissingBetween(o) /\ GapsAreShort(o)
      BY <3>1, <2>2 DEF MissingBetween, GapsAreShort
    <3> QED
      BY <3>2, <2>1, <2>2, <1>1, <1>2, <1>3
  <2>3. gaps'[s] = gaps[s] + Missing(s, n % Modulus)
    BY <1>1, <1>2, <1>3
  <2>4. ASSUME GapsAreShort(s)' PROVE gaps'[s] = Cardinality(MissingBetween(s)')
    <3>4. Numbers(s)' = Numbers(s) \cup {n}
      BY <1>3, <1>8
    <3>5. GapsAreShort(s)
      <4> SUFFICES ASSUME NEW a \in Numbers(s), NEW b \in Numbers(s), a < b,
                          \A l \in Numbers(s) : l <= a \/ b <= l
                   PROVE  b - a <= Modulus
        BY DEF GapsAreShort
      <4>1. b <= n
        BY <1>3, <1>9, <1>10
      <4>2. \A l \in Numbers(s)' : l <= a \/ b <= l
        BY <3>4, <4>1
      <4> QED
        BY <2>4, <3>4, <4>2 DEF GapsAreShort
    <3>6. gaps[s] = Cardinality(MissingBetween(s))
      BY <2>1, <3>5, <1>3
    <3>1. MissingBetween(s)' =
             {m \in DOMAIN Frames[s] \ (Numbers(s) \cup {n}) :
                 \E a, b \in Numbers(s) \cup {n} : a < m /\ m < b}
      BY <1>3, <1>8 DEF MissingBetween
    <3>2. CASE Numbers(s) = {}
      <4>1. MissingBetween(s) = {} /\ MissingBetween(s)' = {}
        BY <3>1, <3>2, <1>3 DEF MissingBetween
      <4>2. seqPrev[s] = -1
        BY <3>2, <1>1, <1>3 DEF AtLast
      <4>3. Missing(s, n % Modulus) = 0
        BY <4>2 DEF Missing
      <4>4. gaps[s] = Cardinality({})
        BY <4>1, <3>6
      <4> QED
        BY <4>1, <4>3, <4>4, <2>3, <1>1, <1>3
    <3>3. CASE Numbers(s) # {}
      <4>1. PICK m \in Numbers(s) : seqPrev[s] = m % Modulus /\ \A l \in Numbers(s) : l <= m
        BY <3>3, <1>1, <1>3 DEF AtLast
      <4>2. m \in 1 .. Len(Frames[s]) /\ m < n
        BY <4>1, <1>3, <1>9, <1>10
      <4>3. n - m - 1 \in 0 .. Modulus - 1
        <5>1. \A l \in Numbers(s)' : l <= m \/ n <= l
          BY <3>4, <4>1, <1>3
        <5>2. m \in Numbers(s)' /\ n \in Numbers(s)'
          BY <3>4, <4>1
        <5>3. n - m <= Modulus
          BY <2>4, <4>2, <5>1, <5>2 DEF GapsAreShort
        <5> QED
          BY <5>3, <4>2, <1>3, Sizes
      <4>4. Missing(s, n % Modulus) = n - m - 1
        <5>1. m % Modulus # -1
          <6>1. m \in Int
            BY <4>2, <1>3
          <6>2. m % Modulus \in 0 .. Modulus - 1
            BY <6>1, Sizes, Division
          <6> QED
            BY <6>2, Sizes
        <5>2. ((n % Modulus) - (m % Modulus) - 1) % Modulus = n - m - 1
          <6>1. m \in Int
            BY <4>2, <1>3
          <6> HIDE DEF n
          <6> QED
            BY <6>1, <4>3, <1>4, Sizes, BetweenWrapped
        <5> QED
          BY <4>1, <5>1, <5>2 DEF Missing
      <4>5. MissingBetween(s)' = MissingBetween(s) \cup (m + 1 .. n - 1)
        <5>1. DOMAIN Frames[s] = 1 .. Len(Frames[s])
          BY <1>3, FramesAssumption
        <5>2. ASSUME NEW l \in MissingBetween(s)'
              PROVE  l \in MissingBetween(s) \cup (m + 1 .. n - 1)
          <6>1. l \in 1 .. Len(Frames[s]) /\ l \notin Numbers(s) /\ l # n
            BY <3>1, <5>1, <5>2
          <6>2. PICK a \in Numbers(s) \cup {n}, b \in Numbers(s) \cup {n} : a < l /\ l < b
            BY <3>1, <5>2
          <6>3. a \in Numbers(s)
            BY <6>1, <6>2, <1>3, <1>9, <1>10
          <6>4. CASE l < m
            BY <6>1, <6>2, <6>3, <6>4, <4>1, <5>1 DEF MissingBetween
          <6>5. CASE l >= m
            <7>1. l < n
              BY <6>1, <6>2, <1>3, <1>9, <1>10
            <7>2. l # m
              BY <6>1, <4>1
            <7> QED
              BY <6>1, <6>5, <7>1, <7>2, <4>2, <1>3
          <6> QED
            BY <6>1, <6>4, <6>5, <4>2, <1>3
        <5>3. ASSUME NEW l \in MissingBetween(s) PROVE l \in MissingBetween(s)'
          <6>1. l \in DOMAIN Frames[s] \ Numbers(s) /\ \E a, b \in Numbers(s) : a < l /\ l < b
            BY <5>3 DEF MissingBetween
          <6>2. l # n
            <7>1. PICK b \in Numbers(s) : l < b
              BY <6>1
            <7>2. b < n /\ b \in Int
              BY <7>1, <1>3, <1>9, <1>10
            <7> QED
              BY <7>1, <7>2, <1>3
          <6> QED
            BY <6>1, <6>2, <3>1
        <5>4. ASSUME NEW l \in m + 1 .. n - 1 PROVE l \in MissingBetween(s)'
          <6>1. l \in 1 .. Len(Frames[s]) /\ m < l /\ l < n /\ l # n
            BY <4>2, <1>3
          <6>2. l \notin Numbers(s)
            BY <6>1, <4>1, <4>2
          <6> QED
            BY <6>1, <6>2, <3>1, <4>1, <5>1
        <5> QED
          BY <5>2, <5>3, <5>4
      <4>6. MissingBetween(s) \cap (m + 1 .. n - 1) = {}
        <5> SUFFICES ASSUME NEW l \in MissingBetween(s), l \in m + 1 .. n - 1 PROVE FALSE
          OBVIOUS
        <5>1. PICK b \in Numbers(s) : l < b
          BY DEF MissingBetween
        <5>2. b <= m /\ b \in Int
          BY <5>1, <4>1, <1>3, <1>9
        <5> QED
          BY <5>1, <5>2, <4>2
      <4>7. IsFiniteSet(MissingBetween(s)) /\ IsFiniteSet(m + 1 .. n - 1)
            /\ Cardinality(m + 1 .. n - 1) = n - m - 1
        <5>1. DOMAIN Frames[s] = 1 .. Len(Frames[s])
          BY <1>3, FramesAssumption
        <5>2. IsFiniteSet(1 .. Len(Frames[s]))
          BY <1>3, FS_Interval
        <5>3. MissingBetween(s) \in SUBSET (1 .. Len(Frames[s]))
          BY <5>1 DEF MissingBetween
        <5>4. IsFiniteSet(MissingBetween(s))
          BY <5>2, <5>3, FS_Subset
        <5>5. m + 1 \in Int /\ n - 1 \in Int /\ m \in Int /\ n \in Int
          BY <4>2, <1>3
        <5>6. /\ IsFiniteSet(m + 1 .. n - 1)
              /\ Cardinality(m + 1 .. n - 1) = IF m + 1 > n - 1 THEN 0 ELSE (n - 1) - (m + 1) + 1
          BY <5>5, FS_Interval
        <5> QED
          BY <5>4, <5>5, <5>6, <4>2
      <4>8. Cardinality(MissingBetween(s)') = Cardinality(MissingBetween(s)) + (n - m - 1)
        <5>1. Cardinality(MissingBetween(s)') =
                 Cardinality(MissingBetween(s)) + Cardinality(m + 1 .. n - 1) - Cardinality({})
          BY <4>5, <4>6, <4>7, FS_Union
        <5>2. Cardinality({}) = 0 /\ Cardinality(MissingBetween(s)) \in Nat
          BY <4>7, FS_EmptySet, FS_CardinalityType
        <5> QED
          BY <5>1, <5>2, <4>3, <4>7
      <4> QED
        BY <4>4, <4>8, <3>6, <2>3
    <3> QED
      BY <3>2, <3>3
  <2> QED
    BY <2>2, <2>4 DEF DropsAreReported
<1> QED
  BY <1>6, <1>11, <1>12

\* Accept keeps the invariant.
LEMMA AcceptKeeps == ASSUME FrameIInv, Accept PROVE FrameIInv'
<1>1. PICK f \in Good \cap Known : decoded' = Append(decoded, f) /\ CheckSeq(f[1], f[2] % Modulus)
  BY DEF Accept
<1>2. /\ Complete /\ buf' = SubSeq(buf, FrameSize + 1, Len(buf))
      /\ UNCHANGED <<sent, cmdBuf, pc, damage, mixed, torn>>
  BY DEF Accept
<1>3. f \in AllFrames /\ CrcMatches(f)
  BY <1>1 DEF Good
<1>4. FrameTypeOK /\ Arriving /\ PassedOn /\ decoded \in Seq(AllFrames)
  BY DEF FrameIInv, FrameTypeOK
<1>5. PICK d \in Nat : d = FrameSize /\ d <= Len(buf)
  BY <1>2, <1>4, CandidateFacts
<1>6. /\ d <= Len(Pipe) /\ f[2] < sent[f[1]].frame
      /\ \A k \in 1 .. Len(decoded) : decoded[k][1] = f[1] => decoded[k][2] < f[2]
      /\ \A i \in 1 .. Len(Pipe) :
            i > d /\ Genuine(Pipe[i]) /\ Pipe[i].from[1] = f[1] => f[2] < Pipe[i].from[2]
  BY <1>2, <1>3, <1>5, AcceptedFrame
<1>7. /\ seqPrev' \in [Sources -> -1..Modulus-1] /\ gaps' \in [Sources -> Nat]
      /\ AtLast' /\ DropsAreReported'
  BY <1>1, <1>3, <1>6, CheckSeqCounts
<1>8. /\ buf' \in Seq(Byte) /\ Len(Pipe) \in Nat /\ Len(Pipe') \in Nat
      /\ Len(Pipe') + d = Len(Pipe) /\ \A i \in 1 .. Len(Pipe') : Pipe'[i] = Pipe[i + d]
  BY <1>2, <1>4, <1>5, BackOfBuffer
<1>9. PICK K \in Nat : K = Len(decoded)
  BY <1>4
<1>10. /\ decoded' \in Seq(AllFrames) /\ Len(decoded') = K + 1
       /\ \A k \in 1 .. K : decoded'[k] = decoded[k]
       /\ decoded'[K + 1] = f
  BY <1>1, <1>3, <1>4, <1>9, AppendElements
<1>11. \A k \in 1 .. K + 1 : k \in 1 .. K \/ k = K + 1
  BY <1>9
<1>12. FrameTypeOK'
  BY <1>2, <1>4, <1>7, <1>8, <1>10 DEF FrameTypeOK, HasMore
<1>13. ASSUME NEW i \in 1 .. Len(Pipe') PROVE OnItsWay(Pipe[i])'
  <2>1. i + d \in 1 .. Len(Pipe) /\ i + d > d
    BY <1>8
  <2>2. Pipe'[i] = Pipe[i + d] /\ OnItsWay(Pipe[i + d])
    BY <1>4, <1>8, <2>1 DEF Arriving
  <2> DEFINE o == Pipe[i + d].from
  <2>3. SUFFICES ASSUME Genuine(Pipe[i + d])
                 PROVE  /\ Earlier(o[2], o[3], sent[o[1]].frame, sent[o[1]].byte)
                        /\ \A k \in 1 .. K + 1 : decoded'[k][1] = o[1] => decoded'[k][2] < o[2]
    BY <1>2, <1>10, <2>2 DEF OnItsWay, Genuine
  <2>4. /\ Earlier(o[2], o[3], sent[o[1]].frame, sent[o[1]].byte)
        /\ \A k \in 1 .. K : decoded[k][1] = o[1] => decoded[k][2] < o[2]
    BY <2>2, <2>3, <1>9 DEF OnItsWay
  <2>5. f[1] = o[1] => f[2] < o[2]
    BY <2>1, <2>3, <1>6
  <2> HIDE DEF o
  <2> QED
    BY <2>4, <2>5, <1>10, <1>11
<1>14. Arriving'
  <2>1. ASSUME NEW i \in 1 .. Len(Pipe'), NEW j \in 1 .. Len(Pipe'), i < j
        PROVE  Before(Pipe'[i], Pipe'[j])
    <3>1. i + d \in 1 .. Len(Pipe) /\ j + d \in 1 .. Len(Pipe) /\ i + d < j + d
      BY <1>8, <2>1
    <3>2. Before(Pipe[i + d], Pipe[j + d])
      BY <3>1, <1>4 DEF Arriving
    <3> QED
      BY <3>2, <1>8
  <2> QED
    BY <2>1, <1>13 DEF Arriving
<1>15. PassedOn'
  <2>1. \A k \in 1 .. K : decoded[k][2] < sent[decoded[k][1]].frame
    BY <1>4, <1>9 DEF PassedOn
  <2>2. \A k \in 1 .. K + 1 : decoded'[k][2] < sent'[decoded'[k][1]].frame
    BY <2>1, <1>2, <1>6, <1>10, <1>11
  <2>3. ASSUME NEW k \in 1 .. K + 1, NEW l \in 1 .. K + 1, k < l, decoded'[k][1] = decoded'[l][1]
        PROVE  decoded'[k][2] < decoded'[l][2]
    <3>1. k \in 1 .. K
      BY <1>9, <2>3
    <3>2. CASE l = K + 1
      BY <3>1, <3>2, <2>3, <1>6, <1>9, <1>10
    <3>3. CASE l \in 1 .. K
      BY <3>1, <3>3, <2>3, <1>4, <1>9, <1>10 DEF PassedOn
    <3> QED
      BY <3>2, <3>3, <1>11
  <2> QED
    BY <2>2, <2>3, <1>10 DEF PassedOn
<1> QED
  BY <1>7, <1>12, <1>14, <1>15 DEF FrameIInv

-----------------------------------------------------------------------------
(* FrameStream: the theorems                                                 *)

\* The invariant holds at the start.
LEMMA FrameInitEstablishes == FrameInit => FrameIInv
<1> SUFFICES ASSUME FrameInit PROVE FrameIInv
  OBVIOUS
<1>1. /\ sent = [s \in Sources |-> [frame |-> 1, byte |-> 1]]
      /\ cmdBuf = <<>> /\ buf = <<>> /\ pc = "read" /\ decoded = <<>>
      /\ seqPrev = [s \in Sources |-> -1] /\ gaps = [s \in Sources |-> 0]
      /\ damage = 0 /\ mixed = FALSE /\ torn = {}
  BY DEF FrameInit
<1>2. \A s \in Sources : HasMore(s) => sent[s].byte <= Len(Frames[s][sent[s].frame])
  <2> SUFFICES ASSUME NEW s \in Sources, 1 <= Len(Frames[s]) PROVE 1 <= Len(Frames[s][1])
    BY <1>1 DEF HasMore
  <2>1. Frames[s] \in Seq(Seq(Nat)) /\ 1 \in DOMAIN Frames[s]
    BY FramesAssumption
  <2>2. Frames[s][1] \in Seq(Nat) /\ WellFormed(Frames[s][1])
    BY <2>1, FramesAssumption
  <2>3. Len(Frames[s][1]) \in Nat /\ Len(Frames[s][1]) >= Header + Trailer
    BY <2>2 DEF WellFormed
  <2> QED
    BY <2>3, Sizes
<1>3. FrameTypeOK
  <2>1. sent \in [Sources -> [frame : Nat \ {0}, byte : Nat \ {0}]]
    BY <1>1
  <2>2. /\ buf \in Seq(Byte) /\ cmdBuf \in Seq(Byte)
        /\ decoded \in Seq(AllFrames) /\ torn \subseteq AllFrames
    BY <1>1
  <2>3. seqPrev \in [Sources -> -1..Modulus-1] /\ gaps \in [Sources -> Nat]
    BY <1>1, Sizes
  <2>4. mixed \in BOOLEAN /\ pc \in {"read", "loop"}
    BY <1>1
  <2>5. damage \in 0 .. MaxDamage
    BY <1>1, Sizes
  <2> QED
    BY <1>2, <2>1, <2>2, <2>3, <2>4, <2>5 DEF FrameTypeOK
<1>4. Len(Pipe) = 0
  BY <1>1 DEF Pipe
<1>5. Arriving /\ PassedOn
  BY <1>1, <1>4 DEF Arriving, PassedOn
<1>6. \A s \in Sources : Numbers(s) = {} /\ MissingBetween(s) = {}
  BY <1>1 DEF Numbers, MissingBetween, ToSet
<1>7. AtLast /\ DropsAreReported
  BY <1>1, <1>6, FS_EmptySet DEF AtLast, DropsAreReported
<1> QED
  BY <1>3, <1>5, <1>7 DEF FrameIInv

\* Every step of the specification keeps the invariant.
LEMMA FrameNextKeeps == FrameIInv /\ [FrameNext]_frameVars => FrameIInv'
<1> SUFFICES ASSUME FrameIInv, [FrameNext]_frameVars PROVE FrameIInv'
  OBVIOUS
<1>1. CASE Parser
  BY <1>1, ReadKeeps, ScanKeeps, WaitKeeps, AcceptKeeps, RefuseKeeps DEF Parser
<1>2. CASE \E s \in Sources : Source(s)
  BY <1>2, ReceiveKeeps, DamagedKeeps DEF Source
<1>3. CASE UNCHANGED frameVars
  <2>1. /\ UNCHANGED <<sent, cmdBuf, buf, pc, decoded, seqPrev, gaps, torn, damage, mixed>>
        /\ UNCHANGED Pipe
    BY <1>3 DEF frameVars, parser, Pipe
  <2>2. FrameTypeOK'
    BY <2>1 DEF FrameIInv, FrameTypeOK, HasMore
  <2>3. Arriving'
    BY <2>1 DEF FrameIInv, Arriving, OnItsWay, Before, Genuine
  <2> QED
    BY <2>1, <2>2, <2>3, PipeOnly
<1> QED
  BY <1>1, <1>2, <1>3 DEF FrameNext

\* The inductive invariant holds in every reachable state.
THEOREM FrameInvariance == FrameSpec => []FrameIInv
BY FrameInitEstablishes, FrameNextKeeps, PTL DEF FrameSpec

\* The parsers of both ends pass on what was sent, once and in the order of its source, whatever
\* is mixed, lost or corrupted on the way.
THEOREM CommandsAreGenuine == FrameSpec => []OnlyWhatWasSent
<1>1. FrameIInv => OnlyWhatWasSent
  <2> SUFFICES ASSUME FrameIInv PROVE OnlyWhatWasSent
    OBVIOUS
  <2>1. FrameTypeOK /\ PassedOn
    BY DEF FrameIInv
  <2>2. DOMAIN decoded = 1 .. Len(decoded)
    BY <2>1 DEF FrameTypeOK
  <2> QED
    BY <2>1, <2>2 DEF OnlyWhatWasSent, PassedOn, ToSet
<1> QED
  BY <1>1, FrameInvariance, PTL

\* The gaps that the ground reports add up to the frames that are missing, however often their
\* numbers have wrapped, as long as no single gap is as wide as the numbers.
THEOREM GapsAreExact == FrameSpec => []DropsAreReported
<1>1. FrameIInv => DropsAreReported
  BY DEF FrameIInv
<1> QED
  BY <1>1, FrameInvariance, PTL

\* A frame that is in the buffer in one piece is there byte by byte.
LEMMA PieceFacts ==
    ASSUME NEW f \in AllFrames, NEW q \in Seq(Byte)
    PROVE  InOnePiece(f, q) <=>
              \E i \in Nat :
                  /\ i + Len(Bytes[f]) <= Len(q)
                  /\ \A j \in 1 .. Len(Bytes[f]) : q[i + j] = Bytes[f][j]
<1>1. PICK L \in Nat \ {0} : L = Len(Bytes[f]) /\ Bytes[f] \in Seq(Byte)
  BY BytesFacts
<1>2. PICK N \in Nat : N = Len(q)
  OBVIOUS
<1>3. ASSUME NEW i \in Nat, i + L <= N
      PROVE  Bytes[f] = SubSeq(q, i + 1, i + L) <=> \A j \in 1 .. L : q[i + j] = Bytes[f][j]
  <2>1. /\ SubSeq(q, i + 1, i + L) \in Seq(Byte) /\ Len(SubSeq(q, i + 1, i + L)) = L
        /\ \A j \in 1 .. L : SubSeq(q, i + 1, i + L)[j] = q[j + i]
    <3>1. i + L \in Nat /\ i <= i + L /\ (i + L) - i = L
      BY <1>1
    <3> QED
      BY <1>2, <1>3, <3>1, PartElements
  <2>2. \A j \in 1 .. L : j + i = i + j
    OBVIOUS
  <2> QED
    BY <1>1, <2>1, <2>2, SeqEqual
<1>4. \A i : i \in 0 .. N - L <=> i \in Nat /\ i + L <= N
  BY <1>1, <1>2
<1> QED
  BY <1>1, <1>2, <1>3, <1>4 DEF InOnePiece

\* A piece that begins behind what is taken off the front of the buffer stays in one piece.
LEMMA PieceStays ==
    ASSUME buf \in Seq(Byte), NEW f \in AllFrames, NEW d \in Nat, d <= Len(buf),
           buf' = SubSeq(buf, d + 1, Len(buf)),
           NEW i \in Nat, d <= i, i + Len(Bytes[f]) <= Len(buf),
           \A j \in 1 .. Len(Bytes[f]) : buf[i + j] = Bytes[f][j]
    PROVE  InOnePiece(f, buf')
<1>1. PICK L \in Nat \ {0} : L = Len(Bytes[f])
  BY BytesFacts
<1>2. PICK N \in Nat : N = Len(buf)
  OBVIOUS
<1>3. /\ buf' \in Seq(Byte) /\ Len(buf') = N - d
      /\ \A j \in 1 .. N - d : buf'[j] = buf[j + d]
  BY <1>2, PartElements
<1>4. i - d \in Nat /\ (i - d) + L <= N - d
  BY <1>1, <1>2
<1>5. \A j \in 1 .. L : buf'[(i - d) + j] = Bytes[f][j]
  <2>1. \A j \in 1 .. L : (i - d) + j \in 1 .. N - d /\ ((i - d) + j) + d = i + j
    BY <1>1, <1>2
  <2> QED
    BY <1>1, <1>3, <2>1
<1> QED
  BY <1>1, <1>3, <1>4, <1>5, PieceFacts

\* What is taken off the front of the buffer with a refused candidate or an accepted one is all
\* of a frame in one piece, or none of it.
LEMMA PieceOrCandidate ==
    ASSUME FrameTypeOK, Complete, buf' = SubSeq(buf, FrameSize + 1, Len(buf)),
           NEW f \in AllFrames, InOnePiece(f, buf)
    PROVE  /\ InOnePiece(f, buf') \/ f \in Touched(Candidate)
           /\ \A g \in Good : InOnePiece(f, buf') \/ f = g
<1>1. buf \in Seq(Byte)
  BY DEF FrameTypeOK
<1>2. PICK i \in Nat :
         /\ i + Len(Bytes[f]) <= Len(buf)
         /\ \A j \in 1 .. Len(Bytes[f]) : buf[i + j] = Bytes[f][j]
  BY <1>1, PieceFacts
<1>3. PICK d \in Nat : d = FrameSize
  BY CandidateFacts
<1>4. d <= Len(buf) /\ Candidate \in Seq(Byte) /\ Len(Candidate) = d
      /\ \A k \in 1 .. d : Candidate[k] = buf[k]
  BY <1>3, CandidateFacts
<1>5. CASE d <= i
  <2>1. InOnePiece(f, buf')
    BY <1>1, <1>2, <1>3, <1>4, <1>5, PieceStays
  <2> QED
    BY <2>1
<1>6. CASE ~(d <= i)
  <2>1. i + 1 \in 1 .. d /\ 1 \in 1 .. Len(Bytes[f])
    <3>1. Len(Bytes[f]) \in Nat \ {0}
      BY BytesFacts
    <3> QED
      BY <3>1, <1>6
  <2>2. Candidate[i + 1] = Bytes[f][1]
    BY <1>2, <1>4, <2>1
  <2>3. f \in Touched(Candidate)
    BY <1>4, <2>1, <2>2, TouchedFrames
  <2>4. ASSUME NEW g \in Good PROVE f = g
    <3>1. g \in AllFrames /\ Candidate = Bytes[g] /\ Len(Bytes[g]) = d
      BY <1>4 DEF Good, CrcMatches
    <3>2. Bytes[g][i + 1] = Bytes[f][1] /\ i + 1 \in 1 .. Len(Bytes[g])
      BY <3>1, <2>1, <2>2
    <3> QED
      BY <3>1, <3>2, <2>1, SameOrigin
  <2> QED
    BY <2>3, <2>4
<1> QED
  BY <1>5, <1>6

\* The parser loses a frame that is in its buffer in one piece only to a candidate that it
\* refused and that reached into the frame.
THEOREM OnlyRefusalLoses == FrameSpec => LostOnlyToRefusal
<1>1. ASSUME FrameIInv, [FrameNext]_frameVars, NEW f \in Known, InOnePiece(f, buf),
             f \notin ToSet(decoded)
      PROVE  InOnePiece(f, buf') \/ f \in ToSet(decoded') \/ f \in torn'
  <2>1. FrameTypeOK /\ buf \in Seq(Byte) /\ cmdBuf \in Seq(Byte) /\ f \in AllFrames
    BY <1>1 DEF FrameIInv, FrameTypeOK, Known
  <2>2. CASE UNCHANGED buf
    BY <1>1, <2>2 DEF InOnePiece
  <2>3. PICK i \in Nat :
           /\ i + Len(Bytes[f]) <= Len(buf)
           /\ \A j \in 1 .. Len(Bytes[f]) : buf[i + j] = Bytes[f][j]
    BY <1>1, <2>1, PieceFacts
  <2>4. CASE Read
    <3>1. buf' = buf \o cmdBuf
      BY <2>4 DEF Read
    <3>2. PICK L \in Nat \ {0} : L = Len(Bytes[f])
      BY <2>1, BytesFacts
    <3>3. PICK N \in Nat, M \in Nat : N = Len(buf) /\ M = Len(cmdBuf)
      BY <2>1
    <3>4. /\ buf' \in Seq(Byte) /\ Len(buf') = N + M
          /\ \A k \in 1 .. N + M : buf'[k] = IF k <= N THEN buf[k] ELSE cmdBuf[k - N]
      BY <2>1, <3>1, <3>3, ConcatProperties
    <3>5. \A j \in 1 .. L : i + j \in 1 .. N + M /\ i + j <= N
      BY <2>3, <3>2, <3>3
    <3>6. i + L <= N + M /\ \A j \in 1 .. L : buf'[i + j] = Bytes[f][j]
      BY <2>3, <3>2, <3>3, <3>4, <3>5
    <3> QED
      BY <2>1, <3>2, <3>4, <3>6, PieceFacts
  <2>5. CASE Scan
    <3>1. i + 1 \in Syncs
      <4>1. 1 \in 1 .. Len(Bytes[f]) /\ i + 1 \in 1 .. Len(buf)
        <5>1. Len(Bytes[f]) \in Nat \ {0} /\ Len(buf) \in Nat
          BY <2>1, BytesFacts
        <5> QED
          BY <5>1, <2>3
      <4>2. Bytes[f][1].v = Frames[f[1]][f[2]][1] /\ Frames[f[1]][f[2]][1] = Sync
        BY <2>1, <4>1, BytesFacts, FrameFacts DEF WellFormed
      <4>3. DOMAIN buf = 1 .. Len(buf)
        BY <2>1
      <4> QED
        BY <2>3, <4>1, <4>2, <4>3 DEF Syncs
    <3>2. PICK n \in Syncs : (\A k \in Syncs : n <= k) /\ buf' = SubSeq(buf, n, Len(buf))
      BY <2>5, <3>1 DEF Scan
    <3>3. n \in 1 .. Len(buf) /\ n <= i + 1 /\ Len(buf) \in Nat
      BY <2>1, <3>1, <3>2 DEF Syncs
    <3>4. PICK d \in Nat : n = d + 1 /\ d <= i /\ d <= Len(buf)
      <4>1. n - 1 \in Nat /\ n = (n - 1) + 1 /\ n - 1 <= i /\ n - 1 <= Len(buf)
        BY <3>3
      <4> QED
        BY <4>1
    <3> QED
      BY <2>1, <2>3, <3>2, <3>4, PieceStays
  <2>6. CASE Accept
    <3>1. PICK g \in Good \cap Known : decoded' = Append(decoded, g)
      BY <2>6 DEF Accept
    <3>2. Complete /\ buf' = SubSeq(buf, FrameSize + 1, Len(buf))
      BY <2>6 DEF Accept
    <3>3. InOnePiece(f, buf') \/ f = g
      BY <1>1, <2>1, <3>1, <3>2, PieceOrCandidate
    <3>4. g \in ToSet(decoded')
      <4>1. decoded \in Seq(AllFrames) /\ g \in AllFrames
        BY <2>1, <3>1 DEF FrameTypeOK, Known
      <4>2. /\ decoded' \in Seq(AllFrames) /\ decoded'[Len(decoded) + 1] = g
            /\ Len(decoded') = Len(decoded) + 1 /\ Len(decoded) \in Nat
        BY <3>1, <4>1, AppendElements
      <4>3. Len(decoded) + 1 \in DOMAIN decoded'
        BY <4>2
      <4> QED
        BY <4>2, <4>3 DEF ToSet
    <3> QED
      BY <3>3, <3>4
  <2>7. CASE Refuse
    <3>1. /\ Complete /\ buf' = SubSeq(buf, FrameSize + 1, Len(buf)) /\ Good \cap Known = {}
          /\ torn' = IF Good = {} THEN torn \cup Touched(Candidate) ELSE torn
      BY <2>7 DEF Refuse, AfterRefusal
    <3>2. CASE Good = {}
      BY <1>1, <2>1, <3>1, <3>2, PieceOrCandidate
    <3>3. CASE Good # {}
      <4>1. PICK g \in Good : g \notin Known
        BY <3>1, <3>3
      <4>2. InOnePiece(f, buf') \/ f = g
        BY <1>1, <2>1, <3>1, <4>1, PieceOrCandidate
      <4> QED
        BY <4>1, <4>2, <1>1
    <3> QED
      BY <3>2, <3>3
  <2>8. CASE Wait \/ \E s \in Sources : Source(s)
    <3>1. UNCHANGED buf
      BY <2>8 DEF Wait, Source, Receive, Damaged, parser
    <3> QED
      BY <3>1, <2>2
  <2>9. CASE UNCHANGED frameVars
    BY <2>9, <2>2 DEF frameVars, parser
  <2> QED
    BY <1>1, <2>4, <2>5, <2>6, <2>7, <2>8, <2>9 DEF FrameNext, Parser
<1>2. FrameIInv /\ [FrameNext]_frameVars =>
         [\A f \in Known :
             InOnePiece(f, buf) /\ f \notin ToSet(decoded) =>
                 InOnePiece(f, buf') \/ f \in ToSet(decoded') \/ f \in torn']_frameVars
  BY <1>1
<1> QED
  BY <1>2, FrameInvariance, PTL DEF FrameSpec, LostOnlyToRefusal
=============================================================================
