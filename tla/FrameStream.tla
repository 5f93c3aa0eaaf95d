---------------------------- MODULE FrameStream ----------------------------
(***************************************************************************)
(* The byte stream of command and telemetry frames: the parser that          *)
(* command_receiver_task.py and ground/receiver.py share word for word, in    *)
(* front of it the buffer into which the radio's reader and every client of   *)
(* the tunnel (tee_server.py) append what they happen to have received, and   *)
(* behind it the sequence check of the ground.                               *)
(*                                                                         *)
(* A byte is its value and where it comes from.  The CRC is taken to detect   *)
(* every frame that is not made of the bytes of one frame, in order.         *)
(***************************************************************************)
EXTENDS Integers, FiniteSets, Sequences, SequencesExt

CONSTANTS
    Sources,    \* who feeds the buffer, each with packet types of its own
    Frames,     \* the frames each of them sends: sequences of byte values
    Unknown,    \* the sources whose packet types the parser's registry does not have
    Sync,       \* SYNC_BYTE
    Header,     \* HEADER_SIZE: the sync byte first, the length last
    Trailer,    \* CRC_SIZE
    Noise,      \* the values a byte can be corrupted to
    Modulus,    \* 256, of the sequence numbers
    MaxDamage   \* bound on the bytes lost or corrupted

WellFormed(f) ==
    /\ Len(f) >= Header + Trailer
    /\ f[1] = Sync /\ Len(f) = Header + f[Header] + Trailer

ASSUME SizesAssumption ==
    /\ Header \in Nat \ {0, 1} /\ Trailer \in Nat \ {0} /\ Sync \in Nat /\ Noise \subseteq Nat
    /\ Modulus \in Nat \ {0} /\ Unknown \subseteq Sources /\ MaxDamage \in Nat
ASSUME FramesAssumption ==
    \A s \in Sources :
        Frames[s] \in Seq(Seq(Nat)) /\ \A n \in DOMAIN Frames[s] : WellFormed(Frames[s][n])

VARIABLES
    sent,      \* the place of the byte each source sends next
    cmdBuf,    \* SerialTransport._cmd_buf
    buf,       \* the parser's _buf
    pc,        \* is the parser between two reads, or in its loop?
    decoded,   \* the frames it has passed on, as <<source, number>>
    seqPrev,   \* FrameReader._seq_prev, -1 before the first frame
    gaps,      \* the frames it has reported as dropped
    damage,    \* the bytes lost or corrupted
    mixed,     \* history: has a source fed bytes inside a frame of another?
    torn       \* history: frames with a byte in a candidate that was refused

parser == <<buf, pc, decoded, seqPrev, gaps, torn>>
frameVars == <<sent, cmdBuf, parser, damage, mixed>>

AllFrames == UNION {{<<s, n>> : n \in DOMAIN Frames[s]} : s \in Sources}
Known == {f \in AllFrames : f[1] \notin Unknown}

\* What a source sends, as bytes that know their origin.
Bytes == [f \in AllFrames |->
    [i \in DOMAIN Frames[f[1]][f[2]] |-> [v |-> Frames[f[1]][f[2]][i], from |-> <<f[1], f[2], i>>]]]
Nowhere == <<>>
Byte == (UNION {ToSet(Bytes[f]) : f \in AllFrames}) \cup [v : Noise, from : {Nowhere}]

\* What is left for a source to send, and the place of its next byte.
HasMore(s) == sent[s].frame <= Len(Frames[s])
Following(s, frame, byte) ==
    IF byte < Len(Frames[s][frame]) THEN [frame |-> frame, byte |-> byte + 1]
    ELSE [frame |-> frame + 1, byte |-> 1]

FrameTypeOK ==
    /\ \A s \in Sources : HasMore(s) => sent[s].byte <= Len(Frames[s][sent[s].frame])
    /\ sent \in [Sources -> [frame : Nat \ {0}, byte : Nat \ {0}]]
    /\ buf \in Seq(Byte) /\ cmdBuf \in Seq(Byte)
    /\ pc \in {"read", "loop"}
    /\ decoded \in Seq(AllFrames) /\ torn \subseteq AllFrames
    /\ seqPrev \in [Sources -> -1..Modulus-1] /\ gaps \in [Sources -> Nat]
    /\ damage \in 0..MaxDamage /\ mixed \in BOOLEAN

FrameInit ==
    /\ sent = [s \in Sources |-> [frame |-> 1, byte |-> 1]]
    /\ cmdBuf = <<>> /\ buf = <<>> /\ pc = "read" /\ decoded = <<>>
    /\ seqPrev = [s \in Sources |-> -1] /\ gaps = [s \in Sources |-> 0]
    /\ damage = 0 /\ mixed = FALSE /\ torn = {}

-----------------------------------------------------------------------------
(* The sources *)

\* Between two frames?
AtBoundary(s) == sent[s].byte = 1

NextByte(s) == Bytes[<<s, sent[s].frame>>][sent[s].byte]

\* feed_command_bytes(), from a tunnel client's recv() or the serial port's read(): any
\* number of bytes, wherever the others are in their frames. A chunk of several bytes is
\* as many of these steps before the next Read. The parser's loop touches nothing that
\* the sources do: they are held up while it runs.
Feed(s) ==
    /\ pc = "read" /\ HasMore(s)
    /\ sent' = [sent EXCEPT ![s] = Following(s, @.frame, @.byte)]
    /\ mixed' = (mixed \/ \E o \in Sources \ {s} : ~AtBoundary(o))

Receive(s) ==
    /\ Feed(s)
    /\ cmdBuf' = Append(cmdBuf, NextByte(s))
    /\ UNCHANGED <<parser, damage>>

\* One byte is corrupted on the way, or, with v = Nowhere, lost.
Damaged(s, v) ==
    /\ damage < MaxDamage /\ damage' = damage + 1
    /\ Feed(s) /\ v # <<NextByte(s).v>>
    /\ cmdBuf' = IF v = Nowhere THEN cmdBuf ELSE Append(cmdBuf, [v |-> v[1], from |-> Nowhere])
    /\ UNCHANGED parser

-----------------------------------------------------------------------------
(* The parser *)

Read ==
    /\ pc = "read" /\ cmdBuf # <<>>
    /\ buf' = buf \o cmdBuf /\ cmdBuf' = <<>>
    /\ pc' = "loop"
    /\ UNCHANGED <<sent, decoded, seqPrev, gaps, damage, mixed, torn>>

Syncs == {i \in DOMAIN buf : buf[i].v = Sync}

Enough == Len(buf) >= Header + Trailer
InSync == Enough /\ buf[1].v = Sync

FrameSize == Header + buf[Header].v + Trailer

\* Mutant: a frame that ends where the buffer ends has to wait.
CompleteLate == IF InSync THEN Len(buf) > FrameSize ELSE FALSE

\* The buffer begins with a candidate as long as its length field says.
Complete == IF InSync THEN Len(buf) >= FrameSize ELSE FALSE

\* One more pass of the loop that changes the buffer only.
Tried == UNCHANGED <<sent, cmdBuf, decoded, seqPrev, gaps, damage, mixed>>

\* find(): what is in front of the first sync byte goes, or everything.
Scan ==
    /\ pc = "loop" /\ Enough
    /\ ~InSync
    /\ \/ Syncs = {} /\ buf' = <<>>
       \/ \E n \in Syncs : (\A i \in Syncs : n <= i) /\ buf' = SubSeq(buf, n, Len(buf))
    /\ UNCHANGED <<pc, torn>> /\ Tried

Wait ==
    /\ pc = "loop"
    /\ Enough => InSync /\ ~Complete
    /\ pc' = "read"
    /\ UNCHANGED <<buf, torn>> /\ Tried

Candidate == SubSeq(buf, 1, FrameSize)

Origins(bytes) == {b.from : b \in ToSet(bytes)}
Touched(bytes) == {<<o[1], o[2]>> : o \in Origins(bytes) \ {Nowhere}}

\* Mutant: the CRC is not looked at, only the place where the frame begins.
HeaderMatches(f) == Candidate[1].from = <<f[1], f[2], 1>>

\* The candidate is the frame f: the CRC agrees.
CrcMatches(f) == Candidate = Bytes[f]

Good == {f \in AllFrames : CrcMatches(f)}

\* Mutant: what follows a refused frame is thrown away with it.
AfterRefusalNothing == <<>>

AfterRefusal == SubSeq(buf, FrameSize + 1, Len(buf))

\* Mutant: the number of the last frame instead of the one after it is expected.
MissingFromPrev(s, seq) == IF seqPrev[s] = -1 THEN 0 ELSE (seq - seqPrev[s]) % Modulus

\* _check_seq(): how many were dropped before this frame, modulo 256.
Missing(s, seq) == IF seqPrev[s] = -1 THEN 0 ELSE (seq - seqPrev[s] - 1) % Modulus

CheckSeq(s, seq) ==
    /\ gaps' = [gaps EXCEPT ![s] = @ + Missing(s, seq)]
    /\ seqPrev' = [seqPrev EXCEPT ![s] = seq]

\* unpack() / decode_frame() accept ...
Accept ==
    /\ pc = "loop" /\ Complete
    /\ \E f \in Good \cap Known :
          decoded' = Append(decoded, f) /\ CheckSeq(f[1], f[2] % Modulus)
    /\ buf' = SubSeq(buf, FrameSize + 1, Len(buf))
    /\ UNCHANGED <<sent, cmdBuf, pc, damage, mixed, torn>>

\* ... or refuse, and as many bytes are gone as the length said.
Refuse ==
    /\ pc = "loop" /\ Complete
    /\ Good \cap Known = {}
    /\ buf' = AfterRefusal
    /\ torn' = IF Good = {} THEN torn \cup Touched(Candidate) ELSE torn
    /\ UNCHANGED pc /\ Tried

Parser == Read \/ Scan \/ Wait \/ Accept \/ Refuse

Source(s) == Receive(s) \/ \E v \in {<<x>> : x \in Noise} \cup {Nowhere} : Damaged(s, v)

FrameNext == Parser \/ \E s \in Sources : Source(s)

FrameSpec ==
    /\ FrameInit /\ [][FrameNext]_frameVars
    /\ WF_frameVars(Parser)
    /\ \A s \in Sources : SF_frameVars(Source(s))

-----------------------------------------------------------------------------
(* Properties *)

\* Whatever is mixed, lost or corrupted, a command is passed on only if it was sent, only
\* once, and in the order in which its source sent it.
OnlyWhatWasSent ==
    /\ FrameTypeOK
    /\ \A i, j \in DOMAIN decoded :
          i < j /\ decoded[i][1] = decoded[j][1] => decoded[i][2] < decoded[j][2]
    /\ \A f \in ToSet(decoded) : f[2] < sent[f[1]].frame

\* The frame f is there in one piece.
InOnePiece(f, bytes) ==
    \E i \in 0..Len(bytes) - Len(Bytes[f]) : Bytes[f] = SubSeq(bytes, i + 1, i + Len(Bytes[f]))

\* A frame that has reached the parser in one piece is lost only to a refused candidate
\* that reached into it: neither the scan for the sync byte nor the wait for the rest of
\* a frame may lose one.
LostOnlyToRefusal ==
    [][\A f \in Known :
          InOnePiece(f, buf) /\ f \notin ToSet(decoded) =>
              InOnePiece(f, buf') \/ f \in ToSet(decoded') \/ f \in torn']_frameVars

\* The numbers of the frames of s that were passed on, and those missing between them.
Numbers(s) == {f[2] : f \in {g \in ToSet(decoded) : g[1] = s}}
MissingBetween(s) ==
    {n \in DOMAIN Frames[s] \ Numbers(s) : \E a, b \in Numbers(s) : a < n /\ n < b}

\* Fewer than Modulus frames in a row are missing, wherever some are.
GapsAreShort(s) ==
    \A a, b \in Numbers(s) :
        a < b /\ (\A n \in Numbers(s) : n <= a \/ b <= n) => b - a <= Modulus

\* What the ground reports as dropped is what is missing between the frames it has, however
\* often the numbers have wrapped, as long as no single gap is as wide as they are.
DropsAreReported ==
    \A s \in Sources : GapsAreShort(s) => gaps[s] = Cardinality(MissingBetween(s))

\* On an undamaged stream whose sources take turns frame by frame, every frame arrives.
QuietStreamArrives ==
    \A f \in Known :
        <>(f \in ToSet(decoded) \/ damage > 0 \/ mixed)

=============================================================================
