---------------------------- MODULE CommandProofs ----------------------------
(***************************************************************************)
(* Proofs about the two ways of the ground's commands through the DataStore.  *)
(* CommandFlow: for any number of commands and copies, and a SEQ of any       *)
(* width.  RadioConfig: for any configurations that the ground may ask for,   *)
(* any limits, and any number of commands and of lost reads and writes.       *)
(***************************************************************************)
EXTENDS CommandFlow, RadioConfig, SequenceTheorems, TLAPS

(* Part 1: CommandFlow                                                       *)

\* The transmissions that the ground may have made so far.
Transmissions == IF sent = 0 THEN 0 ELSE (sent - 1) * MaxCopies + copies

\* One of the first n frames that the ground sends.
IsCommand(fr, n) ==
    fr \in Frames /\ fr.kind # "none" /\ fr.n \in 1 .. n /\ fr.seq = (fr.n - 1) % SeqMod

\* What the ground sends, the radio holds and the receiver has in hand are commands, in order,
\* and a setting is never newer than the commands still on their way.
Ordered ==
    /\ sent = 0 => copies = 0
    /\ sent > 0 => copies >= 1
    /\ current = NoFrame \/ (IsCommand(current, sent) /\ current.n = sent)
    /\ setting <= sent
    /\ \A i \in 1 .. Len(uplink) : IsCommand(uplink[i], sent) /\ setting <= uplink[i].n
    /\ \A i, j \in 1 .. Len(uplink) : i < j => uplink[i].n <= uplink[j].n
    /\ dispatched + Len(uplink) <= Transmissions
    /\ rpc # "idle" => IsCommand(frame, sent) /\ (frame.kind = "setting" => frame.n <= setting)
    /\ rpc = "check" => frame.kind = "launch_ok"

\* An answer to a setting carries the SEQ of one that has been applied.
Answered(ack) == ack.kind = "setting" => \E n \in 1 .. setting : ack.seq = (n - 1) % SeqMod

Answers ==
    /\ \A i \in 1 .. Len(downlink) : Answered(downlink[i])
    /\ MaxSent <= SeqMod => believed <= setting

\* A LAUNCH_OK in the DataStore is the last one dispatched, and is one cycle old at most.
Young ==
    /\ launchKey # 0 => launchKey = dispatched
    /\ fpc = "clear_launch" => launchKey # 0
    /\ keyAge <= 1
    /\ launchKey # 0 /\ fpc \in {"transition", "publish"} => keyAge = 0

\* As long as no stage has been published since, one that was or will be rejected was judged
\* by the stage that the flight stage task still has until its _transition().
Judged ==
    /\ \A d \in Dispatches : d > dispatched => answers[d] = "none"
    /\ fpc \in {"poll_arm", "clear_arm", "poll_launch", "clear_launch"} => stage = stageKey
    /\ launchKey # 0 /\ keyAge = 0 =>
          /\ answers[launchKey] = "rejected" => stageKey # ARMED
          /\ rpc = "ack" /\ frame.kind = "launch_ok" /\ status = ACK_REJECTED => stageKey # ARMED

\* The inductive invariant of CommandFlow.
CommandIInv == CommandTypeOK /\ Ordered /\ Answers /\ Young /\ Judged

-----------------------------------------------------------------------------
(* Numbers and queues                                                        *)

\* What Append() does to a queue, element by element.
LEMMA AppendElements ==
    ASSUME NEW S, NEW q \in Seq(S), NEW e \in S
    PROVE  /\ Append(q, e) \in Seq(S) /\ Len(Append(q, e)) = Len(q) + 1
           /\ \A i \in 1 .. Len(q) : Append(q, e)[i] = q[i]
           /\ Append(q, e)[Len(q) + 1] = e
BY AppendProperties

\* What taking the head off a queue does to it, element by element.
LEMMA TailElements ==
    ASSUME NEW S, NEW q \in Seq(S), q # <<>>
    PROVE  /\ Head(q) \in S /\ Head(q) = q[1]
           /\ Tail(q) \in Seq(S) /\ Len(Tail(q)) = Len(q) - 1 /\ Len(q) \in Nat \ {0}
           /\ \A i \in 1 .. Len(q) - 1 : Tail(q)[i] = q[i + 1]
BY SMT

\* The constants are positive, and numbers wrap at SeqMod.
LEMMA Constants ==
    /\ MaxSent \in Nat \ {0} /\ MaxCopies \in Nat \ {0} /\ SeqMod \in Nat \ {0}
    /\ MaxSent * MaxCopies \in Nat
<1>1. MaxSent \in Nat \ {0} /\ MaxCopies \in Nat \ {0} /\ SeqMod \in Nat \ {0}
  BY CommandAssumption
<1> QED
  BY <1>1

\* The SEQ byte is below SeqMod.
LEMMA SeqByte == ASSUME NEW n \in Int PROVE n % SeqMod \in 0 .. SeqMod - 1
BY Constants, SMT

\* A number below SeqMod does not wrap.
LEMMA WithinWidth == ASSUME NEW n \in 0 .. SeqMod - 1 PROVE n % SeqMod = n
BY Constants, SMT

\* No more is transmitted than the bounds allow.
LEMMA TransmissionFacts ==
    ASSUME CommandTypeOK, Ordered
    PROVE  Transmissions \in Nat /\ Transmissions <= MaxSent * MaxCopies
<1>1. CASE sent = 0
  BY <1>1, Constants DEF Transmissions
<1>2. CASE sent # 0
  <2>1. sent \in 1 .. MaxSent /\ copies \in 1 .. MaxCopies
    BY <1>2, Constants DEF CommandTypeOK, Ordered
  <2>2. /\ (sent - 1) * MaxCopies \in Nat
        /\ (sent - 1) * MaxCopies + MaxCopies = sent * MaxCopies
        /\ sent * MaxCopies <= MaxSent * MaxCopies
    BY <2>1, Constants, SMTT(30)
  <2>3. MaxSent * MaxCopies \in Nat /\ sent * MaxCopies \in Nat
    BY <2>1, Constants
  <2> HIDE DEF Transmissions
  <2>4. Transmissions = (sent - 1) * MaxCopies + copies
    BY <1>2 DEF Transmissions
  <2> QED
    BY <2>1, <2>2, <2>3, <2>4, Constants
<1> QED
  BY <1>1, <1>2

\* The number of a dispatch is one of those that are counted.
LEMMA DispatchCounts ==
    ASSUME CommandTypeOK, Ordered, uplink # <<>>
    PROVE  dispatched + 1 \in Dispatches
<1>1. Len(uplink) >= 1 /\ Len(uplink) \in Nat
  BY TailElements DEF CommandTypeOK
<1> QED
  BY <1>1, TransmissionFacts, Constants DEF Ordered, Dispatches, CommandTypeOK

\* A frame that has been sent remains a command.
LEMMA CommandStays ==
    ASSUME NEW fr, NEW n \in Nat, NEW m \in Nat, n <= m, IsCommand(fr, n)
    PROVE  IsCommand(fr, m)
BY DEF IsCommand

-----------------------------------------------------------------------------
(* The ground and the radio                                                  *)

\* Nothing about LAUNCH_OK depends on what is on its way.
LEMMA LaunchUntouched ==
    ASSUME CommandIInv, UNCHANGED <<dispatchVars, launchKey, stageKey, stageVars, launchHistory>>
    PROVE  Young' /\ Judged'
BY DEF CommandIInv, Young, Judged, dispatchVars, stageVars, launchHistory

\* Nothing about the queues and what has been set depends on the flight stage task.
LEMMA LinkUntouched ==
    ASSUME CommandIInv,
           UNCHANGED <<groundVars, uplink, downlink, dispatchVars, setting, dispatched>>
    PROVE  Ordered' /\ Answers'
BY DEF CommandIInv, Ordered, Answers, Answered, IsCommand, Transmissions, groundVars, dispatchVars

\* Send keeps the invariant.
LEMMA SendKeeps == ASSUME CommandIInv, NEW kind \in Kinds, Send(kind) PROVE CommandIInv'
<1>1. /\ current = NoFrame /\ sent < MaxSent /\ sent' = sent + 1 /\ copies' = 1
      /\ current' = [n |-> sent + 1, kind |-> kind, seq |-> sent % SeqMod]
      /\ uplink' = Append(uplink, current')
      /\ UNCHANGED <<believed, downlink, armKey, setting>>
      /\ UNCHANGED <<dispatchVars, launchKey, stageKey, stageVars, launchHistory>>
  BY DEF Send
<1>2. CommandTypeOK /\ Ordered /\ Answers
  BY DEF CommandIInv
<1>3. sent \in Nat /\ sent' \in 1 .. MaxSent /\ sent <= sent' /\ 1 \in 0 .. MaxCopies
  BY <1>1, <1>2, Constants DEF CommandTypeOK
<1>4. current' \in Frames /\ current'.n = sent' /\ IsCommand(current', sent')
  <2>1. sent % SeqMod \in 0 .. SeqMod - 1 /\ (sent + 1) - 1 = sent
    BY <1>3, SeqByte
  <2>2. kind # "none" /\ kind \in Kinds \union {"none"}
    BY DEF Kinds
  <2> QED
    BY <1>1, <1>3, <2>1, <2>2 DEF IsCommand, Frames
<1>5. /\ uplink' \in Seq(Frames) /\ Len(uplink') = Len(uplink) + 1 /\ Len(uplink) \in Nat
      /\ \A i \in 1 .. Len(uplink) : uplink'[i] = uplink[i]
      /\ uplink'[Len(uplink) + 1] = current'
  BY <1>1, <1>2, <1>4, AppendElements DEF CommandTypeOK
<1>6. CommandTypeOK'
  BY <1>1, <1>2, <1>3, <1>4, <1>5
     DEF CommandTypeOK, dispatchVars, stageVars, launchHistory
<1>7. Transmissions' >= Transmissions + 1 /\ Transmissions \in Nat /\ Transmissions' \in Nat
  <2>1. Transmissions' = sent * MaxCopies + 1
    BY <1>1, <1>3, Constants DEF Transmissions
  <2>2. CASE sent = 0
    BY <2>1, <2>2, Constants DEF Transmissions
  <2>3. CASE sent # 0
    <3>1. (sent - 1) * MaxCopies + MaxCopies = sent * MaxCopies /\ (sent - 1) * MaxCopies \in Nat
      BY <1>3, <2>3, Constants, SMTT(30)
    <3>2. copies \in 0 .. MaxCopies
      BY <1>2 DEF CommandTypeOK
    <3>3. Transmissions = (sent - 1) * MaxCopies + copies
      BY <2>3 DEF Transmissions
    <3> QED
      BY <2>1, <3>1, <3>2, <3>3, Constants
  <2> QED
    BY <2>2, <2>3
<1>8. Ordered'
  <2>1. \A i \in 1 .. Len(uplink) : IsCommand(uplink[i], sent') /\ uplink[i].n <= sent
    BY <1>2, <1>3, CommandStays DEF Ordered, IsCommand
  <2>2. \A i \in 1 .. Len(uplink') :
           IsCommand(uplink'[i], sent') /\ setting' <= uplink'[i].n /\ uplink'[i].n <= sent'
    BY <1>1, <1>2, <1>3, <1>4, <1>5, <2>1 DEF Ordered, CommandTypeOK, IsCommand
  <2>3. \A i, j \in 1 .. Len(uplink') : i < j => uplink'[i].n <= uplink'[j].n
    BY <1>2, <1>4, <1>5, <2>2 DEF Ordered
  <2>4. dispatched' + Len(uplink') <= Transmissions'
    <3>1. dispatched' = dispatched /\ dispatched \in Nat
      BY <1>1, <1>2, Constants DEF launchHistory, CommandTypeOK, Dispatches
    <3>2. dispatched + Len(uplink) <= Transmissions
      BY <1>2 DEF Ordered
    <3> HIDE DEF Transmissions
    <3> QED
      BY <1>5, <1>7, <3>1, <3>2
  <2>5. rpc' # "idle" => IsCommand(frame', sent') /\ (frame'.kind = "setting" => frame'.n <= setting')
    BY <1>1, <1>2, <1>3, CommandStays DEF Ordered, dispatchVars
  <2> QED
    BY <1>1, <1>2, <1>3, <1>4, <2>2, <2>3, <2>4, <2>5 DEF Ordered, CommandTypeOK, dispatchVars
<1>9. Answers'
  BY <1>1, <1>2 DEF Answers, Answered
<1> QED
  BY <1>1, <1>6, <1>8, <1>9, LaunchUntouched DEF CommandIInv

\* Retransmit keeps the invariant.
LEMMA RetransmitKeeps == ASSUME CommandIInv, Retransmit PROVE CommandIInv'
<1>1. /\ current # NoFrame /\ copies < MaxCopies /\ copies' = copies + 1
      /\ uplink' = Append(uplink, current)
      /\ UNCHANGED <<sent, current, believed, downlink, armKey, setting>>
      /\ UNCHANGED <<dispatchVars, launchKey, stageKey, stageVars, launchHistory>>
  BY DEF Retransmit
<1>2. CommandTypeOK /\ Ordered /\ Answers
  BY DEF CommandIInv
<1>3. IsCommand(current, sent) /\ current.n = sent /\ sent \in Nat /\ sent >= 1
  BY <1>1, <1>2 DEF Ordered, IsCommand, CommandTypeOK
<1>4. copies' \in 0 .. MaxCopies /\ copies' >= 1
  BY <1>1, <1>2, Constants DEF CommandTypeOK
<1>5. /\ uplink' \in Seq(Frames) /\ Len(uplink') = Len(uplink) + 1 /\ Len(uplink) \in Nat
      /\ \A i \in 1 .. Len(uplink) : uplink'[i] = uplink[i]
      /\ uplink'[Len(uplink) + 1] = current
  BY <1>1, <1>2, AppendElements DEF CommandTypeOK
<1>6. CommandTypeOK'
  BY <1>1, <1>2, <1>4, <1>5 DEF CommandTypeOK, dispatchVars, stageVars, launchHistory
<1>7. Transmissions' = Transmissions + 1 /\ Transmissions \in Nat
  <2>1. (sent - 1) * MaxCopies \in Nat /\ copies \in Nat
    BY <1>2, <1>3, Constants DEF CommandTypeOK
  <2> QED
    BY <1>1, <1>3, <2>1 DEF Transmissions
<1>8. Ordered'
  <2>1. \A i \in 1 .. Len(uplink') :
           IsCommand(uplink'[i], sent') /\ setting' <= uplink'[i].n /\ uplink'[i].n <= sent
    <3> SUFFICES ASSUME NEW i \in 1 .. Len(uplink')
                 PROVE  IsCommand(uplink'[i], sent) /\ setting <= uplink'[i].n
      BY <1>1, <1>3 DEF IsCommand
    <3>1. CASE i \in 1 .. Len(uplink)
      BY <1>2, <1>5, <3>1 DEF Ordered
    <3>2. CASE i = Len(uplink) + 1
      BY <1>2, <1>3, <1>5, <3>2 DEF Ordered
    <3> QED
      BY <1>5, <3>1, <3>2
  <2>2. \A i, j \in 1 .. Len(uplink') : i < j => uplink'[i].n <= uplink'[j].n
    BY <1>2, <1>3, <1>5, <2>1 DEF Ordered
  <2>3. dispatched' + Len(uplink') <= Transmissions'
    BY <1>1, <1>2, <1>5, <1>7 DEF Ordered, launchHistory, CommandTypeOK, Dispatches
  <2>4. setting' <= sent' /\ (sent' > 0 => copies' >= 1) /\ (sent' = 0 => copies' = 0)
    BY <1>1, <1>2, <1>3, <1>4 DEF Ordered
  <2>5. /\ current' = NoFrame \/ (IsCommand(current', sent') /\ current'.n = sent')
        /\ rpc' # "idle" => IsCommand(frame', sent') /\ (frame'.kind = "setting" => frame'.n <= setting')
        /\ rpc' = "check" => frame'.kind = "launch_ok"
    BY <1>1, <1>2, <1>3 DEF Ordered, dispatchVars, IsCommand
  <2>6. \A i \in 1 .. Len(uplink') : IsCommand(uplink'[i], sent') /\ setting' <= uplink'[i].n
    BY <2>1
  <2> QED
    BY <2>2, <2>3, <2>4, <2>5, <2>6 DEF Ordered
<1>9. Answers'
  BY <1>1, <1>2 DEF Answers, Answered
<1> QED
  BY <1>1, <1>6, <1>8, <1>9, LaunchUntouched DEF CommandIInv

\* GiveUp keeps the invariant.
LEMMA GiveUpKeeps == ASSUME CommandIInv, GiveUp PROVE CommandIInv'
<1>1. /\ current' = NoFrame
      /\ UNCHANGED <<sent, copies, believed, uplink, downlink, armKey, setting>>
      /\ UNCHANGED <<dispatchVars, launchKey, stageKey, stageVars, launchHistory>>
  BY DEF GiveUp
<1>2. CommandTypeOK /\ Ordered /\ Answers
  BY DEF CommandIInv
<1>3. NoFrame \in Frames
  BY Constants DEF NoFrame, Frames
<1>4. CommandTypeOK'
  BY <1>1, <1>2, <1>3 DEF CommandTypeOK, dispatchVars, stageVars, launchHistory
<1>5. Ordered'
  BY <1>1, <1>2 DEF Ordered, IsCommand, Transmissions, dispatchVars, launchHistory
<1>6. Answers'
  BY <1>1, <1>2 DEF Answers, Answered
<1> QED
  BY <1>1, <1>4, <1>5, <1>6, LaunchUntouched DEF CommandIInv

\* What is taken off the queues leaves the rest in order.
LEMMA TailOfUplink ==
    ASSUME CommandTypeOK, Ordered, uplink # <<>>
    PROVE  /\ Tail(uplink) \in Seq(Frames) /\ Head(uplink) \in Frames
           /\ Len(Tail(uplink)) = Len(uplink) - 1 /\ Len(uplink) \in Nat \ {0}
           /\ IsCommand(Head(uplink), sent) /\ setting <= Head(uplink).n
           /\ \A i \in 1 .. Len(Tail(uplink)) :
                 /\ IsCommand(Tail(uplink)[i], sent) /\ setting <= Tail(uplink)[i].n
                 /\ Head(uplink).n <= Tail(uplink)[i].n
           /\ \A i, j \in 1 .. Len(Tail(uplink)) : i < j => Tail(uplink)[i].n <= Tail(uplink)[j].n
<1>1. /\ Tail(uplink) \in Seq(Frames) /\ Head(uplink) \in Frames /\ Head(uplink) = uplink[1]
      /\ Len(Tail(uplink)) = Len(uplink) - 1 /\ Len(uplink) \in Nat \ {0}
      /\ \A i \in 1 .. Len(uplink) - 1 : Tail(uplink)[i] = uplink[i + 1]
  BY TailElements DEF CommandTypeOK
<1>2. 1 \in 1 .. Len(uplink)
  BY <1>1
<1>3. \A i \in 1 .. Len(Tail(uplink)) : i + 1 \in 1 .. Len(uplink) /\ 1 < i + 1
  BY <1>1
<1>4. \A i \in 1 .. Len(Tail(uplink)) :
         /\ IsCommand(Tail(uplink)[i], sent) /\ setting <= Tail(uplink)[i].n
         /\ Head(uplink).n <= Tail(uplink)[i].n
  BY <1>1, <1>2, <1>3 DEF Ordered
<1>5. \A i, j \in 1 .. Len(Tail(uplink)) : i < j => Tail(uplink)[i].n <= Tail(uplink)[j].n
  <2> SUFFICES ASSUME NEW i \in 1 .. Len(Tail(uplink)), NEW j \in 1 .. Len(Tail(uplink)), i < j
               PROVE  Tail(uplink)[i].n <= Tail(uplink)[j].n
    OBVIOUS
  <2>1. i + 1 < j + 1
    BY <1>1
  <2> QED
    BY <1>1, <1>3, <2>1 DEF Ordered
<1> QED
  BY <1>1, <1>2, <1>4, <1>5 DEF Ordered

\* The answers that are on their way.
Acks == [kind : Kinds, seq : 0 .. SeqMod - 1, status : {ACK_OK, ACK_REJECTED}]

\* Every answer left after one has been taken off is still an answer to something applied.
LEMMA TailOfDownlink ==
    ASSUME CommandTypeOK, Answers, downlink # <<>>
    PROVE  /\ Tail(downlink) \in Seq(Acks) /\ Head(downlink) \in Acks
           /\ Answered(Head(downlink))
           /\ \A i \in 1 .. Len(Tail(downlink)) : Answered(Tail(downlink)[i])
<1>1. downlink \in Seq(Acks)
  BY DEF CommandTypeOK, Acks
<1>2. /\ Tail(downlink) \in Seq(Acks) /\ Head(downlink) \in Acks /\ Head(downlink) = downlink[1]
      /\ Len(Tail(downlink)) = Len(downlink) - 1 /\ Len(downlink) \in Nat \ {0}
      /\ \A i \in 1 .. Len(downlink) - 1 : Tail(downlink)[i] = downlink[i + 1]
  BY <1>1, TailElements
<1>3. 1 \in 1 .. Len(downlink)
  BY <1>2
<1>4. \A i \in 1 .. Len(Tail(downlink)) : i + 1 \in 1 .. Len(downlink)
  BY <1>2
<1> QED
  BY <1>2, <1>3, <1>4 DEF Answers

\* HearAnswer keeps the invariant.
LEMMA HearAnswerKeeps == ASSUME CommandIInv, HearAnswer PROVE CommandIInv'
<1> DEFINE ack == Head(downlink)
           matches == ack.kind = current.kind /\ ack.seq = current.seq
<1>1. /\ downlink # <<>> /\ downlink' = Tail(downlink)
      /\ current' = (IF matches THEN NoFrame ELSE current)
      /\ believed' = (IF matches /\ ack.kind = "setting" THEN current.n ELSE believed)
      /\ UNCHANGED <<sent, copies, uplink, armKey, setting>>
      /\ UNCHANGED <<dispatchVars, launchKey, stageKey, stageVars, launchHistory>>
  BY DEF HearAnswer
<1>2. CommandTypeOK /\ Ordered /\ Answers
  BY DEF CommandIInv
<1>3. /\ downlink' \in Seq(Acks) /\ ack \in Acks /\ Answered(ack)
      /\ \A i \in 1 .. Len(downlink') : Answered(downlink'[i])
  BY <1>1, <1>2, TailOfDownlink
<1>4. NoFrame \in Frames
  BY Constants DEF NoFrame, Frames
<1>5. current' \in Frames /\ believed' \in 0 .. MaxSent
  BY <1>1, <1>2, <1>4 DEF CommandTypeOK, Frames
<1>6. CommandTypeOK'
  BY <1>1, <1>2, <1>3, <1>5 DEF CommandTypeOK, Acks, dispatchVars, stageVars, launchHistory
<1>7. Ordered'
  BY <1>1, <1>2 DEF Ordered, Transmissions, dispatchVars, launchHistory
<1>8. ASSUME MaxSent <= SeqMod PROVE believed' <= setting'
  <2>1. CASE matches /\ ack.kind = "setting"
    <3>1. current # NoFrame
      BY <2>1 DEF NoFrame
    <3>2. IsCommand(current, sent) /\ ack.seq = (current.n - 1) % SeqMod
      BY <1>2, <2>1, <3>1 DEF Ordered, IsCommand
    <3>3. PICK n \in 1 .. setting : ack.seq = (n - 1) % SeqMod
      BY <1>3, <2>1 DEF Answered
    <3>4. n - 1 \in 0 .. SeqMod - 1 /\ current.n - 1 \in 0 .. SeqMod - 1
      <4>1. setting \in 0 .. MaxSent /\ sent \in 0 .. MaxSent /\ current.n \in 1 .. sent
        BY <1>2, <3>2 DEF CommandTypeOK, IsCommand
      <4> QED
        BY <1>8, <3>3, <4>1, Constants
    <3>5. n - 1 = current.n - 1
      BY <3>2, <3>3, <3>4, WithinWidth
    <3>6. current.n = n
      BY <1>2, <3>2, <3>3, <3>5 DEF CommandTypeOK, IsCommand
    <3> QED
      BY <1>1, <1>2, <2>1, <3>3, <3>6 DEF CommandTypeOK
  <2>2. CASE ~(matches /\ ack.kind = "setting")
    BY <1>1, <1>2, <1>8, <2>2 DEF Answers
  <2> QED
    BY <2>1, <2>2
<1>9. Answers'
  BY <1>1, <1>3, <1>8 DEF Answers, Answered
<1> QED
  BY <1>1, <1>6, <1>7, <1>9, LaunchUntouched DEF CommandIInv

\* LoseFrame keeps the invariant.
LEMMA LoseFrameKeeps == ASSUME CommandIInv, LoseFrame PROVE CommandIInv'
<1>1. /\ uplink # <<>> /\ uplink' = Tail(uplink)
      /\ UNCHANGED <<groundVars, downlink, armKey, setting>>
      /\ UNCHANGED <<dispatchVars, launchKey, stageKey, stageVars, launchHistory>>
  BY DEF LoseFrame
<1>2. CommandTypeOK /\ Ordered /\ Answers
  BY DEF CommandIInv
<1>3. CommandTypeOK'
  BY <1>1, <1>2, TailOfUplink
     DEF CommandTypeOK, groundVars, dispatchVars, stageVars, launchHistory
<1>4. Transmissions' = Transmissions /\ dispatched' + Len(uplink') <= Transmissions
  <2>1. Transmissions' = Transmissions
    BY <1>1 DEF Transmissions, groundVars
  <2>2. dispatched' = dispatched /\ dispatched \in Nat
    BY <1>1, <1>2, Constants DEF launchHistory, CommandTypeOK, Dispatches
  <2>3. Len(uplink') = Len(uplink) - 1 /\ Len(uplink) \in Nat
    BY <1>1, <1>2, TailOfUplink
  <2>4. dispatched + Len(uplink) <= Transmissions
    BY <1>2 DEF Ordered
  <2>5. Transmissions \in Nat
    BY <1>2, TransmissionFacts
  <2> HIDE DEF Transmissions
  <2> QED
    BY <2>1, <2>2, <2>3, <2>4, <2>5
<1>5. Ordered'
  BY <1>1, <1>2, <1>4, TailOfUplink DEF Ordered, groundVars, dispatchVars
<1>6. Answers'
  BY <1>1, <1>2 DEF Answers, Answered, groundVars
<1> QED
  BY <1>1, <1>3, <1>5, <1>6, LaunchUntouched DEF CommandIInv

\* LoseAnswer keeps the invariant.
LEMMA LoseAnswerKeeps == ASSUME CommandIInv, LoseAnswer PROVE CommandIInv'
<1>1. /\ downlink # <<>> /\ downlink' = Tail(downlink)
      /\ UNCHANGED <<groundVars, uplink, armKey, setting>>
      /\ UNCHANGED <<dispatchVars, launchKey, stageKey, stageVars, launchHistory>>
  BY DEF LoseAnswer
<1>2. CommandTypeOK /\ Ordered /\ Answers
  BY DEF CommandIInv
<1>3. CommandTypeOK'
  BY <1>1, <1>2, TailOfDownlink
     DEF CommandTypeOK, Acks, groundVars, dispatchVars, stageVars, launchHistory
<1>4. Ordered'
  BY <1>1, <1>2 DEF Ordered, Transmissions, groundVars, dispatchVars, launchHistory
<1>5. Answers'
  BY <1>1, <1>2, TailOfDownlink DEF Answers, Answered, groundVars
<1> QED
  BY <1>1, <1>3, <1>4, <1>5, LaunchUntouched DEF CommandIInv

-----------------------------------------------------------------------------
(* The command receiver                                                      *)

\* DispatchFrame keeps the invariant.
LEMMA DispatchFrameKeeps == ASSUME CommandIInv, DispatchFrame PROVE CommandIInv'
<1> DEFINE fr == Head(uplink)
           launch == fr.kind = "launch_ok"
<1>1. /\ rpc = "idle" /\ uplink # <<>> /\ uplink' = Tail(uplink) /\ frame' = fr
      /\ status' \in {ACK_OK, ACK_REJECTED} /\ armKey' \in BOOLEAN
      /\ setting' = (IF fr.kind = "setting" THEN fr.n ELSE setting)
      /\ UNCHANGED <<groundVars, downlink, ackSeq, stageKey, stageVars, answers, honoured>>
  BY DEF DispatchFrame, CommandIInv, CommandTypeOK
<1>2. IF launch
         THEN /\ dispatched' = dispatched + 1 /\ launchKey' = dispatched + 1 /\ keyAge' = 0
              /\ rpc' = "check"
         ELSE UNCHANGED <<dispatched, launchKey, keyAge>> /\ rpc' = "ack"
  BY DEF DispatchFrame
<1>3. CommandTypeOK /\ Ordered /\ Answers
  BY DEF CommandIInv
<1>4. /\ uplink' \in Seq(Frames) /\ fr \in Frames /\ IsCommand(fr, sent) /\ setting <= fr.n
      /\ Len(uplink') = Len(uplink) - 1 /\ Len(uplink) \in Nat \ {0}
      /\ \A i \in 1 .. Len(uplink') :
            IsCommand(uplink'[i], sent) /\ setting <= uplink'[i].n /\ fr.n <= uplink'[i].n
      /\ \A i, j \in 1 .. Len(uplink') : i < j => uplink'[i].n <= uplink'[j].n
  BY <1>1, <1>3, TailOfUplink
<1>5. setting' \in 0 .. MaxSent /\ setting <= setting' /\ setting' <= fr.n /\ setting' <= sent
  BY <1>1, <1>3, <1>4, Constants DEF CommandTypeOK, IsCommand
<1>6. dispatched + 1 \in Dispatches
  BY <1>1, <1>3, DispatchCounts
<1>7. CommandTypeOK'
  <2>1. /\ dispatched' \in Dispatches /\ launchKey' \in Dispatches
        /\ keyAge' \in 0 .. MaxKeyAge /\ rpc' \in {"idle", "check", "ack"}
    BY <1>2, <1>3, <1>6 DEF CommandTypeOK, MaxKeyAge
  <2>2. frame' \in Frames /\ ackSeq' = ackSeq
    BY <1>1, <1>4
  <2> QED
    BY <1>1, <1>3, <1>4, <1>5, <2>1, <2>2 DEF CommandTypeOK, groundVars, stageVars
<1>8. Ordered'
  <2>1. dispatched' + Len(uplink') <= Transmissions
    <3>1. dispatched' \in {dispatched, dispatched + 1} /\ dispatched \in Nat
      BY <1>2, <1>3 DEF CommandTypeOK, Dispatches
    <3>2. dispatched + Len(uplink) <= Transmissions /\ Transmissions \in Nat
      BY <1>3, TransmissionFacts DEF Ordered
    <3> QED
      BY <1>4, <3>1, <3>2
  <2>2. \A i \in 1 .. Len(uplink') : setting' <= uplink'[i].n
    BY <1>1, <1>4
  <2> QED
    BY <1>1, <1>2, <1>3, <1>4, <1>5, <2>1, <2>2 DEF Ordered, Transmissions, groundVars
<1>9. Answers'
  <2>0. 1 .. setting \subseteq 1 .. setting'
    BY <1>3, <1>5 DEF CommandTypeOK
  <2>1. \A i \in 1 .. Len(downlink) : Answered(downlink[i])'
    BY <1>1, <1>3, <2>0 DEF Answers, Answered
  <2>2. believed' = believed /\ believed \in Nat /\ setting \in Nat /\ setting' \in Nat
    BY <1>1, <1>3, <1>5 DEF groundVars, CommandTypeOK
  <2> QED
    BY <1>1, <1>3, <1>5, <2>1, <2>2 DEF Answers, Answered
<1>10. Young'
  BY <1>1, <1>2, <1>3, <1>6 DEF CommandIInv, Young, stageVars, CommandTypeOK, Dispatches
<1>11. Judged'
  <2>1. dispatched \in Nat /\ dispatched + 1 > dispatched
    BY <1>3 DEF CommandTypeOK, Dispatches
  <2>2. \A d \in Dispatches : d > dispatched' => answers'[d] = "none"
    BY <1>1, <1>2, <2>1 DEF CommandIInv, Judged, Dispatches
  <2>3. launch => answers'[launchKey'] = "none"
    BY <1>1, <1>2, <1>6, <2>1 DEF CommandIInv, Judged
  <2> QED
    BY <1>1, <1>2, <2>2, <2>3 DEF CommandIInv, Judged, stageVars
<1> QED
  BY <1>7, <1>8, <1>9, <1>10, <1>11 DEF CommandIInv

\* CheckPublished keeps the invariant.
LEMMA CheckPublishedKeeps == ASSUME CommandIInv, CheckPublished PROVE CommandIInv'
<1>1. /\ rpc = "check" /\ rpc' = "ack"
      /\ status' = (IF stageKey # ARMED THEN ACK_REJECTED ELSE ACK_OK)
      /\ UNCHANGED <<groundVars, uplink, downlink, frame, ackSeq, armKey, launchKey, setting,
                     stageKey, stageVars, launchHistory>>
  BY DEF CheckPublished
<1>2. CommandTypeOK'
  BY <1>1 DEF CommandIInv, CommandTypeOK, groundVars, stageVars, launchHistory
<1>3. Ordered' /\ Answers'
  BY <1>1 DEF CommandIInv, Ordered, Answers, Answered, Transmissions, groundVars, launchHistory
<1>4. Young' /\ Judged'
  BY <1>1 DEF CommandIInv, Young, Judged, stageVars, launchHistory, ACK_OK, ACK_REJECTED
<1> QED
  BY <1>2, <1>3, <1>4 DEF CommandIInv

\* SendAck keeps the invariant.
LEMMA SendAckKeeps == ASSUME CommandIInv, SendAck PROVE CommandIInv'
<1>1. /\ rpc = "ack" /\ rpc' = "idle" /\ frame' = NoFrame /\ status' = ACK_OK
      /\ downlink' = Append(downlink, Answer(frame)) /\ ackSeq' = NextSeq
      /\ UNCHANGED <<groundVars, uplink, armKey, launchKey, setting, stageKey, stageVars,
                     dispatched, honoured, keyAge>>
  BY DEF SendAck
<1>2. answers' = IF frame.kind = "launch_ok"
                    THEN [answers EXCEPT ![dispatched] =
                             IF status = ACK_OK THEN "ok" ELSE "rejected"]
                    ELSE answers
  BY DEF SendAck
<1>3. CommandTypeOK /\ Ordered /\ Answers
  BY DEF CommandIInv
<1>4. IsCommand(frame, sent) /\ (frame.kind = "setting" => frame.n <= setting)
  BY <1>1, <1>3 DEF Ordered
<1>5. Answer(frame) \in Acks /\ Answered(Answer(frame))
  <2>1. frame.kind \in Kinds /\ frame.seq \in 0 .. SeqMod - 1 /\ frame.n \in 1 .. sent
    BY <1>4 DEF IsCommand, Frames
  <2>2. Answer(frame) \in Acks
    BY <1>3, <2>1 DEF Answer, Acks, CommandTypeOK
  <2>3. ASSUME frame.kind = "setting" PROVE frame.n \in 1 .. setting
    BY <1>3, <1>4, <2>1, <2>3 DEF CommandTypeOK
  <2>4. Answered(Answer(frame))
    BY <1>4, <2>3 DEF Answered, Answer, IsCommand
  <2> QED
    BY <2>2, <2>4
<1>6. /\ downlink' \in Seq(Acks) /\ Len(downlink') = Len(downlink) + 1 /\ Len(downlink) \in Nat
      /\ \A i \in 1 .. Len(downlink) : downlink'[i] = downlink[i]
      /\ downlink'[Len(downlink) + 1] = Answer(frame)
  <2>1. downlink \in Seq(Acks)
    BY <1>3 DEF CommandTypeOK, Acks
  <2> QED
    BY <1>1, <1>5, <2>1, AppendElements
<1>7. /\ answers' \in [Dispatches -> {"none", "ok", "rejected"}]
      /\ \A d \in Dispatches : d # dispatched => answers'[d] = answers[d]
      /\ answers'[dispatched] # answers[dispatched] =>
            answers'[dispatched] = (IF status = ACK_OK THEN "ok" ELSE "rejected")
  BY <1>2, <1>3 DEF CommandTypeOK
<1>8. CommandTypeOK'
  <2>1. NoFrame \in Frames /\ NextSeq \in 0 .. SeqMod - 1
    <3>1. ackSeq + 1 \in Int
      BY <1>3, Constants DEF CommandTypeOK
    <3> QED
      BY <3>1, Constants, SeqByte DEF NoFrame, Frames, NextSeq
  <2> QED
    BY <1>1, <1>3, <1>6, <1>7, <2>1 DEF CommandTypeOK, Acks, groundVars, stageVars
<1>9. Ordered'
  BY <1>1, <1>3 DEF Ordered, Transmissions, groundVars
<1>10. Answers'
  <2>1. \A i \in 1 .. Len(downlink') : Answered(downlink'[i])
    BY <1>3, <1>5, <1>6 DEF Answers
  <2> QED
    BY <1>1, <1>3, <2>1 DEF Answers, Answered, groundVars
<1>11. Young'
  BY <1>1 DEF CommandIInv, Young, stageVars
<1>12. Judged'
  <2>1. \A d \in Dispatches : d > dispatched' => answers'[d] = "none"
    BY <1>1, <1>3, <1>7 DEF CommandIInv, Judged, CommandTypeOK, Dispatches
  <2>2. ASSUME launchKey # 0, keyAge = 0, answers'[launchKey] = "rejected" PROVE stageKey # ARMED
    <3>1. launchKey = dispatched
      BY <2>2 DEF CommandIInv, Young
    <3>2. CASE frame.kind = "launch_ok"
      <4>1. status = ACK_REJECTED
        BY <1>2, <1>3, <2>2, <3>1, <3>2 DEF CommandTypeOK
      <4> QED
        BY <1>1, <2>2, <3>2, <4>1 DEF CommandIInv, Judged
    <3>3. CASE frame.kind # "launch_ok"
      BY <1>2, <2>2, <3>3 DEF CommandIInv, Judged
    <3> QED
      BY <3>2, <3>3
  <2> QED
    BY <1>1, <2>1, <2>2 DEF CommandIInv, Judged, stageVars
<1> QED
  BY <1>8, <1>9, <1>10, <1>11, <1>12 DEF CommandIInv

-----------------------------------------------------------------------------
(* The flight stage task                                                     *)

\* PollArm keeps the invariant.
LEMMA PollArmKeeps == ASSUME CommandIInv, PollArm PROVE CommandIInv'
<1>1. /\ fpc = "poll_arm" /\ fpc' \in {"clear_arm", "poll_launch"} /\ armPending' \in BOOLEAN
      /\ UNCHANGED <<groundVars, uplink, downlink, dispatchVars, armKey, launchKey, setting,
                     stageKey, stage, preflightOk, launchHistory>>
  BY DEF PollArm, ArmLatched, AfterPoll, CommandIInv, CommandTypeOK
<1>2. CommandTypeOK'
  BY <1>1 DEF CommandIInv, CommandTypeOK, groundVars, dispatchVars, launchHistory
<1>3. Young' /\ Judged'
  BY <1>1 DEF CommandIInv, Young, Judged, dispatchVars, launchHistory
<1> QED
  BY <1>1, <1>2, <1>3, LinkUntouched DEF CommandIInv, launchHistory

\* ClearArm keeps the invariant.
LEMMA ClearArmKeeps == ASSUME CommandIInv, ClearArm PROVE CommandIInv'
<1>1. /\ fpc = "clear_arm" /\ fpc' = "poll_launch" /\ armKey' = FALSE
      /\ UNCHANGED <<groundVars, uplink, downlink, dispatchVars, launchKey, setting, stageKey,
                     stage, armPending, preflightOk, launchHistory>>
  BY DEF ClearArm
<1>2. CommandTypeOK'
  BY <1>1 DEF CommandIInv, CommandTypeOK, groundVars, dispatchVars, launchHistory
<1>3. Young' /\ Judged'
  BY <1>1 DEF CommandIInv, Young, Judged, dispatchVars, launchHistory
<1> QED
  BY <1>1, <1>2, <1>3, LinkUntouched DEF CommandIInv, launchHistory

\* PollLaunch keeps the invariant.
LEMMA PollLaunchKeeps == ASSUME CommandIInv, PollLaunch PROVE CommandIInv'
<1>1. /\ fpc = "poll_launch"
      /\ fpc' = (IF launchKey # 0 THEN "clear_launch" ELSE "transition")
      /\ UNCHANGED <<groundVars, uplink, downlink, dispatchVars, armKey, launchKey, setting,
                     stageKey, stage, armPending, preflightOk, launchHistory>>
  BY DEF PollLaunch, LaunchSeen
<1>2. CommandTypeOK'
  BY <1>1 DEF CommandIInv, CommandTypeOK, groundVars, dispatchVars, launchHistory
<1>3. Young' /\ Judged'
  BY <1>1 DEF CommandIInv, Young, Judged, dispatchVars, launchHistory
<1> QED
  BY <1>1, <1>2, <1>3, LinkUntouched DEF CommandIInv, launchHistory

\* ClearLaunch keeps the invariant.
LEMMA ClearLaunchKeeps == ASSUME CommandIInv, ClearLaunch PROVE CommandIInv'
<1>1. /\ fpc = "clear_launch" /\ fpc' = "transition" /\ launchKey' = 0
      /\ stage' \in PREFLIGHT .. LATER /\ honoured' \in {honoured, launchKey}
      /\ UNCHANGED <<groundVars, uplink, downlink, dispatchVars, armKey, setting, stageKey,
                     armPending, preflightOk, dispatched, answers, keyAge>>
  BY DEF ClearLaunch, CommandIInv, CommandTypeOK, PREFLIGHT, LAUNCH, LATER
<1>2. CommandTypeOK'
  <2>1. 0 \in Dispatches
    BY Constants DEF Dispatches
  <2>2. honoured' \in Dispatches
    BY <1>1 DEF CommandIInv, CommandTypeOK
  <2> QED
    BY <1>1, <2>1, <2>2 DEF CommandIInv, CommandTypeOK, groundVars, dispatchVars
<1>3. Young' /\ Judged'
  BY <1>1 DEF CommandIInv, Young, Judged, dispatchVars
<1> QED
  BY <1>1, <1>2, <1>3, LinkUntouched DEF CommandIInv

\* Transition keeps the invariant.
LEMMA TransitionKeeps == ASSUME CommandIInv, Transition PROVE CommandIInv'
<1>1. /\ fpc = "transition" /\ fpc' = "publish"
      /\ stage' \in PREFLIGHT .. LATER /\ armPending' \in BOOLEAN /\ preflightOk' \in BOOLEAN
      /\ UNCHANGED <<groundVars, uplink, downlink, dispatchVars, armKey, launchKey, setting,
                     stageKey, launchHistory>>
  <2>1. stage \in PREFLIGHT .. LATER /\ armPending \in BOOLEAN /\ preflightOk \in BOOLEAN
    BY DEF CommandIInv, CommandTypeOK
  <2>2. stage' = stage \/ stage' = ARMED \/ (stage \in {ARMED, LAUNCH} /\ stage' = stage + 1)
    BY DEF Transition
  <2>3. stage' \in PREFLIGHT .. LATER
    BY <2>1, <2>2 DEF PREFLIGHT, ARMED, LAUNCH, LATER
  <2>4. armPending' \in BOOLEAN
    BY <2>1 DEF Transition, AutoArms
  <2>5. preflightOk' \in BOOLEAN
    BY <2>1 DEF Transition
  <2> QED
    BY <2>3, <2>4, <2>5 DEF Transition
<1>2. CommandTypeOK'
  BY <1>1 DEF CommandIInv, CommandTypeOK, groundVars, dispatchVars, launchHistory
<1>3. Young' /\ Judged'
  BY <1>1 DEF CommandIInv, Young, Judged, dispatchVars, launchHistory
<1> QED
  BY <1>1, <1>2, <1>3, LinkUntouched DEF CommandIInv, launchHistory

\* Publish keeps the invariant.
LEMMA PublishKeeps == ASSUME CommandIInv, Publish PROVE CommandIInv'
<1>1. /\ fpc = "publish" /\ fpc' = "poll_arm" /\ stageKey' = stage
      /\ UNCHANGED <<groundVars, uplink, downlink, dispatchVars, armKey, launchKey, setting,
                     stage, armPending, preflightOk, dispatched, answers, honoured>>
  BY DEF Publish
<1>2. keyAge' = (IF launchKey = 0 THEN keyAge ELSE 1) /\ keyAge' \in 0 .. 1
  BY <1>1 DEF Publish, CommandIInv, CommandTypeOK, Young, MaxKeyAge
<1>3. CommandTypeOK'
  BY <1>1, <1>2 DEF CommandIInv, CommandTypeOK, groundVars, dispatchVars, MaxKeyAge
<1>4. Young' /\ Judged'
  BY <1>1, <1>2 DEF CommandIInv, Young, Judged, dispatchVars
<1> QED
  BY <1>1, <1>3, <1>4, LinkUntouched DEF CommandIInv

-----------------------------------------------------------------------------
(* The theorems about CommandFlow                                            *)

\* The invariant of CommandFlow holds at the start.
LEMMA CommandInitEstablishes == CommandInit => CommandIInv
<1> SUFFICES ASSUME CommandInit PROVE CommandIInv
  OBVIOUS
<1>1. NoFrame \in Frames /\ 0 \in Dispatches
  BY Constants DEF NoFrame, Frames, Dispatches
<1>2. CommandTypeOK
  BY <1>1, Constants
     DEF CommandInit, CommandTypeOK, PREFLIGHT, LATER, MaxKeyAge
<1>3. Ordered /\ Answers
  BY DEF CommandInit, Ordered, Answers, Transmissions
<1>4. Young /\ Judged
  BY DEF CommandInit, Young, Judged
<1> QED
  BY <1>2, <1>3, <1>4 DEF CommandIInv

\* Every step of CommandFlow keeps its invariant.
LEMMA CommandNextKeeps == CommandIInv /\ [CommandNext]_commandVars => CommandIInv'
<1> SUFFICES ASSUME CommandIInv, [CommandNext]_commandVars PROVE CommandIInv'
  OBVIOUS
<1>1. CASE Ground
  BY <1>1, SendKeeps, RetransmitKeeps, GiveUpKeeps, HearAnswerKeeps DEF Ground
<1>2. CASE Radio
  BY <1>2, LoseFrameKeeps, LoseAnswerKeeps DEF Radio
<1>3. CASE CommandReceiver
  BY <1>3, DispatchFrameKeeps, CheckPublishedKeeps, SendAckKeeps DEF CommandReceiver
<1>4. CASE FlightStage
  BY <1>4, PollArmKeeps, ClearArmKeeps, PollLaunchKeeps, ClearLaunchKeeps, TransitionKeeps,
     PublishKeeps DEF FlightStage
<1>5. CASE UNCHANGED commandVars
  <2>1. CommandTypeOK'
    BY <1>5 DEF CommandIInv, CommandTypeOK, commandVars, groundVars, dispatchVars, stageVars,
                launchHistory
  <2> QED
    BY <1>5, <2>1, LaunchUntouched, LinkUntouched
       DEF CommandIInv, commandVars, groundVars, dispatchVars, stageVars, launchHistory
<1> QED
  BY <1>1, <1>2, <1>3, <1>4, <1>5 DEF CommandNext

\* The inductive invariant of CommandFlow holds in every reachable state.
THEOREM CommandInvariance == CommandSpec => []CommandIInv
BY CommandInitEstablishes, CommandNextKeeps, PTL DEF CommandSpec

\* What the ground is told it has set is set, or has been replaced by something newer, whatever
\* is lost, repeated or given up, as long as SEQ does not wrap: an answer that the radio holds
\* back while the ground sends SeqMod commands more can be taken for the answer to the last.
THEOREM SettingsAreApplied == MaxSent <= SeqMod => (CommandSpec => []AckMeansApplied)
<1> SUFFICES ASSUME MaxSent <= SeqMod PROVE CommandSpec => []AckMeansApplied
  OBVIOUS
<1>1. CommandIInv => AckMeansApplied
  BY DEF CommandIInv, Answers, AckMeansApplied
<1> QED
  BY <1>1, CommandInvariance, PTL

\* A LAUNCH_OK is forgotten after one cycle of the flight stage task, and one that was rejected
\* launches only in the cycle that publishes Armed, however the two tasks interleave.
THEOREM RejectedIsForgotten == CommandSpec => RejectedLaunchOnlyWhileArming
<1> DEFINE Step == /\ keyAge' <= 1
                   /\ honoured' # honoured /\ answers[honoured'] = "rejected" => keyAge = 1
<1>1. ASSUME CommandIInv, CommandIInv', CommandNext PROVE Step
  <2>1. keyAge' <= 1
    BY <1>1 DEF CommandIInv, Young
  <2>2. ASSUME honoured' # honoured, answers[honoured'] = "rejected" PROVE keyAge = 1
    <3>1. ClearLaunch
      BY <1>1, <2>2
         DEF CommandNext, Ground, Radio, CommandReceiver, FlightStage, Send, Retransmit, GiveUp,
             HearAnswer, LoseFrame, LoseAnswer, DispatchFrame, CheckPublished, SendAck, PollArm,
             ClearArm, PollLaunch, Transition, Publish, launchHistory
    <3>2. fpc = "clear_launch" /\ stage = ARMED /\ honoured' = launchKey
      BY <2>2, <3>1 DEF ClearLaunch
    <3>3. launchKey # 0 /\ stageKey = ARMED /\ keyAge \in 0 .. 1
      BY <1>1, <3>2 DEF CommandIInv, CommandTypeOK, Young, Judged, MaxKeyAge
    <3>4. keyAge # 0
      BY <1>1, <2>2, <3>2, <3>3 DEF CommandIInv, Judged
    <3> QED
      BY <3>3, <3>4
  <2> QED
    BY <2>1, <2>2
<1>2. CommandIInv /\ CommandIInv' /\ [CommandNext]_commandVars => [Step]_commandVars
  BY <1>1
<1> QED
  BY <1>2, CommandInvariance, PTL DEF CommandSpec, RejectedLaunchOnlyWhileArming

-----------------------------------------------------------------------------
(* Part 2: RadioConfig                                                       *)

Configurations == [Fields -> Nat]

\* What TypeOK leaves open: what is written is a whole command or the defaults.
Targets ==
    /\ modem \in Configurations
    /\ pending => got \in Configurations
    /\ pc \in {"stage", "read"} => ~pending
    /\ pc \in {"write", "confirm"} => target = (IF pending THEN got ELSE Default)

\* Where the task has nothing in hand, a modem off the defaults is guarded and known.
Guarded == modem # Default => deadline # "off" \/ abandoned

Known ==
    /\ pc \in {"top", "stage", "read", "clear"} => Guarded /\ (published = modem \/ unconfirmed)
    /\ pc = "confirm" /\ target = Default => modem = Default \/ abandoned

\* A task that has switched the modem while armed cannot be on the way to another switch.
NoMoreSwitches ==
    lateSwitches > 0 =>
        /\ lateSwitches = 1 /\ armed /\ pc # "read"
        /\ pc \in {"clear", "write"} => ~pending

\* The inductive invariant of RadioConfig.
RadioIInv == TypeOK /\ Targets /\ Known /\ NoMoreSwitches

-----------------------------------------------------------------------------
(* The others                                                                *)

\* Nothing of the invariant but the types is about what the ground and CommandReceiverTask do.
LEMMA OutsideKeeps ==
    ASSUME RadioIInv, TypeOK', UNCHANGED <<pc, got, pending, target, modem, published,
                                           historyVars>>,
           armed => armed', deadline' = "off" => deadline = "off"
    PROVE  RadioIInv'
<1>1. Targets'
  BY DEF RadioIInv, Targets
<1>2. Known'
  BY DEF RadioIInv, Known, Guarded, historyVars
<1>3. NoMoreSwitches'
  BY DEF RadioIInv, NoMoreSwitches, historyVars
<1> QED
  BY <1>1, <1>2, <1>3 DEF RadioIInv

\* ReceiveConfig keeps the invariant.
LEMMA ReceiveConfigKeeps == ASSUME RadioIInv, NEW c \in Requests, ReceiveConfig(c) PROVE RadioIInv'
<1>1. UNCHANGED <<ground, keys, armed, taskVars, contact, modemVars, published, historyVars>>
      /\ commands' = commands + 1 /\ commands < MaxCommands /\ request' = c /\ key' = 1
  BY DEF ReceiveConfig
<1>2. commands' \in 0 .. MaxCommands
  BY <1>1, BoundsAssumption DEF RadioIInv, TypeOK
<1>3. TypeOK'
  BY <1>1, <1>2 DEF RadioIInv, TypeOK, taskVars, modemVars, historyVars
<1> QED
  BY <1>1, <1>3, OutsideKeeps DEF taskVars, modemVars

\* WriteKey keeps the invariant.
LEMMA WriteKeyKeeps == ASSUME RadioIInv, WriteKey PROVE RadioIInv'
<1>1. UNCHANGED <<ground, commands, request, armed, taskVars, contact, modemVars, published,
                  historyVars>>
      /\ keys' = [keys EXCEPT ![key] = request[key]] /\ key \in Fields /\ key' = key + 1
  BY DEF WriteKey
<1>2. request[key] \in Nat
  BY <1>1, ConfigurationsAssumption DEF RadioIInv, TypeOK
<1>3. keys' \in [Fields -> Nat \union {None}] /\ key' \in 0 .. 4
  BY <1>1, <1>2 DEF RadioIInv, TypeOK, Fields
<1>4. TypeOK'
  BY <1>1, <1>3 DEF RadioIInv, TypeOK, taskVars, modemVars, historyVars
<1> QED
  BY <1>1, <1>4, OutsideKeeps DEF taskVars, modemVars

\* RecordContact keeps the invariant.
LEMMA RecordContactKeeps == ASSUME RadioIInv, RecordContact PROVE RadioIInv'
<1>1. UNCHANGED <<ground, commands, request, keys, armed, taskVars, modemVars, published,
                  historyVars>>
      /\ key' = 0 /\ contact' = (deadline # "off")
  BY DEF RecordContact
<1>2. TypeOK'
  BY <1>1 DEF RadioIInv, TypeOK, taskVars, modemVars, historyVars
<1> QED
  BY <1>1, <1>2, OutsideKeeps DEF taskVars, modemVars

\* OtherCommand keeps the invariant.
LEMMA OtherCommandKeeps == ASSUME RadioIInv, OtherCommand PROVE RadioIInv'
<1>1. UNCHANGED <<ground, receiverVars, keys, armed, taskVars, modemVars, published, historyVars>>
      /\ contact' = (deadline # "off")
  BY DEF OtherCommand
<1>2. TypeOK'
  BY <1>1 DEF RadioIInv, TypeOK, receiverVars, taskVars, modemVars, historyVars
<1> QED
  BY <1>1, <1>2, OutsideKeeps DEF taskVars, modemVars

\* Event keeps the invariant.
LEMMA EventKeeps == ASSUME RadioIInv, GroundFallsSilent \/ Arm \/ DeadlinePasses PROVE RadioIInv'
<1>1. /\ UNCHANGED <<receiverVars, keys, pc, f, got, pending, target, contact, modem, lostWrites,
                     lostReads, published, historyVars>>
      /\ ground' \in BOOLEAN /\ armed' \in BOOLEAN /\ (armed => armed')
      /\ deadline' \in {"off", "running", "passed"} /\ (deadline' = "off" => deadline = "off")
  <2>1. CASE GroundFallsSilent
    BY <2>1 DEF GroundFallsSilent, taskVars, modemVars, RadioIInv, TypeOK
  <2>2. CASE Arm
    BY <2>2 DEF Arm, taskVars, modemVars, RadioIInv, TypeOK
  <2>3. CASE DeadlinePasses
    BY <2>3 DEF DeadlinePasses, modemVars, RadioIInv, TypeOK
  <2> QED
    BY <2>1, <2>2, <2>3
<1>2. TypeOK'
  BY <1>1 DEF RadioIInv, TypeOK, receiverVars, historyVars
<1> QED
  BY <1>1, <1>2, OutsideKeeps

-----------------------------------------------------------------------------
(* RadioConfigTask                                                           *)

\* What every step of the task leaves alone.
World == <<ground, commands, request, key, armed>>

\* SetupReads keeps the invariant.
LEMMA SetupReadsKeeps == ASSUME RadioIInv, SetupReads PROVE RadioIInv'
<1>1. /\ published' = modem /\ unconfirmed' = FALSE /\ target' = Default /\ pending' = FALSE
      /\ pc' = (IF modem = Default THEN "top" ELSE "write")
      /\ UNCHANGED <<World, keys, f, got, deadline, contact, modem, lostWrites, lostReads,
                     abandoned, lateSwitches>>
  BY DEF SetupReads, receiverVars, modemVars, World
<1>2. TypeOK'
  BY <1>1, ConfigurationsAssumption DEF RadioIInv, TypeOK, Targets, Configurations, World
<1>3. Targets' /\ Known' /\ NoMoreSwitches'
  BY <1>1 DEF RadioIInv, Targets, Known, Guarded, NoMoreSwitches, World
<1> QED
  BY <1>2, <1>3 DEF RadioIInv

\* SetupGivesUp keeps the invariant.
LEMMA SetupGivesUpKeeps == ASSUME RadioIInv, SetupGivesUp PROVE RadioIInv'
<1>1. /\ lostReads < MaxLostReads /\ lostReads' = lostReads + 1 /\ pc' = "top"
      /\ abandoned' = (modem # Default) /\ unconfirmed' = TRUE
      /\ UNCHANGED <<World, keys, f, got, pending, target, deadline, contact, modem, lostWrites,
                     published, lateSwitches>>
  BY DEF SetupGivesUp, receiverVars, World
<1>2. lostReads' \in 0 .. MaxLostReads
  BY <1>1, BoundsAssumption DEF RadioIInv, TypeOK
<1>3. TypeOK'
  BY <1>1, <1>2 DEF RadioIInv, TypeOK, World
<1>4. Targets' /\ Known' /\ NoMoreSwitches'
  BY <1>1 DEF RadioIInv, Targets, Known, Guarded, NoMoreSwitches, World
<1> QED
  BY <1>3, <1>4 DEF RadioIInv

\* CheckWatchdog keeps the invariant.
LEMMA CheckWatchdogKeeps == ASSUME RadioIInv, CheckWatchdog PROVE RadioIInv'
<1>1. /\ pc = "top" /\ pending' = FALSE
      /\ UNCHANGED <<World, keys, f, got, modem, lostWrites, lostReads, published, historyVars>>
      /\ \/ deadline' = "off" /\ target' = Default /\ pc' = "write" /\ contact' = contact
         \/ deadline' = "running" /\ contact' = FALSE /\ pc' = "stage" /\ target' = target
         \/ deadline' = deadline /\ contact' = contact /\ pc' = "stage" /\ target' = target
  BY DEF CheckWatchdog, receiverVars, modemVars, World
<1>2. TypeOK'
  BY <1>1, ConfigurationsAssumption DEF RadioIInv, TypeOK, World, historyVars
<1>3. Targets' /\ Known' /\ NoMoreSwitches'
  BY <1>1 DEF RadioIInv, Targets, Known, Guarded, NoMoreSwitches, World, historyVars
<1> QED
  BY <1>2, <1>3 DEF RadioIInv

\* CheckStage keeps the invariant.
LEMMA CheckStageKeeps == ASSUME RadioIInv, CheckStage PROVE RadioIInv'
<1>1. /\ pc = "stage" /\ f' = 1 /\ pc' = (IF armed THEN "clear" ELSE "read")
      /\ UNCHANGED <<World, keys, got, pending, target, deadline, contact, modem, lostWrites,
                     lostReads, published, historyVars>>
  BY DEF CheckStage, Blocked, receiverVars, modemVars, World
<1>2. TypeOK'
  BY <1>1 DEF RadioIInv, TypeOK, Fields, World, historyVars
<1>3. Targets' /\ Known' /\ NoMoreSwitches'
  BY <1>1 DEF RadioIInv, TypeOK, Targets, Known, Guarded, NoMoreSwitches, World, historyVars
<1> QED
  BY <1>2, <1>3 DEF RadioIInv

\* ReadKey keeps the invariant.
LEMMA ReadKeyKeeps == ASSUME RadioIInv, ReadKey PROVE RadioIInv'
<1>1. /\ pc = "read" /\ got' = [got EXCEPT ![f] = keys[f]] /\ f' = (IF f = 3 THEN 1 ELSE f + 1)
      /\ pending' = (f = 3 /\ \A i \in Fields : got'[i] # None)
      /\ pc' = (IF f < 3 THEN "read" ELSE IF pending' THEN "clear" ELSE "top")
      /\ UNCHANGED <<World, keys, target, deadline, contact, modem, lostWrites, lostReads,
                     published, historyVars>>
  BY DEF ReadKey, receiverVars, modemVars, World
<1>2. /\ TypeOK /\ f \in {1, 2, 3} /\ f' \in Fields /\ pending' \in BOOLEAN
      /\ got' \in [Fields -> Nat \union {None}]
  BY <1>1 DEF RadioIInv, TypeOK, Fields
<1>3. pending' => got' \in Configurations /\ f = 3
  BY <1>1, <1>2 DEF Configurations
<1>4. pc' \in {"read", "clear", "top"} /\ (pc' = "read" => ~pending')
  <2>1. CASE f < 3
    BY <2>1, <1>1, <1>2, <1>3
  <2>2. CASE ~(f < 3)
    BY <2>2, <1>1, <1>2
  <2> QED
    BY <2>1, <2>2
<1>5. TypeOK'
  BY <1>1, <1>2, <1>4 DEF TypeOK, World, historyVars
<1>6. Targets' /\ Known' /\ NoMoreSwitches'
  BY <1>1, <1>2, <1>3, <1>4
     DEF RadioIInv, TypeOK, Targets, Known, Guarded, NoMoreSwitches, World, historyVars
<1> QED
  BY <1>5, <1>6 DEF RadioIInv

\* ClearKey keeps the invariant.
LEMMA ClearKeyKeeps == ASSUME RadioIInv, ClearKey PROVE RadioIInv'
<1>1. /\ pc = "clear" /\ keys' = [keys EXCEPT ![f] = None] /\ f' = (IF f = 3 THEN 1 ELSE f + 1)
      /\ pc' = (IF f < 3 THEN "clear" ELSE IF pending THEN "write" ELSE "top")
      /\ target' = (IF pending THEN got ELSE target)
      /\ UNCHANGED <<World, got, pending, deadline, contact, modem, lostWrites, lostReads,
                     published, historyVars>>
  BY DEF ClearKey, receiverVars, modemVars, World
<1>2. /\ TypeOK /\ f' \in Fields /\ keys' \in [Fields -> Nat \union {None}]
      /\ pc' \in {"clear", "write", "top"} /\ (pc' = "write" => pending)
  BY <1>1 DEF RadioIInv, TypeOK, Fields
<1>3. TypeOK'
  BY <1>1, <1>2 DEF RadioIInv, TypeOK, Targets, Configurations, World, historyVars
<1>4. Targets' /\ Known' /\ NoMoreSwitches'
  BY <1>1, <1>2 DEF RadioIInv, TypeOK, Targets, Known, Guarded, NoMoreSwitches, World, historyVars
<1> QED
  BY <1>3, <1>4 DEF RadioIInv

\* WriteRaises keeps the invariant.
LEMMA WriteRaisesKeeps == ASSUME RadioIInv, WriteRaises PROVE RadioIInv'
<1>1. /\ pc' = "setup"
      /\ UNCHANGED <<World, keys, f, got, pending, target, deadline, contact, modem, lostWrites,
                     lostReads, published, historyVars>>
  BY DEF WriteRaises, receiverVars, modemVars, World
<1>2. TypeOK'
  BY <1>1 DEF RadioIInv, TypeOK, World, historyVars
<1> QED
  BY <1>1, <1>2 DEF RadioIInv, Targets, Known, NoMoreSwitches, World, historyVars

\* WriteReachesModem keeps the invariant.
LEMMA WriteReachesModemKeeps == ASSUME RadioIInv, WriteReachesModem PROVE RadioIInv'
<1>1. /\ pc = "write" /\ Valid(target) /\ modem' = target /\ pc' = "confirm"
      /\ abandoned' = (abandoned /\ target # Default)
      /\ lateSwitches' = (IF pending /\ armed /\ lateSwitches < 2 THEN lateSwitches + 1 ELSE lateSwitches)
      /\ UNCHANGED <<World, keys, f, got, pending, target, deadline, contact, lostWrites, lostReads,
                     published, unconfirmed>>
  BY DEF WriteReachesModem, receiverVars, World
<1>2. TypeOK /\ target \in Configurations /\ \A i \in Fields : target[i] \in 0 .. Limits[i]
  BY <1>1, ConfigurationsAssumption DEF RadioIInv, TypeOK, Configurations, Valid
<1>3. pending => lateSwitches = 0
  BY <1>1 DEF RadioIInv, TypeOK, NoMoreSwitches
<1>4. \/ lateSwitches' = lateSwitches
      \/ pending /\ armed /\ lateSwitches' = 1
  BY <1>1, <1>3
<1>5. TypeOK'
  BY <1>1, <1>2, <1>4 DEF TypeOK, World
<1>6. Targets' /\ Known'
  BY <1>1, <1>2 DEF RadioIInv, Targets, Known, World
<1>7. NoMoreSwitches'
  BY <1>1, <1>4 DEF RadioIInv, NoMoreSwitches, World
<1> QED
  BY <1>5, <1>6, <1>7 DEF RadioIInv

\* WriteIsLost keeps the invariant.
LEMMA WriteIsLostKeeps == ASSUME RadioIInv, WriteIsLost PROVE RadioIInv'
<1>1. /\ pc = "write" /\ lostWrites < MaxLostWrites /\ lostWrites' = lostWrites + 1 /\ pc' = "confirm"
      /\ abandoned' = (abandoned \/ (target = Default /\ modem # Default))
      /\ UNCHANGED <<World, keys, f, got, pending, target, deadline, contact, modem, lostReads,
                     published, unconfirmed, lateSwitches>>
  BY DEF WriteIsLost, receiverVars, World
<1>2. lostWrites' \in 0 .. MaxLostWrites
  BY <1>1, BoundsAssumption DEF RadioIInv, TypeOK
<1>3. TypeOK'
  BY <1>1, <1>2 DEF RadioIInv, TypeOK, World
<1>4. Targets' /\ Known' /\ NoMoreSwitches'
  BY <1>1 DEF RadioIInv, Targets, Known, NoMoreSwitches, World
<1> QED
  BY <1>3, <1>4 DEF RadioIInv

\* Confirm keeps the invariant.
LEMMA ConfirmKeeps == ASSUME RadioIInv, Confirm PROVE RadioIInv'
<1>1. /\ pc = "confirm" /\ pc' = "top"
      /\ UNCHANGED <<World, keys, f, got, pending, target, modem, lostWrites, abandoned,
                     lateSwitches>>
  BY DEF Confirm, receiverVars, World
<1>2. /\ \/ published' = modem /\ unconfirmed' = FALSE
         \/ published' = published /\ unconfirmed' = TRUE
      /\ lostReads' \in 0 .. MaxLostReads
  BY BoundsAssumption DEF Confirm, ReadBack, RadioIInv, TypeOK
<1>3. IF pending
        THEN deadline' = (IF target = Default THEN "off" ELSE "running") /\ contact' = FALSE
        ELSE deadline' = deadline /\ contact' = contact
  BY DEF Confirm, Finish, DeadlineAfter
<1>4. TypeOK'
  BY <1>1, <1>2, <1>3 DEF RadioIInv, TypeOK, Targets, Configurations, World
<1>5. Targets' /\ NoMoreSwitches'
  BY <1>1 DEF RadioIInv, Targets, NoMoreSwitches, World
<1>6. Known'
  BY <1>1, <1>2, <1>3 DEF RadioIInv, Targets, Known, Guarded
<1> QED
  BY <1>4, <1>5, <1>6 DEF RadioIInv

-----------------------------------------------------------------------------
(* The theorems about RadioConfig                                            *)

\* The invariant of RadioConfig holds at the start.
LEMMA RadioInitEstablishes == Init => RadioIInv
<1> SUFFICES ASSUME Init PROVE RadioIInv
  OBVIOUS
<1>1. MaxCommands \in Nat /\ MaxLostWrites \in Nat /\ MaxLostReads \in Nat
  BY BoundsAssumption
<1>2. modem \in Configurations /\ \A i \in Fields : modem[i] \in 0 .. Limits[i]
  BY ConfigurationsAssumption DEF Init, Configurations
<1>3. Nothing \in [Fields -> Nat \union {None}]
  BY DEF Nothing
<1>4. /\ request \in Requests \union {Default} /\ pc = "setup" /\ key = 0 /\ f \in Fields
      /\ commands \in 0 .. MaxCommands /\ lostWrites \in 0 .. MaxLostWrites
      /\ lostReads \in 0 .. MaxLostReads /\ lateSwitches = 0
  BY <1>1 DEF Init, Fields
<1>5. keys = Nothing /\ got = Nothing /\ published = Nothing
  BY DEF Init
<1>6. /\ ground \in BOOLEAN /\ armed \in BOOLEAN /\ pending = FALSE /\ deadline = "off"
      /\ contact = FALSE /\ abandoned = FALSE /\ unconfirmed = TRUE
  BY DEF Init
<1>7. TypeOK
  <2>1. keys \in [Fields -> Nat \union {None}] /\ got \in [Fields -> Nat \union {None}]
        /\ published \in [Fields -> Nat \union {None}]
    BY <1>3, <1>5
  <2>2. key \in 0 .. 4 /\ lateSwitches \in 0 .. 2
        /\ pc \in {"setup", "top", "stage", "read", "clear", "write", "confirm"} /\ pc # "write"
    BY <1>4
  <2> QED
    BY <1>2, <1>4, <1>6, <2>1, <2>2 DEF TypeOK
<1> QED
  BY <1>2, <1>7 DEF Init, RadioIInv, Targets, Known, NoMoreSwitches

\* Every step of RadioConfig keeps its invariant.
LEMMA RadioNextKeeps == RadioIInv /\ [Next]_vars => RadioIInv'
<1> SUFFICES ASSUME RadioIInv, [Next]_vars PROVE RadioIInv'
  OBVIOUS
<1>1. CASE Task
  BY <1>1, SetupReadsKeeps, SetupGivesUpKeeps, CheckWatchdogKeeps, CheckStageKeeps, ReadKeyKeeps,
     ClearKeyKeeps, WriteRaisesKeeps, WriteReachesModemKeeps, WriteIsLostKeeps, ConfirmKeeps
        DEF Task
<1>2. CASE (\E c \in Requests : ReceiveConfig(c)) \/ Receiver \/ OtherCommand
  BY <1>2, ReceiveConfigKeeps, WriteKeyKeeps, RecordContactKeeps, OtherCommandKeeps DEF Receiver
<1>3. CASE GroundFallsSilent \/ Arm \/ DeadlinePasses
  BY <1>3, EventKeeps
<1>4. CASE UNCHANGED vars
  <2>1. TypeOK'
    BY <1>4 DEF RadioIInv, TypeOK, vars, receiverVars, taskVars, modemVars, historyVars
  <2> QED
    BY <1>4, <2>1, OutsideKeeps DEF vars, taskVars, modemVars
<1> QED
  BY <1>1, <1>2, <1>3, <1>4 DEF Next

\* The inductive invariant holds in every reachable state.
THEOREM RadioInvariance == Spec => []RadioIInv
BY RadioInitEstablishes, RadioNextKeeps, PTL DEF Spec

\* A modem off the defaults is under the watchdog of RadioConfigTask, but for a switch to the
\* defaults that failed.
THEOREM ModemIsGuarded == Spec => []WatchdogGuards
<1>1. RadioIInv => WatchdogGuards
  BY DEF RadioIInv, Known, Guarded, WatchdogGuards
<1> QED
  BY <1>1, RadioInvariance, PTL

\* What RadioConfigTask publishes is what the modem has, unless it could not be read back.
THEOREM PublishedIsTrue == Spec => []PublishedIsModem
<1>1. RadioIInv => PublishedIsModem
  BY DEF RadioIInv, Known, PublishedIsModem
<1> QED
  BY <1>1, RadioInvariance, PTL

\* At most one command switches the modem after the machine is armed.
THEOREM AtMostOneLateSwitch == Spec => []OneSwitchAfterArming
<1>1. RadioIInv => OneSwitchAfterArming
  BY DEF RadioIInv, TypeOK, NoMoreSwitches, OneSwitchAfterArming
<1> QED
  BY <1>1, RadioInvariance, PTL
=============================================================================
