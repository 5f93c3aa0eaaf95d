---------------------------- MODULE CommandFlow ----------------------------
(***************************************************************************)
(* How a command of the ground station reaches the flight stage machine and *)
(* how its answer comes back: CommandReceiverTask and FlightStageTask are   *)
(* two threads that share the DataStore, and every read or write of a key   *)
(* is one step.  The DataStore locks a single read or write, never a pair.  *)
(*                                                                         *)
(* The ground and the radio are external.  The ground sends one command at  *)
(* a time, retransmits it with the same seq until the answer comes, or      *)
(* gives it up; the radio keeps the order and loses what it likes.          *)
(*                                                                         *)
(* The names differ from those of RadioConfig, so that one module can state  *)
(* theorems about both.                                                      *)
(***************************************************************************)
EXTENDS Integers, Sequences

CONSTANTS
    MaxSent,       \* bound on the commands the ground sends
    MaxCopies,     \* bound on the transmissions of one command
    SeqMod,        \* the SEQ byte is taken modulo this
    AutoAdvance    \* flight_stage.auto_advance

ASSUME CommandAssumption ==
    /\ {MaxSent, MaxCopies, SeqMod} \subseteq Nat \ {0}
    /\ AutoAdvance \in BOOLEAN

PREFLIGHT == 0
ARMED     == 1
LAUNCH    == 2
LATER     == 3      \* any later stage

ACK_OK == 0
ACK_REJECTED == 1

\* UPDATE_SETTING, and UPDATE_SETTING with a field_id that is out of range.
Kinds == {"arm", "launch_ok", "setting", "bad_setting"}

\* Dispatches of LAUNCH_OK are numbered, 0 stands for none.
Dispatches == 0 .. MaxSent * MaxCopies

\* Where the history variable keyAge stops counting.
MaxKeyAge == 2

NoFrame == [n |-> 0, kind |-> "none", seq |-> 0]

VARIABLES
    sent,        \* ground: number of commands sent so far
    current,     \* ground: the frame it waits to be answered, or NoFrame
    copies,      \* ground: transmissions of that frame
    believed,    \* ground: the last setting it holds to be applied
    uplink,      \* frames on their way up
    downlink,    \* answers on their way down
    frame,       \* receiver: the frame in _dispatch(), or NoFrame
    rpc,         \* receiver: where it is in _dispatch()
    status,      \* receiver: the status to answer
    ackSeq,      \* receiver: _ack_seq, the SEQ of its own frames
    armKey,      \* DataStore: command.arm
    launchKey,   \* DataStore: command.launch_ok, as the dispatch that set it
    setting,     \* DataStore: a settings.* key, as the command that set it
    stageKey,    \* DataStore: event.flight_stage
    fpc,         \* flight stage task: where it is in execute()
    stage,       \* flight stage task: _stage
    armPending,  \* flight stage task: _arm_cmd_pending
    preflightOk, \* flight stage task: _flags["preflight_ok"]
    dispatched,  \* history: dispatches of LAUNCH_OK
    answers,     \* history: how each was answered
    honoured,    \* history: the one that launched
    keyAge       \* history: publishes since command.launch_ok was set

groundVars == <<sent, current, copies, believed>>
dispatchVars == <<frame, rpc, status, ackSeq>>
stageVars == <<fpc, stage, armPending, preflightOk>>
launchHistory == <<dispatched, answers, honoured, keyAge>>
commandVars == <<groundVars, uplink, downlink, dispatchVars, armKey, launchKey, setting,
                 stageKey, stageVars, launchHistory>>

CommandInit ==
    /\ sent = 0 /\ current = NoFrame /\ copies = 0 /\ believed = 0
    /\ uplink = <<>> /\ downlink = <<>>
    /\ frame = NoFrame /\ rpc = "idle" /\ status = ACK_OK /\ ackSeq = 0
    /\ armKey = FALSE /\ launchKey = 0 /\ setting = 0 /\ stageKey = PREFLIGHT
    /\ fpc = "poll_arm" /\ stage = PREFLIGHT /\ armPending = FALSE /\ preflightOk = FALSE
    /\ dispatched = 0 /\ answers = [d \in Dispatches |-> "none"] /\ honoured = 0
    /\ keyAge = 0

-----------------------------------------------------------------------------
(* The ground station and the radio                                          *)

\* send_settings_update_command() of receiver.py numbers its frames; its counter advances when
\* the frame has been written to the port.  The other commands are taken to be numbered alike.
Send(kind) ==
    /\ current = NoFrame
    /\ sent < MaxSent
    /\ sent' = sent + 1
    /\ current' = [n |-> sent + 1, kind |-> kind, seq |-> sent % SeqMod]
    /\ copies' = 1
    /\ uplink' = Append(uplink, current')
    /\ UNCHANGED <<believed, downlink, dispatchVars, armKey, launchKey, setting,
                   stageKey, stageVars, launchHistory>>

Retransmit ==
    /\ current # NoFrame
    /\ copies < MaxCopies
    /\ copies' = copies + 1
    /\ uplink' = Append(uplink, current)
    /\ UNCHANGED <<sent, current, believed, downlink, dispatchVars, armKey, launchKey,
                   setting, stageKey, stageVars, launchHistory>>

GiveUp ==
    /\ current # NoFrame
    /\ current' = NoFrame
    /\ UNCHANGED <<sent, copies, believed, uplink, downlink, dispatchVars, armKey, launchKey,
                   setting, stageKey, stageVars, launchHistory>>

\* An answer counts for the command whose id and seq it echoes.
HearAnswer ==
    /\ downlink # <<>>
    /\ downlink' = Tail(downlink)
    /\ LET ack == Head(downlink)
           matches == ack.kind = current.kind /\ ack.seq = current.seq
       IN  /\ current' = IF matches THEN NoFrame ELSE current
           /\ believed' = IF matches /\ ack.kind = "setting" THEN current.n ELSE believed
    /\ UNCHANGED <<sent, copies, uplink, dispatchVars, armKey, launchKey, setting,
                   stageKey, stageVars, launchHistory>>

LoseFrame ==
    /\ uplink # <<>>
    /\ uplink' = Tail(uplink)
    /\ UNCHANGED <<groundVars, downlink, dispatchVars, armKey, launchKey, setting,
                   stageKey, stageVars, launchHistory>>

LoseAnswer ==
    /\ downlink # <<>>
    /\ downlink' = Tail(downlink)
    /\ UNCHANGED <<groundVars, uplink, dispatchVars, armKey, launchKey, setting,
                   stageKey, stageVars, launchHistory>>

-----------------------------------------------------------------------------
(* CommandReceiverTask._dispatch()                                           *)

\* The key is written before anything is checked.
DispatchFrame ==
    /\ rpc = "idle"
    /\ uplink # <<>>
    /\ LET f == Head(uplink)
       IN  /\ uplink' = Tail(uplink)
           /\ frame' = f
           /\ status' = IF f.kind = "bad_setting" THEN ACK_REJECTED ELSE ACK_OK
           /\ armKey' = (armKey \/ f.kind = "arm")
           /\ setting' = IF f.kind = "setting" THEN f.n ELSE setting
           /\ dispatched' = IF f.kind = "launch_ok" THEN dispatched + 1 ELSE dispatched
           /\ launchKey' = IF f.kind = "launch_ok" THEN dispatched + 1 ELSE launchKey
           /\ keyAge' = IF f.kind = "launch_ok" THEN 0 ELSE keyAge
           /\ rpc' = IF f.kind = "launch_ok" THEN "check" ELSE "ack"
    /\ UNCHANGED <<groundVars, downlink, ackSeq, stageKey, stageVars, answers, honoured>>

\* LAUNCH_OK is rejected when the published stage is not ARMED; its key stays set.
CheckPublished ==
    /\ rpc = "check"
    /\ status' = IF stageKey # ARMED THEN ACK_REJECTED ELSE ACK_OK
    /\ rpc' = "ack"
    /\ UNCHANGED <<groundVars, uplink, downlink, frame, ackSeq, armKey, launchKey, setting,
                   stageKey, stageVars, launchHistory>>

\* Mutant: the answer carries the receiver's own counter, not the seq of the command.
AnswerNumbered(f) == [kind |-> f.kind, seq |-> ackSeq, status |-> status]

Answer(f) == [kind |-> f.kind, seq |-> f.seq, status |-> status]

NextSeq == (ackSeq + 1) % SeqMod

SendAck ==
    /\ rpc = "ack"
    /\ downlink' = Append(downlink, Answer(frame))
    /\ answers' = IF frame.kind = "launch_ok"
                  THEN [answers EXCEPT ![dispatched] =
                           IF status = ACK_OK THEN "ok" ELSE "rejected"]
                  ELSE answers
    /\ frame' = NoFrame
    /\ rpc' = "idle"
    /\ status' = ACK_OK
    /\ ackSeq' = NextSeq
    /\ UNCHANGED <<groundVars, uplink, armKey, launchKey, setting, stageKey, stageVars,
                   dispatched, honoured, keyAge>>

CommandReceiver == DispatchFrame \/ CheckPublished \/ SendAck

-----------------------------------------------------------------------------
(* FlightStageTask.execute()                                                 *)

\* In Preflight the command is latched, whatever the flag preflight_ok says; the latch keeps it
\* until the arm checks pass.
ArmLatched == armPending \/ (armKey /\ stage = PREFLIGHT)

\* Mutant: the key is cleared in every cycle, whether or not it had been set when it was read.
AlwaysClears == "clear_arm"

AfterPoll == IF armKey THEN "clear_arm" ELSE "poll_launch"

\* The latch is seen by this task only: it is set here, with the read of the key.
PollArm ==
    /\ fpc = "poll_arm"
    /\ armPending' = ArmLatched
    /\ fpc' = AfterPoll
    /\ UNCHANGED <<groundVars, uplink, downlink, dispatchVars, armKey, launchKey, setting,
                   stageKey, stage, preflightOk, launchHistory>>

ClearArm ==
    /\ fpc = "clear_arm"
    /\ armKey' = FALSE
    /\ fpc' = "poll_launch"
    /\ UNCHANGED <<groundVars, uplink, downlink, dispatchVars, launchKey, setting, stageKey,
                   stage, armPending, preflightOk, launchHistory>>

\* Mutant: the key is only looked at in Armed.
LaunchSeenInArmed == launchKey # 0 /\ stage = ARMED

LaunchSeen == launchKey # 0

PollLaunch ==
    /\ fpc = "poll_launch"
    /\ fpc' = IF LaunchSeen THEN "clear_launch" ELSE "transition"
    /\ UNCHANGED <<groundVars, uplink, downlink, dispatchVars, armKey, launchKey, setting,
                   stageKey, stage, armPending, preflightOk, launchHistory>>

\* The key is cleared whether or not the command is accepted.
ClearLaunch ==
    /\ fpc = "clear_launch"
    /\ launchKey' = 0
    /\ stage' = IF stage = ARMED THEN LAUNCH ELSE stage
    /\ honoured' = IF stage = ARMED THEN launchKey ELSE honoured
    /\ fpc' = "transition"
    /\ UNCHANGED <<groundVars, uplink, downlink, dispatchVars, armKey, setting, stageKey,
                   armPending, preflightOk, dispatched, answers, keyAge>>

\* Checks that pass for long enough count as an ARM.
AutoArms == AutoAdvance /\ stage = PREFLIGHT /\ preflightOk'

\* _transition(): what the checks and the altitude say is not modelled here.  In Preflight it
\* sets the flag preflight_ok.
Transition ==
    /\ fpc = "transition"
    /\ preflightOk' \in IF stage = PREFLIGHT THEN BOOLEAN ELSE {preflightOk}
    /\ \E pending \in {armPending, armPending \/ AutoArms} :
         \/ UNCHANGED stage /\ armPending' = pending
         \/ stage = PREFLIGHT /\ pending /\ stage' = ARMED /\ armPending' = FALSE
         \/ stage \in {ARMED, LAUNCH} /\ stage' = stage + 1 /\ armPending' = pending
    /\ fpc' = "publish"
    /\ UNCHANGED <<groundVars, uplink, downlink, dispatchVars, armKey, launchKey, setting,
                   stageKey, launchHistory>>

Publish ==
    /\ fpc = "publish"
    /\ stageKey' = stage
    /\ keyAge' = IF launchKey = 0 \/ keyAge = MaxKeyAge THEN keyAge ELSE keyAge + 1
    /\ fpc' = "poll_arm"
    /\ UNCHANGED <<groundVars, uplink, downlink, dispatchVars, armKey, launchKey, setting,
                   stage, armPending, preflightOk, dispatched, answers, honoured>>

FlightStage == PollArm \/ ClearArm \/ PollLaunch \/ ClearLaunch \/ Transition \/ Publish

-----------------------------------------------------------------------------

Ground == (\E kind \in Kinds : Send(kind)) \/ Retransmit \/ GiveUp \/ HearAnswer

Radio == LoseFrame \/ LoseAnswer

CommandNext == Ground \/ Radio \/ CommandReceiver \/ FlightStage

\* Both tasks run periodically; the ground and the radio owe nothing.
CommandSpec ==
    /\ CommandInit /\ [][CommandNext]_commandVars
    /\ WF_commandVars(CommandReceiver) /\ WF_commandVars(FlightStage)

-----------------------------------------------------------------------------
(* Properties                                                                *)

\* Every variable of the two tasks, the DataStore and the ground keeps its type.
Frames == [n : 0 .. MaxSent, kind : Kinds \union {"none"}, seq : 0 .. SeqMod - 1]
CommandTypeOK ==
    /\ sent \in 0 .. MaxSent /\ copies \in 0 .. MaxCopies /\ believed \in 0 .. MaxSent
    /\ current \in Frames /\ frame \in Frames
    /\ uplink \in Seq(Frames)
    /\ downlink \in Seq([kind : Kinds, seq : 0 .. SeqMod - 1, status : {ACK_OK, ACK_REJECTED}])
    /\ rpc \in {"idle", "check", "ack"}
    /\ status \in {ACK_OK, ACK_REJECTED}
    /\ armKey \in BOOLEAN /\ launchKey \in Dispatches /\ setting \in 0 .. MaxSent
    /\ stageKey \in PREFLIGHT .. LATER /\ stage \in PREFLIGHT .. LATER
    /\ fpc \in {"poll_arm", "clear_arm", "poll_launch", "clear_launch", "transition", "publish"}
    /\ armPending \in BOOLEAN /\ preflightOk \in BOOLEAN
    /\ dispatched \in Dispatches /\ honoured \in Dispatches
    /\ answers \in [Dispatches -> {"none", "ok", "rejected"}]
    /\ keyAge \in 0 .. MaxKeyAge /\ ackSeq \in 0 .. SeqMod - 1

\* What the ground is told it has set is never newer than what is set: no lost, repeated
\* or late frame makes the ground believe in a setting that is not there, or that an older
\* copy has overwritten.
AckMeansApplied == CommandTypeOK /\ believed <= setting

\* A LAUNCH_OK that nobody honours is forgotten after one cycle: it does not lie in the
\* DataStore until the machine happens to be armed later. So one that was rejected launches
\* only when the machine was armed within the very cycle that was running: the answer was
\* right about the published stage, and that stage had been replaced by the time the answer
\* was formed or in the same cycle.
RejectedLaunchOnlyWhileArming ==
    [][/\ keyAge' <= 1
       /\ (honoured' # honoured /\ answers[honoured'] = "rejected") => keyAge = 1]_commandVars

\* While the preflight checks pass, an ARM that has reached the DataStore is not lost, also
\* when it gets there between the read of the key and its clearing: it is latched, or the
\* machine is (or has been) armed.  What becomes of one while they fail is not said here.
ArmIsNotLost == armKey ~> (armPending \/ stage >= ARMED \/ ~preflightOk)

\* "it is rejected (ACK status = 1) in any other stage": a rejected LAUNCH_OK does nothing.
RejectedHasNoEffect == honoured # 0 => answers[honoured] # "rejected"
=============================================================================
