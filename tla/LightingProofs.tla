--------------------------- MODULE LightingProofs ---------------------------
(***************************************************************************)
(* Proofs about Lighting, for any set of currents, any range of the DAC, any *)
(* rate limit and any number of failing transactions and commands.           *)
(***************************************************************************)
EXTENDS Lighting, TLAPS

\* Where a cycle is under way, with the steps that change the beacon among them.
Running == {"cycle", "zero", "update", "switch", "join", "close", "rise", "fall", "break", "report"}

\* Every step of a cycle uses the board, and finds the DAC as the step before it left it.
Flushed ==
    /\ pc \in Running \ {"cycle"} => board
    /\ pc \in Running /\ board => hw = codes

\* A relay that is still to be switched, by whatever write comes next, carries no current.
RelayIsSafe ==
    /\ codes["relay"] # hw["relay"] => codes["beacon"] = 0
    /\ pc \in {"close", "break", "off3", "off4"} => codes["beacon"] = 0
    /\ pc \in {"off2", "off3", "off4"} => codes["sphere"] = 0

\* The sphere: what is engaged is the target, and only a target of 0 is not.
SphereIsCommanded ==
    pc \in Running /\ board =>
        /\ sphereOn => loop \in {target, NoTarget}
        /\ sphereOn /\ loop = NoTarget => target = 0 /\ (pc = "zero" \/ codes["sphere"] = 0)
        /\ ~sphereOn => codes["sphere"] = 0 /\ loop = NoTarget /\ pc \notin {"zero", "update"}

\* The beacon: lit or dark as its flag says, but for the steps of a change.
Steady ==
    /\ codes["relay"] = (IF beaconOn THEN On ELSE 0)
    /\ codes["beacon"] = (IF beaconOn THEN Brightness ELSE 0)

BeaconIsCommanded ==
    /\ pc \in {"cycle", "zero", "update", "switch", "report"} /\ board => Steady
    /\ pc \in {"cycle", "report"} /\ board => beaconOn = wish
    /\ pc \in {"join", "close"} => wish /\ ~beaconOn /\ Steady
    /\ pc = "rise" => wish /\ ~beaconOn /\ codes["relay"] = On /\ codes["beacon"] <= Brightness
    /\ pc \in {"fall", "break"} =>
         ~wish /\ beaconOn /\ codes["relay"] = On /\ codes["beacon"] <= Brightness

\* The inductive invariant.
IInv == TypeOK /\ Flushed /\ RelayIsSafe /\ SphereIsCommanded /\ BeaconIsCommanded

\* What CurrentlessSwitching and NoCurrentJump say of one step.
Gentle ==
    /\ hw'["relay"] # hw["relay"] => hw'["beacon"] = 0
    /\ hw'["sphere"] <= hw["sphere"] + MaxStep

-----------------------------------------------------------------------------
(* A write of the DAC                                                        *)

\* Facts about the codes that every step needs.
LEMMA Codes ==
    ASSUME TypeOK
    PROVE  /\ MaxCode \in Nat /\ MaxStep \in Nat /\ Brightness \in 0..MaxCode /\ On \in 0..MaxCode
           /\ 0 \in 0..MaxCode /\ On # 0 /\ Dark \in [Channels -> 0..MaxCode]
           /\ \A c \in Channels : codes[c] \in 0..MaxCode /\ hw[c] \in 0..MaxCode
           /\ \A c \in Channels : Dark[c] = 0
  BY CodesAssumption DEF TypeOK, On, Dark

\* A failed write has left the relay, which comes last, as it was.
LEMMA SendFacts ==
    ASSUME TypeOK, NEW to \in [Channels -> 0..MaxCode], NEW done \in Prefixes, Send(to, done)
    PROVE  /\ hw' \in [Channels -> 0..MaxCode] /\ hw'["relay"] = hw["relay"]
           /\ \A c \in Channels : hw'[c] \in {to[c], hw[c]}
  BY DEF TypeOK, Send, Prefixes, Channels

\* A write of all channels that does not fail leaves the DAC with every code.
LEMMA SendAllFacts ==
    ASSUME TypeOK, NEW to \in [Channels -> 0..MaxCode], Send(to, Channels)
    PROVE  hw' = to
  BY DEF TypeOK, Send

\* After a write the cache holds the code; either the DAC has all of the cache, or the
\* task is on its way down and the relay has not moved.
LEMMA WriteFacts ==
    ASSUME TypeOK, NEW channel \in Channels, NEW code \in 0..MaxCode, NEW next,
           Write(channel, code, next)
    PROVE  /\ codes' \in [Channels -> 0..MaxCode] /\ hw' \in [Channels -> 0..MaxCode]
           /\ faults' \in 0..MaxFaults
           /\ codes'[channel] = code
           /\ \A c \in Channels \ {channel} : codes'[c] = codes[c]
           /\ \/ hw' = codes' /\ pc' = next
              \/ /\ pc' \in {"off1", "stopped", "setup"} /\ hw'["relay"] = hw["relay"]
                 /\ \A c \in Channels : hw'[c] \in {codes'[c], hw[c]}
<1> DEFINE new == [codes EXCEPT ![channel] = code]
<1>1. codes' = new /\ new \in [Channels -> 0..MaxCode]
  BY DEF Write, TypeOK
<1>2. codes'[channel] = code /\ \A c \in Channels \ {channel} : codes'[c] = codes[c]
  BY <1>1 DEF TypeOK
<1>3. \/ Send(new, Channels) /\ pc' = next /\ UNCHANGED faults
      \/ /\ faults < MaxFaults /\ \E done \in Prefixes : Send(new, done)
         /\ pc' = AfterFailure(next) /\ faults' = faults + 1
  BY DEF Write
<1> HIDE DEF new
<1>4. CASE Send(new, Channels) /\ pc' = next /\ UNCHANGED faults
  BY <1>1, <1>2, <1>4, SendAllFacts DEF TypeOK
<1>5. CASE /\ faults < MaxFaults /\ \E done \in Prefixes : Send(new, done)
           /\ pc' = AfterFailure(next) /\ faults' = faults + 1
  <2>1. faults' \in 0..MaxFaults
    BY <1>5, BoundsAssumption DEF TypeOK
  <2>2. pc' \in {"off1", "stopped", "setup"}
    BY <1>5 DEF AfterFailure
  <2> QED
    BY <1>1, <1>2, <1>5, <2>1, <2>2, SendFacts
<1> QED
  BY <1>3, <1>4, <1>5

\* Where a failure leads, only the pending switch of the relay is left to be shown.
LEMMA DownKeeps ==
    ASSUME TypeOK', pc' \in {"off1", "stopped", "setup"},
           codes'["relay"] # hw'["relay"] => codes'["beacon"] = 0
    PROVE  IInv'
  BY DEF IInv, Flushed, RelayIsSafe, SphereIsCommanded, BeaconIsCommanded, Running

\* No write, complete or not, is abrupt if what the cache then holds is not.
LEMMA WriteIsGentle ==
    ASSUME TypeOK, NEW channel \in Channels, NEW code \in 0..MaxCode, NEW next,
           Write(channel, code, next),
           codes'["relay"] # hw["relay"] => codes'["beacon"] = 0,
           codes'["sphere"] <= hw["sphere"] + MaxStep
    PROVE  Gentle
<1>1. \/ hw' = codes'
      \/ hw'["relay"] = hw["relay"] /\ hw'["sphere"] \in {codes'["sphere"], hw["sphere"]}
  BY WriteFacts DEF Channels
<1> QED
  BY <1>1, Codes DEF Gentle, Channels

\* A sensor that does not answer sends the task down, and leaves the outputs alone.
LEMMA SenseFailsKeeps ==
    ASSUME IInv, SenseFails, pc \in Running, UNCHANGED <<task, outside>>
    PROVE  IInv' /\ Gentle
<1>1. pc' = "off1"
  BY DEF SenseFails, AfterFailure, Running
<1>2. faults' \in 0..MaxFaults
  BY BoundsAssumption DEF SenseFails, IInv, TypeOK
<1>3. TypeOK'
  BY <1>1, <1>2 DEF IInv, TypeOK, SenseFails, task, outside, Labels
<1>4. IInv'
  BY <1>1, <1>3, DownKeeps DEF SenseFails, IInv, RelayIsSafe
<1> QED
  BY <1>4, Codes DEF IInv, Gentle, SenseFails, Channels

-----------------------------------------------------------------------------
(* setup() and the way down                                                  *)

\* Setup keeps the invariant, and is gentle.
LEMMA SetupKeeps == ASSUME IInv, Setup PROVE IInv' /\ Gentle
<1>1. TypeOK
  BY DEF IInv
<1>2. UNCHANGED <<target, setting, flash, stop, commands>> /\ ~sphereOn' /\ ~beaconOn' /\ ~wish'
      /\ codes' = Dark /\ loop' = NoTarget /\ pc' = "cycle"
      /\ sphereOn' \in BOOLEAN /\ beaconOn' \in BOOLEAN /\ wish' \in BOOLEAN
  BY DEF Setup, Latches, SetupSucceeds, SetupFails, outside
<1>3. CASE SetupSucceeds /\ UNCHANGED faults
  <2>1. hw' = Dark /\ board' = TRUE
    BY <1>1, <1>3, Codes, SendAllFacts DEF SetupSucceeds
  <2>2. TypeOK'
    BY <1>1, <1>2, <1>3, <2>1, Codes DEF TypeOK, Labels
  <2>3. Flushed' /\ RelayIsSafe' /\ SphereIsCommanded' /\ BeaconIsCommanded'
    BY <1>1, <1>2, <2>1, Codes
       DEF Flushed, RelayIsSafe, SphereIsCommanded, BeaconIsCommanded, Steady, Running, Channels
  <2> QED
    BY <1>1, <2>1, <2>2, <2>3, Codes DEF IInv, Gentle, Channels
<1>4. CASE SetupFails
  <2>1. /\ hw' \in [Channels -> 0..MaxCode] /\ hw'["relay"] = hw["relay"]
        /\ \A c \in Channels : hw'[c] \in {0, hw[c]}
    BY <1>1, <1>4, Codes, SendFacts DEF SetupFails
  <2>2. board' = FALSE /\ faults' \in 0..MaxFaults
    BY <1>1, <1>4, BoundsAssumption DEF SetupFails, TypeOK
  <2>3. TypeOK'
    BY <1>1, <1>2, <2>1, <2>2, Codes DEF TypeOK, Labels
  <2>4. Flushed' /\ RelayIsSafe' /\ SphereIsCommanded' /\ BeaconIsCommanded'
    BY <1>1, <1>2, <2>1, <2>2, Codes
       DEF Flushed, RelayIsSafe, SphereIsCommanded, BeaconIsCommanded, Running, Channels
  <2> QED
    BY <1>1, <2>1, <2>3, <2>4, Codes DEF IInv, Gentle, Channels
<1> QED
  BY <1>3, <1>4 DEF Setup

\* A step that moves the task to a place where nothing is claimed of the outputs.
LEMMA QuietKeeps ==
    ASSUME IInv, pc' \in {"off1", "stopped"}, UNCHANGED <<codes, hw, task, outside, faults>>
    PROVE  IInv' /\ Gentle
<1>1. TypeOK'
  BY DEF IInv, TypeOK, Labels, task, outside
<1> QED
  BY <1>1, DownKeeps, Codes DEF IInv, RelayIsSafe, Gentle, Channels

\* OffSphere keeps the invariant, and is gentle.
LEMMA OffSphereKeeps == ASSUME IInv, OffSphere PROVE IInv' /\ Gentle
<1>1. TypeOK /\ RelayIsSafe /\ "sphere" \in Channels /\ 0 \in 0..MaxCode /\ Write("sphere", 0, "off2")
  BY Codes DEF IInv, OffSphere, Channels
<1>2. /\ codes' \in [Channels -> 0..MaxCode] /\ hw' \in [Channels -> 0..MaxCode]
      /\ faults' \in 0..MaxFaults
      /\ codes'["sphere"] = 0 /\ codes'["beacon"] = codes["beacon"] /\ codes'["relay"] = codes["relay"]
      /\ \/ hw' = codes' /\ pc' = "off2"
         \/ pc' \in {"off1", "stopped", "setup"} /\ hw'["relay"] = hw["relay"]
  BY <1>1, WriteFacts DEF Channels
<1>3. TypeOK'
  BY <1>1, <1>2 DEF OffSphere, TypeOK, Labels, outside
<1>4. IInv'
  BY <1>1, <1>2, <1>3
     DEF IInv, Flushed, RelayIsSafe, SphereIsCommanded, BeaconIsCommanded, Running
<1>5. Gentle
  BY <1>1, <1>2, Codes, WriteIsGentle DEF RelayIsSafe, Channels
<1> QED
  BY <1>4, <1>5

\* OffBeacon keeps the invariant, and is gentle.
LEMMA OffBeaconKeeps == ASSUME IInv, OffBeacon PROVE IInv' /\ Gentle
<1>1. /\ TypeOK /\ RelayIsSafe /\ pc = "off2" /\ "beacon" \in Channels /\ 0 \in 0..MaxCode
      /\ Write("beacon", 0, "off3")
  BY Codes DEF IInv, OffBeacon, Channels
<1>2. /\ codes' \in [Channels -> 0..MaxCode] /\ hw' \in [Channels -> 0..MaxCode]
      /\ faults' \in 0..MaxFaults
      /\ codes'["sphere"] = codes["sphere"] /\ codes'["beacon"] = 0
      /\ \/ hw' = codes' /\ pc' = "off3"
         \/ pc' \in {"off1", "stopped", "setup"} /\ hw'["relay"] = hw["relay"]
  BY <1>1, WriteFacts DEF Channels
<1>3. TypeOK'
  BY <1>1, <1>2 DEF OffBeacon, TypeOK, Labels, task, outside
<1>4. IInv'
  BY <1>1, <1>2, <1>3
     DEF IInv, Flushed, RelayIsSafe, SphereIsCommanded, BeaconIsCommanded, Running
<1>5. Gentle
  BY <1>1, <1>2, Codes, WriteIsGentle DEF RelayIsSafe, Channels
<1> QED
  BY <1>4, <1>5

\* OffRelay keeps the invariant, and is gentle.
LEMMA OffRelayKeeps == ASSUME IInv, OffRelay PROVE IInv' /\ Gentle
<1>1. /\ TypeOK /\ RelayIsSafe /\ pc = "off3" /\ "relay" \in Channels /\ 0 \in 0..MaxCode
      /\ Write("relay", 0, "off4")
  BY Codes DEF IInv, OffRelay, Channels
<1>2. /\ codes' \in [Channels -> 0..MaxCode] /\ hw' \in [Channels -> 0..MaxCode]
      /\ faults' \in 0..MaxFaults
      /\ codes'["sphere"] = 0 /\ codes'["beacon"] = 0
      /\ \/ hw' = codes' /\ pc' = "off4"
         \/ pc' \in {"off1", "stopped", "setup"} /\ hw'["relay"] = hw["relay"]
  BY <1>1, WriteFacts DEF RelayIsSafe, Channels
<1>3. TypeOK'
  BY <1>1, <1>2 DEF OffRelay, TypeOK, Labels, task, outside
<1>4. IInv'
  BY <1>1, <1>2, <1>3
     DEF IInv, Flushed, RelayIsSafe, SphereIsCommanded, BeaconIsCommanded, Running
<1>5. Gentle
  BY <1>1, <1>2, Codes, WriteIsGentle DEF RelayIsSafe, Channels
<1> QED
  BY <1>4, <1>5

\* CloseBoard keeps the invariant, and is gentle.
LEMMA CloseBoardKeeps == ASSUME IInv, CloseBoard PROVE IInv' /\ Gentle
<1>1. TypeOK
  BY DEF IInv
<1>2. /\ hw' \in [Channels -> 0..MaxCode] /\ faults' \in 0..MaxFaults
      /\ \/ hw' = Dark
         \/ hw'["relay"] = hw["relay"] /\ hw'["sphere"] \in {0, hw["sphere"]}
  <2>1. CASE Send(Dark, Channels) /\ UNCHANGED faults
    BY <1>1, <2>1, Codes, SendAllFacts DEF TypeOK
  <2>2. CASE /\ faults < MaxFaults /\ faults' = faults + 1
             /\ \E done \in Prefixes : Send(Dark, done)
    BY <1>1, <2>2, Codes, SendFacts, BoundsAssumption DEF TypeOK, Channels
  <2> QED
    BY <2>1, <2>2 DEF CloseBoard
<1>3. TypeOK'
  BY <1>1, <1>2, Codes DEF CloseBoard, TypeOK, Labels, task, outside
<1>4. IInv'
  BY <1>1, <1>3, Codes, DownKeeps DEF CloseBoard, Channels
<1> QED
  BY <1>1, <1>2, <1>4, Codes DEF Gentle, Channels

-----------------------------------------------------------------------------
(* A cycle                                                                   *)

\* The steps of a cycle that write nothing.
LEMMA StillIsGentle == ASSUME TypeOK, hw' = hw PROVE Gentle
  BY Codes DEF Gentle, Channels

\* Engage keeps the invariant, and is gentle.
LEMMA EngageKeeps == ASSUME IInv, Engage PROVE IInv' /\ Gentle
<1>1. TypeOK'
  BY DEF IInv, Engage, BeginCycle, TypeOK, Labels, outside
<1>2. Flushed' /\ RelayIsSafe' /\ SphereIsCommanded'
  BY DEF IInv, Engage, BeginCycle, Flushed, RelayIsSafe, SphereIsCommanded, Running, TypeOK
<1>3. BeaconIsCommanded'
  BY DEF IInv, Engage, BeginCycle, BeaconIsCommanded, Steady
<1> QED
  BY <1>1, <1>2, <1>3, StillIsGentle DEF IInv, Engage, BeginCycle

\* Poll keeps the invariant, and is gentle.
LEMMA PollKeeps == ASSUME IInv, Poll PROVE IInv' /\ Gentle
<1>1. TypeOK'
  BY DEF IInv, Poll, BeginCycle, TypeOK, Labels, outside
<1>2. Flushed' /\ RelayIsSafe' /\ SphereIsCommanded'
  BY DEF IInv, Poll, Commanded, BeginCycle, Flushed, RelayIsSafe, SphereIsCommanded, Running, TypeOK
<1>3. BeaconIsCommanded'
  BY DEF IInv, Poll, BeginCycle, BeaconIsCommanded, Steady
<1> QED
  BY <1>1, <1>2, <1>3, StillIsGentle DEF IInv, Poll, BeginCycle

\* Unconfigured keeps the invariant, and is gentle.
LEMMA UnconfiguredKeeps == ASSUME IInv, Unconfigured PROVE IInv' /\ Gentle
<1>1. TypeOK'
  BY DEF IInv, Unconfigured, BeginCycle, TypeOK, Labels, outside
<1>2. Flushed' /\ RelayIsSafe' /\ SphereIsCommanded'
  BY DEF IInv, Unconfigured, BeginCycle, Flushed, RelayIsSafe, SphereIsCommanded, Running, TypeOK
<1>3. BeaconIsCommanded'
  BY DEF IInv, Unconfigured, BeginCycle, BeaconIsCommanded, Steady
<1> QED
  BY <1>1, <1>2, <1>3, StillIsGentle DEF IInv, Unconfigured, BeginCycle

\* ZeroSphere keeps the invariant, and is gentle.
LEMMA ZeroSphereKeeps == ASSUME IInv, ZeroSphere PROVE IInv' /\ Gentle
<1>1. /\ TypeOK /\ pc = "zero" /\ board /\ hw = codes /\ "sphere" \in Channels /\ 0 \in 0..MaxCode
      /\ Write("sphere", 0, "update") /\ UNCHANGED <<task, outside>>
  BY Codes DEF IInv, ZeroSphere, Channels, Flushed, Running
<1>2. /\ codes' \in [Channels -> 0..MaxCode] /\ hw' \in [Channels -> 0..MaxCode]
      /\ faults' \in 0..MaxFaults
      /\ codes'["sphere"] = 0 /\ codes'["beacon"] = codes["beacon"] /\ codes'["relay"] = codes["relay"]
      /\ \/ hw' = codes' /\ pc' = "update"
         \/ pc' \in {"off1", "stopped", "setup"} /\ hw'["relay"] = hw["relay"]
  BY <1>1, WriteFacts DEF Channels
<1>3. TypeOK'
  BY <1>1, <1>2 DEF TypeOK, Labels, task, outside
<1>4. IInv'
  BY <1>1, <1>2, <1>3
     DEF IInv, Flushed, RelayIsSafe, SphereIsCommanded, BeaconIsCommanded, Steady, Running, task
<1>5. Gentle
  BY <1>1, <1>2, Codes, WriteIsGentle DEF Channels
<1> QED
  BY <1>4, <1>5

\* Update keeps the invariant, and is gentle.
LEMMA UpdateKeeps == ASSUME IInv, Update PROVE IInv' /\ Gentle
<1>1. /\ TypeOK /\ pc = "update" /\ board /\ hw = codes /\ pc \in Running
      /\ UNCHANGED <<task, outside>>
  BY DEF IInv, Update, Flushed, Running
<1>2. CASE SenseFails
  BY <1>1, <1>2, SenseFailsKeeps
<1>3. CASE pc' = "switch" /\ UNCHANGED <<codes, hw, faults>>
  <2>1. TypeOK'
    BY <1>1, <1>3 DEF TypeOK, Labels, task, outside
  <2>2. IInv'
    BY <1>1, <1>3, <2>1
       DEF IInv, Flushed, RelayIsSafe, SphereIsCommanded, BeaconIsCommanded, Steady, Running, task
  <2> QED
    BY <1>1, <1>3, <2>2, StillIsGentle
<1>4. ASSUME loop # NoTarget, NEW c \in Near(codes["sphere"]), Write("sphere", c, "switch")
      PROVE  IInv' /\ Gentle
  <2>1. /\ "sphere" \in Channels /\ c \in 0..MaxCode
        /\ c <= codes["sphere"] + MaxStep
    BY <1>1, <1>4, Codes DEF Near, Channels
  <2>2. /\ codes' \in [Channels -> 0..MaxCode] /\ hw' \in [Channels -> 0..MaxCode]
        /\ faults' \in 0..MaxFaults
        /\ codes'["sphere"] = c /\ codes'["beacon"] = codes["beacon"] /\ codes'["relay"] = codes["relay"]
        /\ \/ hw' = codes' /\ pc' = "switch"
           \/ pc' \in {"off1", "stopped", "setup"} /\ hw'["relay"] = hw["relay"]
    BY <1>1, <1>4, <2>1, WriteFacts DEF Channels
  <2>3. TypeOK'
    BY <1>1, <2>2 DEF TypeOK, Labels, task, outside
  <2>4. IInv'
    BY <1>1, <1>4, <2>2, <2>3
       DEF IInv, Flushed, RelayIsSafe, SphereIsCommanded, BeaconIsCommanded, Steady, Running, task
  <2>5. Gentle
    BY <1>1, <1>4, <2>1, <2>2, WriteIsGentle
  <2> QED
    BY <2>4, <2>5
<1> QED
  BY <1>1, <1>2, <1>3, <1>4 DEF Update

\* Switch keeps the invariant, and is gentle.
LEMMA SwitchKeeps == ASSUME IInv, Switch PROVE IInv' /\ Gentle
<1>1. TypeOK'
  BY DEF IInv, Switch, TypeOK, Labels, task, outside
<1>2. Flushed' /\ RelayIsSafe' /\ SphereIsCommanded'
  BY DEF IInv, Switch, task, Flushed, RelayIsSafe, SphereIsCommanded, Running
<1>3. BeaconIsCommanded'
  BY Codes DEF IInv, TypeOK, Switch, task, Flushed, BeaconIsCommanded, Steady, Running
<1> QED
  BY <1>1, <1>2, <1>3, StillIsGentle DEF IInv, Switch

\* Join keeps the invariant, and is gentle.
LEMMA JoinKeeps == ASSUME IInv, Join PROVE IInv' /\ Gentle
<1>1. /\ TypeOK /\ pc = "join" /\ board /\ hw = codes /\ "beacon" \in Channels /\ 0 \in 0..MaxCode
      /\ Write("beacon", 0, "close") /\ UNCHANGED <<task, outside>>
  BY Codes DEF IInv, Join, Channels, Flushed, Running
<1>2. /\ codes' \in [Channels -> 0..MaxCode] /\ hw' \in [Channels -> 0..MaxCode]
      /\ faults' \in 0..MaxFaults
      /\ codes'["beacon"] = 0 /\ codes'["sphere"] = codes["sphere"] /\ codes'["relay"] = codes["relay"]
      /\ \/ hw' = codes' /\ pc' = "close"
         \/ pc' \in {"off1", "stopped", "setup"} /\ hw'["relay"] = hw["relay"]
  BY <1>1, WriteFacts DEF Channels
<1>3. TypeOK'
  BY <1>1, <1>2 DEF TypeOK, Labels, task, outside
<1>4. Flushed' /\ RelayIsSafe' /\ SphereIsCommanded'
  BY <1>1, <1>2 DEF IInv, Flushed, RelayIsSafe, SphereIsCommanded, Running, task
<1>5. BeaconIsCommanded'
  BY <1>1, <1>2 DEF IInv, BeaconIsCommanded, Steady, task
<1>6. Gentle
  BY <1>1, <1>2, Codes, WriteIsGentle DEF Channels
<1> QED
  BY <1>3, <1>4, <1>5, <1>6 DEF IInv

\* Close keeps the invariant, and is gentle.
LEMMA CloseKeeps == ASSUME IInv, Close PROVE IInv' /\ Gentle
<1>1. /\ TypeOK /\ pc = "close" /\ board /\ hw = codes /\ "relay" \in Channels /\ On \in 0..MaxCode
      /\ codes["beacon"] = 0 /\ Write("relay", On, "rise") /\ UNCHANGED <<task, outside>>
  BY Codes DEF IInv, Close, Channels, Flushed, RelayIsSafe, Running
<1>2. /\ codes' \in [Channels -> 0..MaxCode] /\ hw' \in [Channels -> 0..MaxCode]
      /\ faults' \in 0..MaxFaults
      /\ codes'["beacon"] = 0 /\ codes'["sphere"] = codes["sphere"] /\ codes'["relay"] = On
      /\ \/ hw' = codes' /\ pc' = "rise"
         \/ pc' \in {"off1", "stopped", "setup"} /\ hw'["relay"] = hw["relay"]
  BY <1>1, WriteFacts DEF Channels
<1>3. TypeOK'
  BY <1>1, <1>2 DEF TypeOK, Labels, task, outside
<1>4. Flushed' /\ RelayIsSafe' /\ SphereIsCommanded'
  BY <1>1, <1>2 DEF IInv, Flushed, RelayIsSafe, SphereIsCommanded, Running, task
<1>5. BeaconIsCommanded'
  <2>1. wish' /\ ~beaconOn' /\ codes'["beacon"] <= Brightness
    BY <1>1, <1>2, CodesAssumption DEF IInv, BeaconIsCommanded, task
  <2> QED
    BY <1>2, <2>1 DEF BeaconIsCommanded
<1>6. Gentle
  BY <1>1, <1>2, Codes, WriteIsGentle DEF Channels
<1> QED
  BY <1>3, <1>4, <1>5, <1>6 DEF IInv

\* A step of a ramp, up or down.
LEMMA RampKeeps ==
    ASSUME IInv, NEW code \in 0..MaxCode, Write("beacon", code, pc), UNCHANGED <<task, outside>>,
           pc = "rise" => code <= Brightness, pc = "fall" => code <= Brightness, pc \in {"rise", "fall"}
    PROVE  IInv' /\ Gentle
<1>1. TypeOK /\ board /\ hw = codes /\ "beacon" \in Channels
  BY DEF IInv, Channels, Flushed, Running
<1>2. /\ codes' \in [Channels -> 0..MaxCode] /\ hw' \in [Channels -> 0..MaxCode]
      /\ faults' \in 0..MaxFaults
      /\ codes'["beacon"] = code /\ codes'["sphere"] = codes["sphere"] /\ codes'["relay"] = codes["relay"]
      /\ \/ hw' = codes' /\ pc' = pc
         \/ pc' \in {"off1", "stopped", "setup"} /\ hw'["relay"] = hw["relay"]
  BY <1>1, WriteFacts DEF Channels
<1>3. TypeOK'
  BY <1>1, <1>2 DEF TypeOK, Labels, task, outside
<1>4. Flushed' /\ RelayIsSafe' /\ SphereIsCommanded'
  BY <1>1, <1>2 DEF IInv, Flushed, RelayIsSafe, SphereIsCommanded, Running, task
<1>5. BeaconIsCommanded'
  BY <1>1, <1>2 DEF IInv, BeaconIsCommanded, task
<1>6. Gentle
  BY <1>1, <1>2, Codes, WriteIsGentle DEF Channels
<1> QED
  BY <1>3, <1>4, <1>5, <1>6 DEF IInv

\* Rise keeps the invariant, and is gentle.
LEMMA RiseKeeps == ASSUME IInv, Rise PROVE IInv' /\ Gentle
<1>1. /\ pc = "rise" /\ TypeOK /\ UNCHANGED <<loop, board, sphereOn, target, wish, outside>>
      /\ board /\ hw = codes /\ wish /\ ~beaconOn /\ codes["relay"] = On
      /\ codes["beacon"] \in 0..MaxCode /\ codes["beacon"] <= Brightness
  BY Codes DEF IInv, Rise, Flushed, BeaconIsCommanded, Running, Channels
<1>2. CASE codes["beacon"] < Brightness
  <2>1. Write("beacon", codes["beacon"] + 1, "rise") /\ UNCHANGED <<task, outside>>
    BY <1>2 DEF Rise, task
  <2> QED
    BY <1>1, <1>2, <2>1, Codes, RampKeeps
<1>3. CASE ~(codes["beacon"] < Brightness)
  <2>1. pc' = "report" /\ beaconOn' = TRUE /\ UNCHANGED <<codes, hw, faults>>
    BY <1>3 DEF Rise
  <2>2. codes["beacon"] = Brightness
    BY <1>1, <1>3, Codes
  <2>3. TypeOK'
    BY <1>1, <2>1 DEF TypeOK, Labels, outside
  <2>4. IInv'
    BY <1>1, <2>1, <2>2, <2>3
       DEF IInv, Flushed, RelayIsSafe, SphereIsCommanded, BeaconIsCommanded, Steady, Running
  <2> QED
    BY <1>1, <2>1, <2>4, StillIsGentle
<1> QED
  BY <1>2, <1>3

\* Fall keeps the invariant, and is gentle.
LEMMA FallKeeps == ASSUME IInv, Fall PROVE IInv' /\ Gentle
<1>1. /\ pc = "fall" /\ TypeOK /\ UNCHANGED <<task, outside>> /\ board /\ hw = codes
      /\ codes["beacon"] \in 0..MaxCode /\ codes["beacon"] <= Brightness
  BY Codes DEF IInv, Fall, Flushed, BeaconIsCommanded, Running, Channels
<1>2. CASE FallOver
  <2>1. pc' = "break" /\ UNCHANGED <<codes, hw, faults>> /\ codes["beacon"] = 0
    BY <1>2 DEF Fall, FallOver
  <2>2. TypeOK'
    BY <1>1, <2>1 DEF TypeOK, Labels, task, outside
  <2>3. IInv'
    BY <1>1, <2>1, <2>2
       DEF IInv, Flushed, RelayIsSafe, SphereIsCommanded, BeaconIsCommanded, Running, task
  <2> QED
    BY <1>1, <2>1, <2>3, StillIsGentle
<1>3. CASE ~FallOver
  <2>1. Write("beacon", codes["beacon"] - 1, pc)
    BY <1>1, <1>3 DEF Fall
  <2>2. codes["beacon"] - 1 \in 0..MaxCode /\ codes["beacon"] - 1 <= Brightness
    BY <1>1, <1>3, Codes DEF FallOver
  <2> QED
    BY <1>1, <2>1, <2>2, RampKeeps
<1> QED
  BY <1>2, <1>3

\* Break keeps the invariant, and is gentle.
LEMMA BreakKeeps == ASSUME IInv, Break PROVE IInv' /\ Gentle
<1>1. /\ TypeOK /\ pc = "break" /\ board /\ hw = codes /\ "relay" \in Channels /\ 0 \in 0..MaxCode
      /\ codes["beacon"] = 0 /\ Write("relay", 0, "report") /\ ~wish
      /\ UNCHANGED <<loop, board, sphereOn, target, wish, outside>>
  BY Codes DEF IInv, Break, Channels, Flushed, RelayIsSafe, BeaconIsCommanded, Running
<1>2. /\ codes' \in [Channels -> 0..MaxCode] /\ hw' \in [Channels -> 0..MaxCode]
      /\ faults' \in 0..MaxFaults
      /\ codes'["beacon"] = 0 /\ codes'["sphere"] = codes["sphere"] /\ codes'["relay"] = 0
      /\ \/ hw' = codes' /\ pc' = "report"
         \/ pc' \in {"off1", "stopped", "setup"} /\ hw'["relay"] = hw["relay"]
  BY <1>1, WriteFacts DEF Channels
<1>3. (pc' = "report" => beaconOn' = FALSE) /\ beaconOn' \in BOOLEAN
  BY DEF Break, IInv, TypeOK
<1>4. TypeOK'
  BY <1>1, <1>2, <1>3 DEF TypeOK, Labels, outside
<1>5. Flushed' /\ RelayIsSafe' /\ SphereIsCommanded'
  BY <1>1, <1>2 DEF IInv, Flushed, RelayIsSafe, SphereIsCommanded, Running
<1>6. BeaconIsCommanded'
  BY <1>1, <1>2, <1>3 DEF IInv, TypeOK, BeaconIsCommanded, Steady
<1>7. Gentle
  BY <1>1, <1>2, Codes, WriteIsGentle DEF Channels
<1> QED
  BY <1>4, <1>5, <1>6, <1>7 DEF IInv

\* Report keeps the invariant, and is gentle.
LEMMA ReportKeeps == ASSUME IInv, Report PROVE IInv' /\ Gentle
<1>1. TypeOK /\ pc = "report" /\ pc \in Running /\ UNCHANGED <<task, outside>>
  BY DEF IInv, Report, Running
<1>2. CASE SenseFails
  BY <1>1, <1>2, SenseFailsKeeps
<1>3. CASE pc' = "cycle" /\ UNCHANGED <<codes, hw, faults>>
  <2>1. TypeOK'
    BY <1>1, <1>3 DEF TypeOK, Labels, task, outside
  <2>2. IInv'
    BY <1>1, <1>3, <2>1
       DEF IInv, Flushed, RelayIsSafe, SphereIsCommanded, BeaconIsCommanded, Steady, Running, task
  <2> QED
    BY <1>1, <1>3, <2>2, StillIsGentle
<1> QED
  BY <1>2, <1>3 DEF Report

-----------------------------------------------------------------------------
(* The theorems                                                              *)

\* The invariant holds at the start.
LEMMA InitEstablishes == Init => IInv
<1> SUFFICES ASSUME Init PROVE IInv
  OBVIOUS
<1>1. Dark \in [Channels -> 0..MaxCode] /\ \A c \in Channels : Dark[c] = 0
  BY CodesAssumption DEF Dark
<1>2. TypeOK
  <2>1. MaxFaults \in Nat /\ MaxCommands \in Nat
    BY BoundsAssumption
  <2>2. {loop, target, setting} \subseteq Targets \cup {NoTarget}
    BY TargetsAssumption DEF Init
  <2>3. {board, sphereOn, beaconOn, wish, flash, stop} \subseteq BOOLEAN /\ pc \in Labels
    BY DEF Init, Labels
  <2>4. codes \in [Channels -> 0..MaxCode] /\ hw \in [Channels -> 0..MaxCode]
    BY <1>1 DEF Init
  <2>5. faults \in 0..MaxFaults /\ commands \in 0..MaxCommands
    BY <2>1 DEF Init
  <2> QED
    BY <2>2, <2>3, <2>4, <2>5 DEF TypeOK
<1>3. Flushed /\ RelayIsSafe /\ SphereIsCommanded /\ BeaconIsCommanded
  BY DEF Init, Flushed, RelayIsSafe, SphereIsCommanded, BeaconIsCommanded, Running
<1> QED
  BY <1>2, <1>3 DEF IInv

\* The ground, the clock and the flight stage task.
LEMMA OutsideKeeps ==
    ASSUME IInv, (\E t \in Targets : CommandTarget(t)) \/ ClockTurns \/ StopLights
    PROVE  IInv' /\ Gentle
<1>1. TypeOK'
  <2>1. MaxFaults \in Nat /\ MaxCommands \in Nat
    BY BoundsAssumption
  <2>2. CASE \E t \in Targets : CommandTarget(t)
    BY <2>1, <2>2 DEF IInv, TypeOK, CommandTarget, task
  <2>3. CASE ClockTurns \/ StopLights
    BY <2>3 DEF IInv, TypeOK, ClockTurns, StopLights, task
  <2> QED
    BY <2>2, <2>3
<1>2. UNCHANGED <<pc, codes, hw, loop, board, sphereOn, beaconOn, target, wish>>
  BY DEF CommandTarget, ClockTurns, StopLights, task
<1>3. Flushed' /\ RelayIsSafe' /\ SphereIsCommanded' /\ BeaconIsCommanded'
  BY <1>2 DEF IInv, Flushed, RelayIsSafe, SphereIsCommanded, BeaconIsCommanded, Steady
<1> QED
  BY <1>1, <1>2, <1>3, StillIsGentle DEF IInv

\* Every step of the specification keeps the invariant.
LEMMA NextKeeps == IInv /\ [Next]_vars => IInv' /\ Gentle
<1> SUFFICES ASSUME IInv, [Next]_vars PROVE IInv' /\ Gentle
  OBVIOUS
<1>1. CASE Thread
  <2>1. CASE Setup \/ Engage \/ Poll \/ Unconfigured \/ ZeroSphere \/ Update
    BY <2>1, SetupKeeps, EngageKeeps, PollKeeps, UnconfiguredKeeps, ZeroSphereKeeps, UpdateKeeps
  <2>2. CASE Switch \/ Join \/ Close \/ Rise \/ Fall \/ Break \/ Report
    BY <2>2, SwitchKeeps, JoinKeeps, CloseKeeps, RiseKeeps, FallKeeps, BreakKeeps, ReportKeeps
  <2>3. CASE Teardown
    BY <2>3, OffSphereKeeps, OffBeaconKeeps, OffRelayKeeps, CloseBoardKeeps DEF Teardown
  <2>4. CASE StopBeforeSetup \/ Stop
    BY <2>4, QuietKeeps DEF StopBeforeSetup, Stop, AfterStop
  <2> QED
    BY <1>1, <2>1, <2>2, <2>3, <2>4 DEF Thread
<1>2. CASE (\E t \in Targets : CommandTarget(t)) \/ ClockTurns \/ StopLights
  BY <1>2, OutsideKeeps
<1>3. CASE UNCHANGED vars
  <2>1. TypeOK'
    BY <1>3 DEF IInv, TypeOK, vars, task, outside
  <2>2. Flushed' /\ RelayIsSafe' /\ SphereIsCommanded' /\ BeaconIsCommanded'
    BY <1>3 DEF IInv, Flushed, RelayIsSafe, SphereIsCommanded, BeaconIsCommanded, Steady, vars, task
  <2> QED
    BY <1>3, <2>1, <2>2, StillIsGentle DEF IInv, vars
<1> QED
  BY <1>1, <1>2, <1>3 DEF Next

\* The inductive invariant holds in every reachable state.
THEOREM Invariance == Spec => []IInv
BY InitEstablishes, NextKeeps, PTL DEF Spec

\* Between two cycles of LightingTask no code is cached and unsent, the beacon burns as the
\* schedule wanted it at the top of the cycle, and the sphere's loop holds what the task
\* takes for its target, whichever write of a cycle, a teardown or a setup failed before.
THEOREM LightsAreAsCommanded == Spec => []OutputsAreCommanded
<1>1. IInv => OutputsAreCommanded
  BY DEF IInv, OutputsAreCommanded, Flushed, SphereIsCommanded, BeaconIsCommanded, Steady, Running
<1> QED
  BY <1>1, Invariance, PTL

\* The contacts of the beacon's relay never make or break under current, although every
\* write of one channel of the DAC sends the codes of all, and a failed one has sent some.
THEOREM RelaySwitchesWithoutCurrent == Spec => CurrentlessSwitching
<1>1. IInv /\ [Next]_vars => [hw'["relay"] # hw["relay"] => hw'["beacon"] = 0]_vars
  BY NextKeeps DEF Gentle
<1> QED
  BY <1>1, Invariance, PTL DEF Spec, CurrentlessSwitching

\* No flush makes up for several bounded steps of the sphere's loop at once.
THEOREM SphereNeverJumps == Spec => NoCurrentJump
<1>1. IInv /\ [Next]_vars => [hw'["sphere"] <= hw["sphere"] + MaxStep]_vars
  BY NextKeeps DEF Gentle
<1> QED
  BY <1>1, Invariance, PTL DEF Spec, NoCurrentJump
=============================================================================
