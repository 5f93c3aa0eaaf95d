--------------------------- MODULE ReadoutProofs ---------------------------
(***************************************************************************)
(* Proofs about Readout, for any number of readouts, backup boards and        *)
(* failing operations.                                                      *)
(***************************************************************************)
EXTENDS Readout, TLAPS

\* Where the photodiode task is: before the first device is open, while they are opened,
\* while they are used, and on the way down.
Constructing == {"dir", "gpio", "outReset", "outIntegrators", "reset", "enable", "verify"}
Opening == {"adc", "dac", "zero"}
Using == {"prepare", "log", "sample", "record", "temperatures", "restore"}
Closing == {"closeIntegrators", "closeReadout"}
Idle == {"hold", "closeIo", "down", "end"}

\* What TypeOK leaves open: the program counters and the loops.
Loops ==
    /\ ppc \in Constructing \cup Opening \cup Using \cup Closing \cup Idle
    /\ gpc \in {"open", "gpio", "out", "run", "off", "down", "end"}
    /\ todo \in Seq(Paths)
    /\ ppc \in Opening \cup {"prepare", "sample", "temperatures", "restore"} => todo # <<>>
    /\ ppc \in Opening => IsInjective(todo)

\* Which lines and devices are open at each point.
Holding ==
    /\ ppc \in {"down", "end"} => held = {}
    /\ ppc \in Constructing \cup Opening \cup Using \cup Closing => held = BackupCs
    /\ ppc \in Constructing \cup Idle => adcs = {} /\ dacs = {}
    /\ ppc = "adc" => adcs = dacs /\ dacs = Paths \ ToSet(todo)
    /\ ppc = "dac" => adcs = dacs \cup {Head(todo)} /\ dacs = Paths \ ToSet(todo)
    /\ ppc = "zero" => adcs = dacs /\ dacs = Paths \ ToSet(Tail(todo))
    /\ ppc \in Using => adcs = Paths /\ dacs = Paths
    /\ ppc \in Closing => adcs = dacs

\* Only a readout whose DAC is open can have a bias or a closed path, unless it was missed.
OnlyOpenIsLive == \A r \in Paths : r \notin missed \cup dacs => ~relay[r] /\ ~bias[r]

\* GpsTask cannot undo a reset of the ADCs that it has caused: what it has read of the chip
\* since is the reset itself.
ResetStays ==
    /\ ppc = "outIntegrators" => "pdReset" \in shadow["photodiode"].dir
    /\ gpc \in {"gpio", "out"} /\ "pdReset" \in shadow["gps"].dir => "pdReset" \in dir
    /\ ppc \in Opening \cup Using /\ ~Enabled /\ "pdReset" \in dir =>
         /\ gpc \in {"gpio", "out"} => "pdReset" \in shadow["gps"].dir
         /\ gpc \in {"out", "run", "off"} => "pdReset" \notin shadow["gps"].gpio

\* An ADC that has not been reset converts the photodiode whenever its code is taken.
InputsAreSet ==
    /\ ppc \in {"prepare", "restore"} /\ Enabled => \A r \in Paths \ ToSet(todo) : mux[r] = "tia"
    /\ ppc \in {"log", "sample", "record"} /\ Enabled => \A r \in Paths : mux[r] = "tia"

\* The inductive invariant.
IInv == TypeOK /\ Loops /\ Holding /\ OnlyOpenIsLive /\ ResetStays /\ InputsAreSet /\ SamplesAreOfTheDiode

-----------------------------------------------------------------------------
(* The loops over the readouts, and what a write to the expander does         *)

\* One step of a loop over readouts.
LEMMA LoopSteps ==
    ASSUME NEW s \in Seq(Paths), s # <<>>
    PROVE  /\ Head(s) \in Paths /\ Tail(s) \in Seq(Paths)
           /\ ToSet(s) = {Head(s)} \cup ToSet(Tail(s))
           /\ IsInjective(s) => IsInjective(Tail(s)) /\ Head(s) \notin ToSet(Tail(s))
<1>1. Head(s) = s[1] /\ Len(s) \in Nat /\ Len(s) > 0 /\ DOMAIN s = 1 .. Len(s)
  OBVIOUS
<1>2. /\ Tail(s) \in Seq(Paths) /\ DOMAIN Tail(s) = 1 .. Len(s) - 1
      /\ \A i \in 1 .. Len(s) - 1 : Tail(s)[i] = s[i + 1]
  OBVIOUS
<1>3. \A i \in DOMAIN s : i = 1 \/ (i - 1 \in DOMAIN Tail(s) /\ s[i] = Tail(s)[i - 1])
  BY <1>1, <1>2
<1>4. ToSet(s) = {Head(s)} \cup ToSet(Tail(s))
  <2>1. ASSUME NEW i \in DOMAIN s
        PROVE  s[i] \in {Head(s)} \cup ToSet(Tail(s))
    BY <1>1, <1>3 DEF ToSet
  <2>2. s[1] \in ToSet(s)
    BY <1>1 DEF ToSet
  <2>3. ASSUME NEW j \in DOMAIN Tail(s)
        PROVE  Tail(s)[j] \in ToSet(s)
    BY <1>1, <1>2 DEF ToSet
  <2> QED
    BY <1>1, <2>1, <2>2, <2>3 DEF ToSet
<1>5. ASSUME IsInjective(s)
      PROVE  IsInjective(Tail(s)) /\ Head(s) \notin ToSet(Tail(s))
  BY <1>1, <1>2, <1>5 DEF IsInjective, ToSet
<1> QED
  BY <1>1, <1>2, <1>4, <1>5

\* Every loop goes over every readout.
LEMMA ReadoutsLoop ==
    /\ Readouts \in Seq(Paths) /\ Readouts # <<>> /\ IsInjective(Readouts)
    /\ ToSet(Readouts) = Paths
    /\ Readouts \o Readouts \in Seq(Paths) /\ Readouts \o Readouts # <<>>
    /\ \A s \in Seq(Paths) : ToSet(s) \subseteq Paths
    /\ ToSet(<<>>) = {} /\ <<>> \in Seq(Paths)
<1>1. \A s \in Seq(Paths) : ToSet(s) \subseteq Paths
  BY DEF ToSet
<1>2. Readouts \in Seq(Paths) /\ Readouts # <<>> /\ IsInjective(Readouts)
  BY ConstantsAssumption
<1>3. Readouts \o Readouts \in Seq(Paths) /\ Readouts \o Readouts # <<>>
  BY <1>2
<1> QED
  BY <1>1, <1>2, <1>3 DEF Paths, ToSet

\* A write of the ports keeps every type and closes no path but by a reset; an ADC that is
\* enabled after it has kept its input.
LEMMA DriveFacts ==
    ASSUME TypeOK, NEW newDir \in SUBSET Pins, NEW newLatch \in SUBSET Pins,
           Drive(newDir, newLatch)
    PROVE  /\ dir' = newDir /\ latch' = newLatch /\ pulled' = pulled
           /\ bias' = bias /\ missed' = missed /\ taken' = taken
           /\ mux' \in [Paths -> Inputs] /\ relay' \in [Paths -> BOOLEAN]
           /\ \A r \in Paths : relay'[r] => relay[r]
           /\ Enabled' => mux' = mux
           /\ Enabled' <=> IF "pdReset" \in newDir THEN "pdReset" \in newLatch
                                                   ELSE "pdReset" \in pulled
  BY DEF Drive, TypeOK, Enabled, High, Inputs

\* What remains to be shown of a step that leaves the chip and the GPS task alone.
LEMMA ShadowType ==
    ASSUME TypeOK, NEW t \in Tasks, NEW newDir \in SUBSET Pins, NEW newGpio \in SUBSET Pins,
           Remember(t, newDir, newGpio)
    PROVE  /\ shadow' \in [Tasks -> [dir : SUBSET Pins, gpio : SUBSET Pins]]
           /\ shadow'[t].dir = newDir /\ shadow'[t].gpio = newGpio
           /\ \A u \in Tasks \ {t} : shadow'[u] = shadow[u]
  BY DEF Remember, TypeOK

\* The number of failures stays within its bound.
LEMMA FaultCounts ==
    ASSUME TypeOK, Fault \/ UNCHANGED faults
    PROVE  faults' \in 0 .. MaxFaults
  BY ConstantsAssumption DEF TypeOK, Fault

\* A loop goes on with a readout it has still to visit, or leaves `next' to the next loop.
LEMMA OnwardFacts ==
    ASSUME NEW again, NEW over, NEW next \in Seq(Paths), Onward(again, over, next),
           todo \in Seq(Paths), todo # <<>>
    PROVE  /\ todo' \in Seq(Paths) /\ ToSet(todo') \subseteq Paths
           /\ \/ ppc' = again /\ todo' = Tail(todo) /\ todo' # <<>>
              \/ ppc' = over /\ todo' = next /\ ToSet(Tail(todo)) = {}
<1>1. CASE Tail(todo) # <<>>
  <2>1. Tail(todo) \in Seq(Paths) /\ ToSet(Tail(todo)) \subseteq Paths
    BY ReadoutsLoop, LoopSteps
  <2> QED
    BY <1>1, <2>1 DEF Onward
<1>2. CASE Tail(todo) = <<>>
  BY <1>2, ReadoutsLoop DEF Onward
<1> QED
  BY <1>1, <1>2

\* set_relays(0) and set_voltage(0) leave the readout safe or missed, and no other changed.
LEMMA ToSafeFacts ==
    ASSUME TypeOK, NEW r \in Paths, ToSafe(r)
    PROVE  /\ relay' \in [Paths -> BOOLEAN] /\ bias' \in [Paths -> BOOLEAN]
           /\ missed' \subseteq Paths /\ mux' = mux /\ taken' = taken
           /\ faults' \in 0 .. MaxFaults
           /\ r \in missed' \/ (~relay'[r] /\ ~bias'[r])
           /\ \A q \in Paths \ {r} :
                relay'[q] = relay[q] /\ bias'[q] = bias[q] /\ (q \in missed' <=> q \in missed)
<1>1. faults' \in 0 .. MaxFaults
  BY FaultCounts DEF ToSafe
<1>2. CASE /\ relay' = [relay EXCEPT ![r] = FALSE] /\ bias' = [bias EXCEPT ![r] = FALSE]
           /\ missed' = missed \ {r} /\ UNCHANGED <<mux, taken>>
  BY <1>1, <1>2 DEF TypeOK
<1>3. CASE /\ missed' = missed \cup {r}
           /\ relay' \in {relay, [relay EXCEPT ![r] = FALSE]}
           /\ bias' \in {bias, [bias EXCEPT ![r] = FALSE]}
           /\ UNCHANGED <<mux, taken>>
  BY <1>1, <1>3 DEF TypeOK
<1> QED
  BY <1>2, <1>3 DEF ToSafe

\* configure_input() changes the input of one ADC, or of none.
LEMMA ConfigureFacts ==
    ASSUME TypeOK, NEW r \in Paths, NEW input \in Inputs,
           Configure(r, input) \/ ConfigureFails(r, input)
    PROVE  /\ mux' \in [Paths -> Inputs]
           /\ \A q \in Paths \ {r} : mux'[q] = mux[q]
           /\ Configure(r, input) /\ Enabled => mux'[r] = input
  BY DEF Configure, ConfigureFails, TypeOK

\* The two writes that a task can make, whole ports from its shadow registers.
ChipFacts ==
    /\ pulled' = pulled /\ bias' = bias /\ missed' = missed /\ taken' = taken
    /\ mux' \in [Paths -> Inputs] /\ relay' \in [Paths -> BOOLEAN]
    /\ \A r \in Paths : relay'[r] => relay[r]
    /\ Enabled' => mux' = mux

ShadowFacts(t) ==
    /\ shadow' \in [Tasks -> [dir : SUBSET Pins, gpio : SUBSET Pins]]
    /\ \A u \in Tasks \ {t} : shadow'[u] = shadow[u]

\* set_output() makes one pin an output, with the levels of the shadow.
LEMMA SetOutputFacts ==
    ASSUME TypeOK, NEW t \in Tasks, NEW pin \in Pins, SetOutput(t, pin)
    PROVE  /\ ChipFacts /\ ShadowFacts(t)
           /\ dir' = shadow[t].dir \cup {pin} /\ latch' = latch
           /\ shadow'[t].dir = dir' /\ shadow'[t].gpio = shadow[t].gpio
           /\ Enabled' <=> IF "pdReset" \in dir' THEN "pdReset" \in latch
                                                 ELSE "pdReset" \in pulled
<1>1. shadow[t].dir \cup {pin} \in SUBSET Pins /\ shadow[t].gpio \in SUBSET Pins
  BY DEF TypeOK
<1>2. /\ Remember(t, shadow[t].dir \cup {pin}, shadow[t].gpio)
      /\ Drive(shadow[t].dir \cup {pin}, latch) /\ latch \in SUBSET Pins
  BY DEF SetOutput, TypeOK
<1> DEFINE new == shadow[t].dir \cup {pin}
<1>3. /\ ShadowFacts(t) /\ shadow'[t].dir = new /\ shadow'[t].gpio = shadow[t].gpio
  BY <1>1, <1>2, ShadowType DEF ShadowFacts
<1>4. /\ ChipFacts /\ dir' = new /\ latch' = latch
      /\ Enabled' <=> IF "pdReset" \in new THEN "pdReset" \in latch ELSE "pdReset" \in pulled
  <2> HIDE DEF new
  <2>1. TypeOK /\ new \in SUBSET Pins /\ latch \in SUBSET Pins /\ Drive(new, latch)
    BY <1>1, <1>2 DEF new
  <2> QED
    BY <2>1, DriveFacts DEF ChipFacts
<1> QED
  BY <1>3, <1>4

\* set_pin() changes one level, with the others of the shadow.
LEMMA SetPinFacts ==
    ASSUME TypeOK, NEW t \in Tasks, NEW pin \in Pins, NEW on, SetPin(t, pin, on)
    PROVE  /\ ChipFacts /\ ShadowFacts(t)
           /\ dir' = dir /\ latch' \in SUBSET Pins
           /\ \A p \in Pins \ {pin} : p \in latch' <=> p \in shadow[t].gpio
           /\ shadow'[t].dir = shadow[t].dir /\ shadow'[t].gpio = latch'
           /\ Enabled' <=> IF "pdReset" \in dir THEN "pdReset" \in latch'
                                                ELSE "pdReset" \in pulled
<1> DEFINE port == Port(t, pin, on)
<1>1. shadow[t].dir \in SUBSET Pins /\ port \in SUBSET Pins /\ dir \in SUBSET Pins
  BY DEF TypeOK, Port
<1>2. \A p \in Pins \ {pin} : p \in port <=> p \in shadow[t].gpio
  BY DEF Port
<1>3. Remember(t, shadow[t].dir, port) /\ Drive(dir, port)
  BY DEF SetPin
<1> HIDE DEF port
<1>4. /\ ShadowFacts(t) /\ shadow'[t].dir = shadow[t].dir /\ shadow'[t].gpio = port
  BY <1>1, <1>3, ShadowType DEF ShadowFacts
<1>5. /\ ChipFacts /\ dir' = dir /\ latch' = port
      /\ Enabled' <=> IF "pdReset" \in dir THEN "pdReset" \in port ELSE "pdReset" \in pulled
  BY <1>1, <1>3, DriveFacts DEF ChipFacts
<1> QED
  BY <1>1, <1>2, <1>4, <1>5

\* A write that fails has changed nothing but that pin in the shadow.
LEMMA WriteFailsFacts ==
    ASSUME TypeOK, NEW t \in Tasks, NEW pin \in Pins, NEW on,
           SetOutputFails(t, pin) \/ SetPinFails(t, pin, on)
    PROVE  /\ ChipFacts /\ ShadowFacts(t) /\ UNCHANGED <<chip, analog>>
           /\ faults' \in 0 .. MaxFaults
           /\ \A p \in Pins \ {pin} : /\ p \in shadow'[t].dir <=> p \in shadow[t].dir
                                      /\ p \in shadow'[t].gpio <=> p \in shadow[t].gpio
<1>1. /\ shadow[t].dir \in SUBSET Pins /\ shadow[t].gpio \in SUBSET Pins
      /\ Port(t, pin, on) \in SUBSET Pins
  BY DEF TypeOK, Port
<1>2. Fault /\ UNCHANGED <<chip, analog>>
  BY DEF SetOutputFails, SetPinFails
<1>3. ChipFacts /\ faults' \in 0 .. MaxFaults
  BY <1>2, FaultCounts DEF TypeOK, ChipFacts, Enabled, High, chip, analog
<1>4. CASE SetOutputFails(t, pin)
  <2> DEFINE new == shadow[t].dir \cup {pin}
  <2>1. Remember(t, new, shadow[t].gpio) /\ new \in SUBSET Pins
    BY <1>1, <1>4 DEF SetOutputFails
  <2>2. \A p \in Pins \ {pin} : p \in new <=> p \in shadow[t].dir
    OBVIOUS
  <2> HIDE DEF new
  <2>3. ShadowFacts(t) /\ shadow'[t].dir = new /\ shadow'[t].gpio = shadow[t].gpio
    BY <1>1, <2>1, ShadowType DEF ShadowFacts
  <2> QED
    BY <1>2, <1>3, <2>2, <2>3
<1>5. CASE SetPinFails(t, pin, on)
  <2>1. Remember(t, shadow[t].dir, Port(t, pin, on))
    BY <1>5 DEF SetPinFails
  <2>2. ShadowFacts(t) /\ shadow'[t].dir = shadow[t].dir /\ shadow'[t].gpio = Port(t, pin, on)
    BY <1>1, <2>1, ShadowType DEF ShadowFacts
  <2> QED
    BY <1>2, <1>3, <2>2 DEF Port
<1> QED
  BY <1>4, <1>5

-----------------------------------------------------------------------------
(* The constructor                                                           *)

\* HoldBackup keeps the invariant.
LEMMA HoldBackupKeeps == ASSUME IInv, NEW cs \in BackupCs, HoldBackup(cs) PROVE IInv'
<1>1. TypeOK /\ Loops /\ Holding
  BY DEF IInv
<1>2. faults' \in 0 .. MaxFaults
  BY <1>1, FaultCounts DEF Loops, Opening, HoldBackup, chip, lines, analog
<1>3. todo' \in Seq(Paths) /\ ToSet(todo') \subseteq Paths
  BY <1>1, ReadoutsLoop, LoopSteps DEF Loops, TypeOK, HoldBackup, chip, lines, analog
<1>4. TypeOK'
  BY <1>1, <1>2, <1>3, LoopSteps DEF Loops, TypeOK, Inputs, Opening, HoldBackup, chip, lines, analog
<1>5. Loops'
  BY <1>1, <1>3, ReadoutsLoop, LoopSteps
     DEF Loops, Opening, Constructing, Using, Closing, Idle, HoldBackup, chip, lines, analog
<1>6. Holding'
  BY <1>1, ReadoutsLoop, LoopSteps
     DEF Loops, TypeOK, Holding, Opening, Constructing, Using, Closing, Idle, HoldBackup, chip,
         lines, analog
<1>7. OnlyOpenIsLive'
  BY <1>1, LoopSteps
     DEF IInv, Loops, TypeOK, Holding, OnlyOpenIsLive, Opening, Using, HoldBackup, chip, lines,
         analog
<1>8. (ResetStays /\ InputsAreSet /\ SamplesAreOfTheDiode)'
  BY <1>1, ReadoutsLoop, LoopSteps
     DEF IInv, Loops, TypeOK, ResetStays, InputsAreSet, SamplesAreOfTheDiode, Opening, Using,
         Enabled, High, Inputs, HoldBackup, chip, lines, analog
<1> QED
  BY <1>4, <1>5, <1>6, <1>7, <1>8 DEF IInv

\* OpenExpander keeps the invariant.
LEMMA OpenExpanderKeeps == ASSUME IInv, OpenExpander PROVE IInv'
<1>1. TypeOK /\ Loops /\ Holding
  BY DEF IInv
<1>2. /\ UNCHANGED <<dir, latch, pulled, mux, relay, bias, missed, taken>>
      /\ UNCHANGED <<todo, held, adcs, dacs, gpc, stopped, faults>>
      /\ (ppc = "dir" /\ ppc' = "gpio") \/ (ppc = "gpio" /\ ppc' = "outReset")
  BY DEF OpenExpander, ReadDir, ReadGpio, Bus, chip, lines, analog
<1>3. /\ shadow' \in [Tasks -> [dir : SUBSET Pins, gpio : SUBSET Pins]]
      /\ shadow'["gps"] = shadow["gps"]
  <2>1. CASE ReadDir("photodiode")
    BY <1>1, <2>1, ShadowType DEF ReadDir, TypeOK, Tasks
  <2>2. CASE ReadGpio("photodiode")
    <3>1. shadow["photodiode"].dir \in SUBSET Pins
      BY <1>1 DEF TypeOK, Tasks
    <3> QED
      BY <1>1, <2>2, <3>1, ShadowType DEF ReadGpio, Tasks
  <2> QED
    BY <2>1, <2>2 DEF OpenExpander
<1>4. TypeOK'
  BY <1>1, <1>2, <1>3 DEF TypeOK
<1>5. (Loops /\ Holding)'
  BY <1>1, <1>2 DEF Loops, Holding, Opening, Constructing, Using, Closing, Idle
<1>6. OnlyOpenIsLive'
  BY <1>2 DEF IInv, OnlyOpenIsLive
<1>7. (ResetStays /\ InputsAreSet /\ SamplesAreOfTheDiode)'
  BY <1>2, <1>3
     DEF IInv, ResetStays, InputsAreSet, SamplesAreOfTheDiode, Opening, Using, Enabled, High
<1> QED
  BY <1>4, <1>5, <1>6, <1>7 DEF IInv

\* VerifyEnabled keeps the invariant.
LEMMA VerifyEnabledKeeps == ASSUME IInv, VerifyEnabled PROVE IInv'
<1>1. TypeOK /\ Loops /\ Holding
  BY DEF IInv
<1>2. faults' \in 0 .. MaxFaults
  BY <1>1, FaultCounts DEF Loops, Opening, VerifyEnabled, chip, lines, analog
<1>3. todo' \in Seq(Paths) /\ ToSet(todo') \subseteq Paths
  BY <1>1, ReadoutsLoop, LoopSteps DEF Loops, TypeOK, VerifyEnabled, chip, lines, analog
<1>4. TypeOK'
  BY <1>1, <1>2, <1>3, LoopSteps
     DEF Loops, TypeOK, Inputs, Opening, VerifyEnabled, chip, lines, analog
<1>5. Loops'
  BY <1>1, <1>3, ReadoutsLoop, LoopSteps
     DEF Loops, Opening, Constructing, Using, Closing, Idle, VerifyEnabled, chip, lines, analog
<1>6. Holding'
  BY <1>1, ReadoutsLoop, LoopSteps
     DEF Loops, TypeOK, Holding, Opening, Constructing, Using, Closing, Idle, VerifyEnabled, chip,
         lines, analog
<1>7. OnlyOpenIsLive'
  BY <1>1, LoopSteps
     DEF IInv, Loops, TypeOK, Holding, OnlyOpenIsLive, Opening, Using, VerifyEnabled, chip, lines,
         analog
<1>8. (ResetStays /\ InputsAreSet /\ SamplesAreOfTheDiode)'
  BY <1>1, ReadoutsLoop, LoopSteps
     DEF IInv, Loops, TypeOK, ResetStays, InputsAreSet, SamplesAreOfTheDiode, Opening, Using,
         Enabled, High, Inputs, VerifyEnabled, chip, lines, analog
<1> QED
  BY <1>4, <1>5, <1>6, <1>7, <1>8 DEF IInv

\* OpenAdc keeps the invariant.
LEMMA OpenAdcKeeps == ASSUME IInv, OpenAdc PROVE IInv'
<1> DEFINE r == Head(todo)
<1>1. TypeOK /\ Loops /\ Holding /\ ppc = "adc" /\ todo \in Seq(Paths) /\ todo # <<>>
  BY DEF IInv, Loops, Opening, OpenAdc
<1>2. /\ r \in Paths /\ Tail(todo) \in Seq(Paths)
      /\ ToSet(todo) = {r} \cup ToSet(Tail(todo)) /\ ToSet(todo) \subseteq Paths
  BY <1>1, LoopSteps, ReadoutsLoop
<1>3. /\ adcs' = adcs \cup {r} /\ ppc' = "dac" /\ faults' \in 0 .. MaxFaults
      /\ UNCHANGED <<dir, latch, pulled, shadow, todo, held, dacs, bias, missed, taken, gpc,
                     stopped>>
  BY <1>1, FaultCounts DEF OpenAdc, Lost, Arrives, chip
<1>4. /\ mux' \in [Paths -> Inputs] /\ relay' \in [Paths -> BOOLEAN]
      /\ \A q \in Paths : relay'[q] => relay[q]
  <2>1. CASE mux' = [mux EXCEPT ![r] = "reset"] /\ relay' = [relay EXCEPT ![r] = FALSE]
    BY <1>1, <2>1 DEF TypeOK, Inputs
  <2>2. CASE UNCHANGED <<mux, relay>>
    BY <1>1, <2>2 DEF TypeOK
  <2> QED
    BY <2>1, <2>2 DEF OpenAdc
<1> HIDE DEF r
<1>5. TypeOK'
  BY <1>1, <1>2, <1>3, <1>4 DEF TypeOK
<1>6. Loops'
  BY <1>1, <1>3 DEF Loops, Opening, Constructing, Using, Closing, Idle
<1>7. Holding'
  BY <1>1, <1>2, <1>3 DEF r, Holding, Opening, Constructing, Using, Closing, Idle
<1>8. OnlyOpenIsLive'
  BY <1>3, <1>4 DEF IInv, OnlyOpenIsLive
<1>9. (ResetStays /\ InputsAreSet /\ SamplesAreOfTheDiode)'
  BY <1>1, <1>3
     DEF IInv, ResetStays, InputsAreSet, SamplesAreOfTheDiode, Opening, Using, Enabled, High
<1> QED
  BY <1>5, <1>6, <1>7, <1>8, <1>9 DEF IInv

\* OpenDac keeps the invariant.
LEMMA OpenDacKeeps == ASSUME IInv, OpenDac PROVE IInv'
<1>1. TypeOK /\ Loops /\ Holding
  BY DEF IInv
<1>2. faults' \in 0 .. MaxFaults
  BY <1>1, FaultCounts DEF Loops, Opening, OpenDac, chip, lines, analog
<1>3. todo' \in Seq(Paths) /\ ToSet(todo') \subseteq Paths
  BY <1>1, ReadoutsLoop, LoopSteps DEF Loops, TypeOK, OpenDac, chip, lines, analog
<1>4. TypeOK'
  BY <1>1, <1>2, <1>3, LoopSteps DEF Loops, TypeOK, Inputs, Opening, OpenDac, chip, lines, analog
<1>5. Loops'
  BY <1>1, <1>3, ReadoutsLoop, LoopSteps
     DEF Loops, Opening, Constructing, Using, Closing, Idle, OpenDac, chip, lines, analog
<1>6. Holding'
  BY <1>1, ReadoutsLoop, LoopSteps
     DEF Loops, TypeOK, Holding, Opening, Constructing, Using, Closing, Idle, OpenDac, chip,
         lines, analog
<1>7. OnlyOpenIsLive'
  BY <1>1, LoopSteps
     DEF IInv, Loops, TypeOK, Holding, OnlyOpenIsLive, Opening, Using, OpenDac, chip, lines,
         analog
<1>8. (ResetStays /\ InputsAreSet /\ SamplesAreOfTheDiode)'
  BY <1>1, ReadoutsLoop, LoopSteps
     DEF IInv, Loops, TypeOK, ResetStays, InputsAreSet, SamplesAreOfTheDiode, Opening, Using,
         Enabled, High, Inputs, OpenDac, chip, lines, analog
<1> QED
  BY <1>4, <1>5, <1>6, <1>7, <1>8 DEF IInv

\* OpenDacFails keeps the invariant.
LEMMA OpenDacFailsKeeps == ASSUME IInv, OpenDacFails PROVE IInv'
<1>1. TypeOK /\ Loops /\ Holding
  BY DEF IInv
<1>2. faults' \in 0 .. MaxFaults
  BY <1>1, FaultCounts DEF Loops, Opening, OpenDacFails, CloseHalf, Fault, chip, lines, analog
<1>3. todo' \in Seq(Paths) /\ ToSet(todo') \subseteq Paths
  BY <1>1, ReadoutsLoop, LoopSteps
     DEF Loops, TypeOK, OpenDacFails, CloseHalf, Fault, chip, lines, analog
<1>4. TypeOK'
  BY <1>1, <1>2, <1>3, LoopSteps
     DEF Loops, TypeOK, Inputs, Opening, OpenDacFails, CloseHalf, Fault, chip, lines, analog
<1>5. Loops'
  BY <1>1, <1>3, ReadoutsLoop, LoopSteps
     DEF Loops, Opening, Constructing, Using, Closing, Idle, OpenDacFails, CloseHalf, Fault, chip,
         lines, analog
<1>6. Holding'
  BY <1>1, ReadoutsLoop, LoopSteps
     DEF Loops, TypeOK, Holding, Opening, Constructing, Using, Closing, Idle, OpenDacFails,
         CloseHalf, Fault, chip, lines, analog
<1>7. OnlyOpenIsLive'
  BY <1>1, LoopSteps
     DEF IInv, Loops, TypeOK, Holding, OnlyOpenIsLive, Opening, Using, OpenDacFails, CloseHalf,
         Fault, chip, lines, analog
<1>8. (ResetStays /\ InputsAreSet /\ SamplesAreOfTheDiode)'
  BY <1>1, ReadoutsLoop, LoopSteps
     DEF IInv, Loops, TypeOK, ResetStays, InputsAreSet, SamplesAreOfTheDiode, Opening, Using,
         Enabled, High, Inputs, OpenDacFails, CloseHalf, Fault, chip, lines, analog
<1> QED
  BY <1>4, <1>5, <1>6, <1>7, <1>8 DEF IInv

\* Zero keeps the invariant.
LEMMA ZeroKeeps == ASSUME IInv, Zero PROVE IInv'
<1> DEFINE r == Head(todo)
<1>1. TypeOK /\ Loops /\ Holding /\ ppc = "zero" /\ todo \in Seq(Paths) /\ todo # <<>>
  BY DEF IInv, Loops, Opening, Zero
<1>2. /\ r \in Paths /\ Tail(todo) \in Seq(Paths)
      /\ ToSet(todo) = {r} \cup ToSet(Tail(todo)) /\ ToSet(todo) \subseteq Paths
      /\ IsInjective(todo) => IsInjective(Tail(todo)) /\ r \notin ToSet(Tail(todo))
  BY <1>1, LoopSteps, ReadoutsLoop
<1>3. /\ relay' \in [Paths -> BOOLEAN] /\ bias' \in [Paths -> BOOLEAN]
      /\ missed' \subseteq Paths /\ mux' = mux /\ taken' = taken /\ faults' \in 0 .. MaxFaults
      /\ r \in missed' \/ (~relay'[r] /\ ~bias'[r])
      /\ \A q \in Paths \ {r} :
           relay'[q] = relay[q] /\ bias'[q] = bias[q] /\ (q \in missed' <=> q \in missed)
  BY <1>1, <1>2, ToSafeFacts DEF Zero
<1>4. /\ todo' \in Seq(Paths) /\ ToSet(todo') \subseteq Paths
      /\ \/ ppc' = "adc" /\ todo' = Tail(todo) /\ todo' # <<>>
         \/ ppc' = "prepare" /\ todo' = Readouts /\ ToSet(Tail(todo)) = {}
  BY <1>1, ReadoutsLoop, OnwardFacts DEF Zero
<1>5. UNCHANGED <<dir, latch, pulled, shadow, held, adcs, dacs, gpc, stopped>>
  BY DEF Zero, chip, lines, analog
<1> HIDE DEF r
<1>6. TypeOK'
  BY <1>1, <1>2, <1>3, <1>4, <1>5 DEF TypeOK, Inputs, chip
<1>7. Loops'
  BY <1>1, <1>2, <1>3, <1>4, <1>5, ReadoutsLoop
     DEF Loops, Opening, Constructing, Using, Closing, Idle, chip
<1>8. Holding'
  BY <1>1, <1>2, <1>3, <1>4, <1>5, ReadoutsLoop
     DEF Loops, TypeOK, Holding, Opening, Constructing, Using, Closing, Idle, chip
<1>9. OnlyOpenIsLive'
  BY <1>1, <1>2, <1>3, <1>4, <1>5 DEF IInv, TypeOK, Holding, OnlyOpenIsLive, Opening, Using, chip
<1>10. (ResetStays /\ InputsAreSet /\ SamplesAreOfTheDiode)'
  BY <1>1, <1>2, <1>3, <1>4, <1>5, ReadoutsLoop
     DEF IInv, TypeOK, ResetStays, InputsAreSet, SamplesAreOfTheDiode, Opening, Using, Enabled,
         High, chip
<1> QED
  BY <1>6, <1>7, <1>8, <1>9, <1>10 DEF IInv

\* Prepare keeps the invariant.
LEMMA PrepareKeeps == ASSUME IInv, Prepare PROVE IInv'
<1> DEFINE r == Head(todo)
<1>1. TypeOK /\ Loops /\ Holding /\ ppc = "prepare" /\ todo \in Seq(Paths) /\ todo # <<>>
  BY DEF IInv, Loops, Opening, Prepare
<1>2. /\ r \in Paths /\ Tail(todo) \in Seq(Paths)
      /\ ToSet(todo) = {r} \cup ToSet(Tail(todo)) /\ ToSet(todo) \subseteq Paths
      /\ IsInjective(todo) => IsInjective(Tail(todo)) /\ r \notin ToSet(Tail(todo))
  BY <1>1, LoopSteps, ReadoutsLoop
<1>3. /\ mux' \in [Paths -> Inputs] /\ faults' \in 0 .. MaxFaults
      /\ \A q \in Paths \ {r} : mux'[q] = mux[q]
  BY <1>1, <1>2, ConfigureFacts, FaultCounts DEF Prepare, Inputs, ConfigureFails, Fault
<1>4. relay' \in [Paths -> BOOLEAN] /\ bias' \in [Paths -> BOOLEAN]
  <2>1. Enabled \in BOOLEAN
    BY DEF Enabled, High
  <2> HIDE DEF r
  <2>2. SetBias(r) /\ SetSignalPaths(r)
    BY DEF Prepare, r
  <2> QED
    BY <1>1, <1>2, <2>1, <2>2 DEF SetBias, SetSignalPaths, TypeOK
<1>5. \/ /\ Enabled => mux'[r] = "tia"
         /\ \/ ppc' = "prepare" /\ todo' = Tail(todo) /\ todo' # <<>>
            \/ ppc' = "log" /\ todo' = <<>> /\ ToSet(Tail(todo)) = {}
      \/ ppc' = "closeIntegrators" /\ todo' = todo
  BY <1>1, <1>2, ReadoutsLoop, OnwardFacts, ConfigureFacts DEF Prepare, Inputs
<1>6. todo' \in Seq(Paths) /\ ToSet(todo') \subseteq Paths
  BY <1>1, <1>2, <1>5, ReadoutsLoop
<1>7. UNCHANGED <<dir, latch, pulled, shadow, held, adcs, dacs, missed, taken, gpc, stopped>>
  BY DEF Prepare, chip, lines, analog
<1> HIDE DEF r
<1>8. TypeOK'
  BY <1>1, <1>2, <1>3, <1>4, <1>5, <1>6, <1>7 DEF TypeOK, Inputs, chip
<1>9. Loops'
  BY <1>1, <1>2, <1>3, <1>4, <1>5, <1>6, <1>7, ReadoutsLoop
     DEF Loops, Opening, Constructing, Using, Closing, Idle, chip
<1>10. Holding'
  BY <1>1, <1>2, <1>3, <1>4, <1>5, <1>6, <1>7, ReadoutsLoop
     DEF Loops, TypeOK, Holding, Opening, Constructing, Using, Closing, Idle, chip
<1>11. OnlyOpenIsLive'
  BY <1>1, <1>2, <1>3, <1>4, <1>5, <1>6, <1>7
     DEF IInv, TypeOK, Holding, OnlyOpenIsLive, Opening, Using, chip
<1>12. (ResetStays /\ InputsAreSet /\ SamplesAreOfTheDiode)'
  BY <1>1, <1>2, <1>3, <1>4, <1>5, <1>6, <1>7, ReadoutsLoop
     DEF IInv, TypeOK, ResetStays, InputsAreSet, SamplesAreOfTheDiode, Opening, Using, Enabled,
         High, chip
<1> QED
  BY <1>8, <1>9, <1>10, <1>11, <1>12 DEF IInv

\* OpenLog keeps the invariant.
LEMMA OpenLogKeeps == ASSUME IInv, OpenLog PROVE IInv'
<1>1. TypeOK /\ Loops /\ Holding
  BY DEF IInv
<1>2. faults' \in 0 .. MaxFaults
  BY <1>1, FaultCounts DEF Loops, Opening, OpenLog, chip, lines, analog
<1>3. todo' \in Seq(Paths) /\ ToSet(todo') \subseteq Paths
  BY <1>1, ReadoutsLoop, LoopSteps DEF Loops, TypeOK, OpenLog, chip, lines, analog
<1>4. TypeOK'
  BY <1>1, <1>2, <1>3, LoopSteps DEF Loops, TypeOK, Inputs, Opening, OpenLog, chip, lines, analog
<1>5. Loops'
  BY <1>1, <1>3, ReadoutsLoop, LoopSteps
     DEF Loops, Opening, Constructing, Using, Closing, Idle, OpenLog, chip, lines, analog
<1>6. Holding'
  BY <1>1, ReadoutsLoop, LoopSteps
     DEF Loops, TypeOK, Holding, Opening, Constructing, Using, Closing, Idle, OpenLog, chip,
         lines, analog
<1>7. OnlyOpenIsLive'
  BY <1>1, LoopSteps
     DEF IInv, Loops, TypeOK, Holding, OnlyOpenIsLive, Opening, Using, OpenLog, chip, lines,
         analog
<1>8. (ResetStays /\ InputsAreSet /\ SamplesAreOfTheDiode)'
  BY <1>1, ReadoutsLoop, LoopSteps
     DEF IInv, Loops, TypeOK, ResetStays, InputsAreSet, SamplesAreOfTheDiode, Opening, Using,
         Enabled, High, Inputs, OpenLog, chip, lines, analog
<1> QED
  BY <1>4, <1>5, <1>6, <1>7, <1>8 DEF IInv

\* SetupFails keeps the invariant.
LEMMA SetupFailsKeeps == ASSUME IInv, SetupFails PROVE IInv'
<1>1. TypeOK /\ Loops /\ Holding
  BY DEF IInv
<1>2. /\ ChipFacts /\ ShadowFacts("photodiode") /\ UNCHANGED <<chip, analog>>
      /\ faults' \in 0 .. MaxFaults
  <2>1. CASE Fault /\ UNCHANGED <<chip, shadow, analog>>
    BY <1>1, <2>1, FaultCounts DEF TypeOK, ChipFacts, ShadowFacts, Enabled, High, chip, analog
  <2>2. CASE SetOutputFails("photodiode", "pdReset")
    BY <1>1, <2>2, WriteFailsFacts DEF Tasks, Pins
  <2>3. CASE SetOutputFails("photodiode", "integrators")
    BY <1>1, <2>3, WriteFailsFacts DEF Tasks, Pins
  <2>4. CASE SetPinFails("photodiode", "integrators", FALSE)
    BY <1>1, <2>4, WriteFailsFacts DEF Tasks, Pins
  <2>5. CASE SetPinFails("photodiode", "pdReset", TRUE)
    BY <1>1, <2>5, WriteFailsFacts DEF Tasks, Pins
  <2> QED
    BY <2>1, <2>2, <2>3, <2>4, <2>5 DEF SetupFails
<1>3. /\ UNCHANGED <<todo, held, adcs, dacs, gpc, stopped>> /\ ppc' = CloseFrom
      /\ ppc \in {"hold", "dir", "gpio", "outReset", "outIntegrators", "reset", "enable",
                  "verify", "adc", "log"}
  BY DEF SetupFails, Raise, lines
<1>4. TypeOK'
  BY <1>1, <1>2, <1>3 DEF TypeOK, ChipFacts, ShadowFacts, chip
<1>5. (Loops /\ Holding)'
  BY <1>1, <1>3
     DEF Loops, Holding, CloseFrom, Opening, Constructing, Using, Closing, Idle
<1>6. (OnlyOpenIsLive /\ SamplesAreOfTheDiode)'
  BY <1>2, <1>3 DEF IInv, OnlyOpenIsLive, SamplesAreOfTheDiode, analog
<1>7. (ResetStays /\ InputsAreSet)'
  <2>1. Enabled' = Enabled /\ dir' = dir /\ shadow'["gps"] = shadow["gps"]
    BY <1>2 DEF ShadowFacts, Tasks, Enabled, High, chip
  <2>2. ppc' \in {"closeIo", "closeIntegrators"}
    BY <1>3 DEF CloseFrom
  <2> QED
    BY <1>3, <2>1, <2>2 DEF IInv, ResetStays, InputsAreSet, Opening, Using
<1> QED
  BY <1>4, <1>5, <1>6, <1>7 DEF IInv

-----------------------------------------------------------------------------
(* The loop and the way down                                                 *)

\* Convert keeps the invariant.
LEMMA ConvertKeeps == ASSUME IInv, Convert PROVE IInv'
<1> DEFINE r == Head(todo)
<1>1. TypeOK /\ Loops /\ Holding /\ ppc = "sample" /\ todo \in Seq(Paths) /\ todo # <<>>
  BY DEF IInv, Loops, Opening, Convert
<1>2. /\ r \in Paths /\ Tail(todo) \in Seq(Paths)
      /\ ToSet(todo) = {r} \cup ToSet(Tail(todo)) /\ ToSet(todo) \subseteq Paths
      /\ IsInjective(todo) => IsInjective(Tail(todo)) /\ r \notin ToSet(Tail(todo))
  BY <1>1, LoopSteps, ReadoutsLoop
<1>3. /\ faults' \in 0 .. MaxFaults
      /\ \/ Enabled /\ taken' = [taken EXCEPT ![r] = mux[r]]
         \/ taken' = [taken EXCEPT ![r] = "none"]
  BY <1>1, FaultCounts DEF Convert, Arrives, Lost
<1>4. /\ todo' \in Seq(Paths) /\ ToSet(todo') \subseteq Paths
      /\ \/ ppc' = "sample" /\ todo' = Tail(todo) /\ todo' # <<>>
         \/ ppc' = "record" /\ todo' = <<>> /\ ToSet(Tail(todo)) = {}
  BY <1>1, ReadoutsLoop, OnwardFacts DEF Convert
<1>5. UNCHANGED <<dir, latch, pulled, shadow, held, adcs, dacs, mux, relay, bias, missed, gpc,
                  stopped>>
  BY DEF Convert, chip, lines, analog
<1> HIDE DEF r
<1>6. TypeOK'
  BY <1>1, <1>2, <1>3, <1>4, <1>5 DEF TypeOK, Inputs, chip
<1>7. Loops'
  BY <1>1, <1>2, <1>3, <1>4, <1>5, ReadoutsLoop
     DEF Loops, Opening, Constructing, Using, Closing, Idle, chip
<1>8. Holding'
  BY <1>1, <1>2, <1>3, <1>4, <1>5, ReadoutsLoop
     DEF Loops, TypeOK, Holding, Opening, Constructing, Using, Closing, Idle, chip
<1>9. OnlyOpenIsLive'
  BY <1>1, <1>2, <1>3, <1>4, <1>5 DEF IInv, TypeOK, Holding, OnlyOpenIsLive, Opening, Using, chip
<1>10. (ResetStays /\ InputsAreSet /\ SamplesAreOfTheDiode)'
  BY <1>1, <1>2, <1>3, <1>4, <1>5, ReadoutsLoop
     DEF IInv, TypeOK, ResetStays, InputsAreSet, SamplesAreOfTheDiode, Opening, Using, Enabled,
         High, chip
<1> QED
  BY <1>6, <1>7, <1>8, <1>9, <1>10 DEF IInv

\* Record keeps the invariant.
LEMMA RecordKeeps == ASSUME IInv, Record PROVE IInv'
<1>1. TypeOK /\ Loops /\ Holding
  BY DEF IInv
<1>2. faults' \in 0 .. MaxFaults
  BY <1>1, FaultCounts DEF Loops, Opening, Record, Fault, chip, lines, analog
<1>3. todo' \in Seq(Paths) /\ ToSet(todo') \subseteq Paths
  BY <1>1, ReadoutsLoop, LoopSteps DEF Loops, TypeOK, Record, Fault, chip, lines, analog
<1>4. TypeOK'
  BY <1>1, <1>2, <1>3, LoopSteps
     DEF Loops, TypeOK, Inputs, Opening, Record, Fault, chip, lines, analog
<1>5. Loops'
  BY <1>1, <1>3, ReadoutsLoop, LoopSteps
     DEF Loops, Opening, Constructing, Using, Closing, Idle, Record, Fault, chip, lines, analog
<1>6. Holding'
  BY <1>1, ReadoutsLoop, LoopSteps
     DEF Loops, TypeOK, Holding, Opening, Constructing, Using, Closing, Idle, Record, Fault, chip,
         lines, analog
<1>7. OnlyOpenIsLive'
  BY <1>1, LoopSteps
     DEF IInv, Loops, TypeOK, Holding, OnlyOpenIsLive, Opening, Using, Record, Fault, chip, lines,
         analog
<1>8. (ResetStays /\ InputsAreSet /\ SamplesAreOfTheDiode)'
  BY <1>1, ReadoutsLoop, LoopSteps
     DEF IInv, Loops, TypeOK, ResetStays, InputsAreSet, SamplesAreOfTheDiode, Opening, Using,
         Enabled, High, Inputs, Record, Fault, chip, lines, analog
<1> QED
  BY <1>4, <1>5, <1>6, <1>7, <1>8 DEF IInv

\* ReadThermistor keeps the invariant.
LEMMA ReadThermistorKeeps == ASSUME IInv, ReadThermistor PROVE IInv'
<1> DEFINE r == Head(todo)
<1>1. TypeOK /\ Loops /\ Holding /\ ppc = "temperatures" /\ todo \in Seq(Paths) /\ todo # <<>>
  BY DEF IInv, Loops, Opening, ReadThermistor
<1>2. /\ r \in Paths /\ Tail(todo) \in Seq(Paths)
      /\ ToSet(todo) = {r} \cup ToSet(Tail(todo)) /\ ToSet(todo) \subseteq Paths
      /\ IsInjective(todo) => IsInjective(Tail(todo)) /\ r \notin ToSet(Tail(todo))
  BY <1>1, LoopSteps, ReadoutsLoop
<1>3. /\ mux' \in [Paths -> Inputs] /\ faults' \in 0 .. MaxFaults
      /\ \A q \in Paths \ {r} : mux'[q] = mux[q]
  BY <1>1, <1>2, ConfigureFacts, FaultCounts DEF ReadThermistor, Inputs, ConfigureFails, Fault
<1>4. /\ todo' \in Seq(Paths) /\ ToSet(todo') \subseteq Paths
      /\ \/ ppc' = "temperatures" /\ todo' = Tail(todo) /\ todo' # <<>>
         \/ ppc' = "restore" /\ todo' = Readouts /\ ToSet(Tail(todo)) = {}
  BY <1>1, ReadoutsLoop, OnwardFacts DEF ReadThermistor
<1>5. UNCHANGED <<dir, latch, pulled, shadow, held, adcs, dacs, relay, bias, missed, taken, gpc,
                  stopped>>
  BY DEF ReadThermistor, chip, lines, analog
<1> HIDE DEF r
<1>6. TypeOK'
  BY <1>1, <1>2, <1>3, <1>4, <1>5 DEF TypeOK, Inputs, chip
<1>7. Loops'
  BY <1>1, <1>2, <1>3, <1>4, <1>5, ReadoutsLoop
     DEF Loops, Opening, Constructing, Using, Closing, Idle, chip
<1>8. Holding'
  BY <1>1, <1>2, <1>3, <1>4, <1>5, ReadoutsLoop
     DEF Loops, TypeOK, Holding, Opening, Constructing, Using, Closing, Idle, chip
<1>9. OnlyOpenIsLive'
  BY <1>1, <1>2, <1>3, <1>4, <1>5 DEF IInv, TypeOK, Holding, OnlyOpenIsLive, Opening, Using, chip
<1>10. (ResetStays /\ InputsAreSet /\ SamplesAreOfTheDiode)'
  BY <1>1, <1>2, <1>3, <1>4, <1>5, ReadoutsLoop
     DEF IInv, TypeOK, ResetStays, InputsAreSet, SamplesAreOfTheDiode, Opening, Using, Enabled,
         High, chip
<1> QED
  BY <1>6, <1>7, <1>8, <1>9, <1>10 DEF IInv

\* RestoreInput keeps the invariant.
LEMMA RestoreInputKeeps == ASSUME IInv, RestoreInput PROVE IInv'
<1> DEFINE r == Head(todo)
<1>1. TypeOK /\ Loops /\ Holding /\ ppc = "restore" /\ todo \in Seq(Paths) /\ todo # <<>>
  BY DEF IInv, Loops, Opening, RestoreInput
<1>2. /\ r \in Paths /\ Tail(todo) \in Seq(Paths)
      /\ ToSet(todo) = {r} \cup ToSet(Tail(todo)) /\ ToSet(todo) \subseteq Paths
      /\ IsInjective(todo) => IsInjective(Tail(todo)) /\ r \notin ToSet(Tail(todo))
  BY <1>1, LoopSteps, ReadoutsLoop
<1>3. /\ mux' \in [Paths -> Inputs] /\ faults' \in 0 .. MaxFaults
      /\ \A q \in Paths \ {r} : mux'[q] = mux[q]
  BY <1>1, <1>2, ConfigureFacts, FaultCounts DEF RestoreInput, Inputs, ConfigureFails, Fault
<1>4. \/ /\ Enabled => mux'[r] = "tia"
         /\ \/ ppc' = "restore" /\ todo' = Tail(todo) /\ todo' # <<>>
            \/ ppc' = "sample" /\ todo' = Readouts /\ ToSet(Tail(todo)) = {}
      \/ ppc' = "closeIntegrators" /\ todo' = todo
  BY <1>1, <1>2, ReadoutsLoop, OnwardFacts, ConfigureFacts DEF RestoreInput, RestoreFailed, Inputs
<1>5. todo' \in Seq(Paths) /\ ToSet(todo') \subseteq Paths
  BY <1>1, <1>2, <1>4, ReadoutsLoop
<1>6. UNCHANGED <<dir, latch, pulled, shadow, held, adcs, dacs, relay, bias, missed, taken, gpc,
                  stopped>>
  BY DEF RestoreInput, chip, lines, analog
<1> HIDE DEF r
<1>7. TypeOK'
  BY <1>1, <1>2, <1>3, <1>4, <1>5, <1>6 DEF TypeOK, Inputs, chip
<1>8. Loops'
  BY <1>1, <1>2, <1>3, <1>4, <1>5, <1>6, ReadoutsLoop
     DEF Loops, Opening, Constructing, Using, Closing, Idle, chip
<1>9. Holding'
  BY <1>1, <1>2, <1>3, <1>4, <1>5, <1>6, ReadoutsLoop
     DEF Loops, TypeOK, Holding, Opening, Constructing, Using, Closing, Idle, chip
<1>10. OnlyOpenIsLive'
  BY <1>1, <1>2, <1>3, <1>4, <1>5, <1>6
     DEF IInv, TypeOK, Holding, OnlyOpenIsLive, Opening, Using, chip
<1>11. (ResetStays /\ InputsAreSet /\ SamplesAreOfTheDiode)'
  BY <1>1, <1>2, <1>3, <1>4, <1>5, <1>6, ReadoutsLoop
     DEF IInv, TypeOK, ResetStays, InputsAreSet, SamplesAreOfTheDiode, Opening, Using, Enabled,
         High, chip
<1> QED
  BY <1>7, <1>8, <1>9, <1>10, <1>11 DEF IInv

\* StopPhotodiode keeps the invariant.
LEMMA StopPhotodiodeKeeps == ASSUME IInv, StopPhotodiode PROVE IInv'
<1>1. TypeOK /\ Loops /\ Holding
  BY DEF IInv
<1>2. faults' \in 0 .. MaxFaults
  BY <1>1, FaultCounts DEF Loops, Opening, StopPhotodiode, chip, lines, analog
<1>3. todo' \in Seq(Paths) /\ ToSet(todo') \subseteq Paths
  BY <1>1, ReadoutsLoop, LoopSteps DEF Loops, TypeOK, StopPhotodiode, chip, lines, analog
<1>4. TypeOK'
  BY <1>1, <1>2, <1>3, LoopSteps
     DEF Loops, TypeOK, Inputs, Opening, StopPhotodiode, chip, lines, analog
<1>5. Loops'
  BY <1>1, <1>3, ReadoutsLoop, LoopSteps
     DEF Loops, Opening, Constructing, Using, Closing, Idle, StopPhotodiode, chip, lines, analog
<1>6. Holding'
  BY <1>1, ReadoutsLoop, LoopSteps
     DEF Loops, TypeOK, Holding, Opening, Constructing, Using, Closing, Idle, StopPhotodiode,
         chip, lines, analog
<1>7. OnlyOpenIsLive'
  BY <1>1, LoopSteps
     DEF IInv, Loops, TypeOK, Holding, OnlyOpenIsLive, Opening, Using, StopPhotodiode, chip,
         lines, analog
<1>8. (ResetStays /\ InputsAreSet /\ SamplesAreOfTheDiode)'
  BY <1>1, ReadoutsLoop, LoopSteps
     DEF IInv, Loops, TypeOK, ResetStays, InputsAreSet, SamplesAreOfTheDiode, Opening, Using,
         Enabled, High, Inputs, StopPhotodiode, chip, lines, analog
<1> QED
  BY <1>4, <1>5, <1>6, <1>7, <1>8 DEF IInv

\* CloseReadout keeps the invariant.
LEMMA CloseReadoutKeeps == ASSUME IInv, CloseReadout PROVE IInv'
<1>1. TypeOK /\ Loops /\ Holding /\ ppc = "closeReadout" /\ adcs = dacs /\ dacs \subseteq Paths
  BY DEF IInv, Holding, TypeOK, Closing, CloseReadout
<1>2. UNCHANGED <<dir, latch, pulled, shadow, todo, held, gpc, stopped>>
  BY DEF CloseReadout, chip
<1>3. ASSUME {i \in DOMAIN Readouts : Readouts[i] \in adcs \cap dacs} = {},
             ppc' = "closeIo", UNCHANGED <<adcs, dacs, analog, faults>>
      PROVE  IInv'
  <2>1. adcs = {} /\ dacs = {}
    BY <1>1, <1>3 DEF Paths, ToSet
  <2>2. TypeOK'
    BY <1>1, <1>2, <1>3 DEF TypeOK, analog
  <2>3. (Loops /\ Holding)'
    BY <1>1, <1>2, <1>3, <2>1 DEF Loops, Holding, Opening, Constructing, Using, Closing, Idle
  <2>4. (OnlyOpenIsLive /\ ResetStays /\ InputsAreSet /\ SamplesAreOfTheDiode)'
    BY <1>2, <1>3 DEF IInv, OnlyOpenIsLive, ResetStays, InputsAreSet, SamplesAreOfTheDiode, analog,
       Opening, Using
  <2> QED
    BY <2>2, <2>3, <2>4 DEF IInv
<1>4. ASSUME NEW r \in Paths, ToSafe(r), adcs' = adcs \ {r}, dacs' = dacs \ {r}, UNCHANGED ppc
      PROVE  IInv'
  <2>1. /\ relay' \in [Paths -> BOOLEAN] /\ bias' \in [Paths -> BOOLEAN]
        /\ missed' \subseteq Paths /\ mux' = mux /\ taken' = taken /\ faults' \in 0 .. MaxFaults
        /\ r \in missed' \/ (~relay'[r] /\ ~bias'[r])
        /\ \A q \in Paths \ {r} :
             relay'[q] = relay[q] /\ bias'[q] = bias[q] /\ (q \in missed' <=> q \in missed)
    BY <1>1, <1>4, ToSafeFacts
  <2>2. TypeOK'
    BY <1>1, <1>2, <1>4, <2>1 DEF TypeOK
  <2>3. (Loops /\ Holding)'
    BY <1>1, <1>2, <1>4 DEF Loops, Holding, Opening, Constructing, Using, Closing, Idle
  <2>4. OnlyOpenIsLive'
    BY <1>4, <2>1 DEF IInv, OnlyOpenIsLive
  <2>5. (ResetStays /\ InputsAreSet /\ SamplesAreOfTheDiode)'
    BY <1>1, <1>2, <1>4, <2>1
       DEF IInv, ResetStays, InputsAreSet, SamplesAreOfTheDiode, Opening, Using
  <2> QED
    BY <2>2, <2>3, <2>4, <2>5 DEF IInv
<1>5. \A i \in DOMAIN Readouts : Readouts[i] \in Paths
  BY DEF Paths, ToSet
<1> QED
  BY <1>3, <1>4, <1>5 DEF CloseReadout

\* CloseIo keeps the invariant.
LEMMA CloseIoKeeps == ASSUME IInv, CloseIo PROVE IInv'
<1>1. TypeOK /\ Loops /\ Holding
  BY DEF IInv
<1>2. faults' \in 0 .. MaxFaults
  BY <1>1, FaultCounts DEF Loops, Opening, CloseIo, chip, lines, analog
<1>3. todo' \in Seq(Paths) /\ ToSet(todo') \subseteq Paths
  BY <1>1, ReadoutsLoop, LoopSteps DEF Loops, TypeOK, CloseIo, chip, lines, analog
<1>4. TypeOK'
  BY <1>1, <1>2, <1>3, LoopSteps DEF Loops, TypeOK, Inputs, Opening, CloseIo, chip, lines, analog
<1>5. Loops'
  BY <1>1, <1>3, ReadoutsLoop, LoopSteps
     DEF Loops, Opening, Constructing, Using, Closing, Idle, CloseIo, chip, lines, analog
<1>6. Holding'
  BY <1>1, ReadoutsLoop, LoopSteps
     DEF Loops, TypeOK, Holding, Opening, Constructing, Using, Closing, Idle, CloseIo, chip,
         lines, analog
<1>7. OnlyOpenIsLive'
  BY <1>1, LoopSteps
     DEF IInv, Loops, TypeOK, Holding, OnlyOpenIsLive, Opening, Using, CloseIo, chip, lines,
         analog
<1>8. (ResetStays /\ InputsAreSet /\ SamplesAreOfTheDiode)'
  BY <1>1, ReadoutsLoop, LoopSteps
     DEF IInv, Loops, TypeOK, ResetStays, InputsAreSet, SamplesAreOfTheDiode, Opening, Using,
         Enabled, High, Inputs, CloseIo, chip, lines, analog
<1> QED
  BY <1>4, <1>5, <1>6, <1>7, <1>8 DEF IInv

\* Restart keeps the invariant.
LEMMA RestartKeeps == ASSUME IInv, Restart PROVE IInv'
<1>1. TypeOK /\ Loops /\ Holding
  BY DEF IInv
<1>2. faults' \in 0 .. MaxFaults
  BY <1>1, FaultCounts DEF Loops, Opening, Restart, chip, lines, analog
<1>3. todo' \in Seq(Paths) /\ ToSet(todo') \subseteq Paths
  BY <1>1, ReadoutsLoop, LoopSteps DEF Loops, TypeOK, Restart, chip, lines, analog
<1>4. TypeOK'
  BY <1>1, <1>2, <1>3, LoopSteps DEF Loops, TypeOK, Inputs, Opening, Restart, chip, lines, analog
<1>5. Loops'
  BY <1>1, <1>3, ReadoutsLoop, LoopSteps
     DEF Loops, Opening, Constructing, Using, Closing, Idle, Restart, chip, lines, analog
<1>6. Holding'
  BY <1>1, ReadoutsLoop, LoopSteps
     DEF Loops, TypeOK, Holding, Opening, Constructing, Using, Closing, Idle, Restart, chip,
         lines, analog
<1>7. OnlyOpenIsLive'
  BY <1>1, LoopSteps
     DEF IInv, Loops, TypeOK, Holding, OnlyOpenIsLive, Opening, Using, Restart, chip, lines,
         analog
<1>8. (ResetStays /\ InputsAreSet /\ SamplesAreOfTheDiode)'
  BY <1>1, ReadoutsLoop, LoopSteps
     DEF IInv, Loops, TypeOK, ResetStays, InputsAreSet, SamplesAreOfTheDiode, Opening, Using,
         Enabled, High, Inputs, Restart, chip, lines, analog
<1> QED
  BY <1>4, <1>5, <1>6, <1>7, <1>8 DEF IInv

\* Stop keeps the invariant.
LEMMA StopKeeps == ASSUME IInv, NEW t \in Tasks, Stop(t) PROVE IInv'
<1>1. TypeOK /\ Loops /\ Holding
  BY DEF IInv
<1>2. faults' \in 0 .. MaxFaults
  BY <1>1, FaultCounts DEF Loops, Opening, Stop, chip, lines, analog
<1>3. todo' \in Seq(Paths) /\ ToSet(todo') \subseteq Paths
  BY <1>1, ReadoutsLoop, LoopSteps DEF Loops, TypeOK, Stop, chip, lines, analog
<1>4. TypeOK'
  BY <1>1, <1>2, <1>3, LoopSteps DEF Loops, TypeOK, Inputs, Opening, Stop, chip, lines, analog
<1>5. Loops'
  BY <1>1, <1>3, ReadoutsLoop, LoopSteps
     DEF Loops, Opening, Constructing, Using, Closing, Idle, Stop, chip, lines, analog
<1>6. Holding'
  BY <1>1, ReadoutsLoop, LoopSteps
     DEF Loops, TypeOK, Holding, Opening, Constructing, Using, Closing, Idle, Stop, chip, lines,
         analog
<1>7. OnlyOpenIsLive'
  BY <1>1, LoopSteps
     DEF IInv, Loops, TypeOK, Holding, OnlyOpenIsLive, Opening, Using, Stop, chip, lines, analog
<1>8. (ResetStays /\ InputsAreSet /\ SamplesAreOfTheDiode)'
  BY <1>1, ReadoutsLoop, LoopSteps
     DEF IInv, Loops, TypeOK, ResetStays, InputsAreSet, SamplesAreOfTheDiode, Opening, Using,
         Enabled, High, Inputs, Stop, chip, lines, analog
<1> QED
  BY <1>4, <1>5, <1>6, <1>7, <1>8 DEF IInv

\* Stutter keeps the invariant.
LEMMA StutterKeeps == ASSUME IInv, UNCHANGED vars PROVE IInv'
<1>1. TypeOK /\ Loops /\ Holding
  BY DEF IInv
<1>2. faults' \in 0 .. MaxFaults
  BY <1>1, FaultCounts DEF Loops, Opening, vars, chip, lines, analog
<1>3. todo' \in Seq(Paths) /\ ToSet(todo') \subseteq Paths
  BY <1>1, ReadoutsLoop, LoopSteps DEF Loops, TypeOK, vars, chip, lines, analog
<1>4. TypeOK'
  BY <1>1, <1>2, <1>3, LoopSteps DEF Loops, TypeOK, Inputs, Opening, vars, chip, lines, analog
<1>5. Loops'
  BY <1>1, <1>3, ReadoutsLoop, LoopSteps
     DEF Loops, Opening, Constructing, Using, Closing, Idle, vars, chip, lines, analog
<1>6. Holding'
  BY <1>1, ReadoutsLoop, LoopSteps
     DEF Loops, TypeOK, Holding, Opening, Constructing, Using, Closing, Idle, vars, chip, lines,
         analog
<1>7. OnlyOpenIsLive'
  BY <1>1, LoopSteps
     DEF IInv, Loops, TypeOK, Holding, OnlyOpenIsLive, Opening, Using, vars, chip, lines, analog
<1>8. (ResetStays /\ InputsAreSet /\ SamplesAreOfTheDiode)'
  BY <1>1, ReadoutsLoop, LoopSteps
     DEF IInv, Loops, TypeOK, ResetStays, InputsAreSet, SamplesAreOfTheDiode, Opening, Using,
         Enabled, High, Inputs, vars, chip, lines, analog
<1> QED
  BY <1>4, <1>5, <1>6, <1>7, <1>8 DEF IInv

\* A write of the photodiode task while no ADC is in use.
LEMMA OpenIntegratorsKeeps == ASSUME IInv, OpenIntegrators PROVE IInv'
<1>1. TypeOK /\ Loops /\ Holding
  BY DEF IInv
<1>2. /\ UNCHANGED <<todo, held, adcs, dacs, gpc, stopped, faults>>
      /\ \/ ppc = "outReset" /\ ppc' = "outIntegrators"
         \/ ppc = "outIntegrators" /\ ppc' = "reset"
         \/ ppc = "reset" /\ ppc' = "enable"
         \/ ppc = "enable" /\ ppc' = "verify"
  BY DEF OpenIntegrators, Bus, lines
<1> DEFINE Written ==
       /\ ChipFacts /\ ShadowFacts("photodiode") /\ dir' \subseteq Pins /\ latch' \subseteq Pins
       /\ (ppc' = "outIntegrators") => ("pdReset" \in shadow'["photodiode"].dir)
       /\ ("pdReset" \in dir) => ("pdReset" \in dir')
<1>3. Written
  <2>1. CASE SetOutput("photodiode", "pdReset")
    BY <1>1, <2>1, SetOutputFacts DEF TypeOK, Tasks, Pins
  <2>2. CASE ppc = "outIntegrators" /\ ppc' = "reset" /\ SetOutput("photodiode", "integrators")
    <3>1. "pdReset" \in shadow["photodiode"].dir
      BY <2>2 DEF IInv, ResetStays
    <3> QED
      BY <1>1, <2>2, <3>1, SetOutputFacts DEF TypeOK, Tasks, Pins
  <2>3. ASSUME NEW pin \in Pins, NEW on, SetPin("photodiode", pin, on), ppc' \in {"enable", "verify"}
        PROVE  Written
    BY <1>1, <2>3, SetPinFacts DEF TypeOK, Tasks
  <2> HIDE DEF Written
  <2> QED
    BY <2>1, <2>2, <2>3 DEF OpenIntegrators, Bus, Pins
<1>4. TypeOK'
  BY <1>1, <1>2, <1>3 DEF TypeOK, ChipFacts, ShadowFacts
<1>5. (Loops /\ Holding)'
  BY <1>1, <1>2 DEF Loops, Holding, Opening, Constructing, Using, Closing, Idle
<1>6. (OnlyOpenIsLive /\ SamplesAreOfTheDiode)'
  BY <1>2, <1>3 DEF IInv, OnlyOpenIsLive, SamplesAreOfTheDiode, ChipFacts
<1>7. (ResetStays /\ InputsAreSet)'
  BY <1>2, <1>3 DEF IInv, ResetStays, InputsAreSet, Opening, Using, ShadowFacts, Tasks
<1> QED
  BY <1>4, <1>5, <1>6, <1>7 DEF IInv

\* CloseIntegrators keeps the invariant.
LEMMA CloseIntegratorsKeeps == ASSUME IInv, CloseIntegrators PROVE IInv'
<1>1. TypeOK /\ Loops /\ Holding /\ ppc = "closeIntegrators"
  BY DEF IInv, CloseIntegrators
<1>2. /\ UNCHANGED <<held, adcs, dacs, gpc, stopped>> /\ ppc' = "closeReadout" /\ todo' = <<>>
      /\ faults' \in 0 .. MaxFaults
  BY <1>1, FaultCounts DEF CloseIntegrators, SetPinFails, ResetFailed, lines
<1>3. /\ ChipFacts /\ ShadowFacts("photodiode") /\ dir' = dir /\ latch' \subseteq Pins
  <2>1. CASE SetPin("photodiode", "integrators", FALSE)
    BY <1>1, <2>1, SetPinFacts DEF Tasks, Pins
  <2>2. CASE SetPinFails("photodiode", "integrators", FALSE)
    BY <1>1, <2>2, WriteFailsFacts DEF TypeOK, Tasks, Pins, chip
  <2> QED
    BY <2>1, <2>2 DEF CloseIntegrators
<1>4. TypeOK'
  BY <1>1, <1>2, <1>3, ReadoutsLoop DEF TypeOK, ChipFacts, ShadowFacts
<1>5. (Loops /\ Holding)'
  BY <1>1, <1>2, ReadoutsLoop DEF Loops, Holding, Opening, Constructing, Using, Closing, Idle
<1>6. (OnlyOpenIsLive /\ SamplesAreOfTheDiode)'
  BY <1>2, <1>3 DEF IInv, OnlyOpenIsLive, SamplesAreOfTheDiode, ChipFacts
<1>7. (ResetStays /\ InputsAreSet)'
  BY <1>2, <1>3 DEF IInv, ResetStays, InputsAreSet, Opening, Using, ShadowFacts, Tasks
<1> QED
  BY <1>4, <1>5, <1>6, <1>7 DEF IInv

-----------------------------------------------------------------------------
(* GpsTask                                                                   *)

\* What GpsTask leaves alone, and what it may do to the enable line: it raises it only
\* while the ADCs are not in use.
GpsFacts ==
    /\ UNCHANGED <<ppc, todo, held, adcs, dacs, stopped>>
    /\ faults' \in 0 .. MaxFaults
    /\ gpc' \in {"open", "gpio", "out", "run", "off", "down", "end"}
    /\ ChipFacts /\ ShadowFacts("gps") /\ dir' \subseteq Pins /\ latch' \subseteq Pins
    /\ ppc \in Opening \cup Using /\ Enabled' => Enabled

\* A step of GpsTask is judged by what it does to the registers.
LEMMA GpsFactsSuffice == ASSUME IInv, GpsFacts, ResetStays' PROVE IInv'
<1>1. TypeOK'
  BY DEF IInv, TypeOK, GpsFacts, ChipFacts, ShadowFacts
<1>2. (Loops /\ Holding)'
  BY DEF IInv, Loops, Holding, GpsFacts
<1>3. (OnlyOpenIsLive /\ SamplesAreOfTheDiode)'
  BY DEF IInv, OnlyOpenIsLive, SamplesAreOfTheDiode, GpsFacts, ChipFacts
<1>4. InputsAreSet'
  BY DEF IInv, InputsAreSet, GpsFacts, ChipFacts, Opening, Using
<1> QED
  BY <1>1, <1>2, <1>3, <1>4 DEF IInv

\* The direction register read by the constructor of GpsTask.
LEMMA GpsReadDirKeeps ==
    ASSUME IInv, ReadDir("gps"), gpc' = "gpio", UNCHANGED <<ppc, todo, lines, stopped, faults>>
    PROVE  IInv'
<1>1. TypeOK
  BY DEF IInv
<1>2. UNCHANGED <<dir, latch, pulled, mux, relay, bias, missed, taken>>
  BY DEF ReadDir, chip, analog
<1>3. Enabled' = Enabled /\ ChipFacts
  BY <1>1, <1>2 DEF TypeOK, ChipFacts, Enabled, High
<1>4. ShadowFacts("gps") /\ shadow'["gps"].dir = dir /\ shadow'["gps"].gpio = {}
  BY <1>1, ShadowType DEF ReadDir, ShadowFacts, TypeOK, Tasks
<1>5. GpsFacts
  BY <1>1, <1>2, <1>3, <1>4 DEF GpsFacts, lines, TypeOK
<1>6. ResetStays'
  BY <1>2, <1>3, <1>4 DEF IInv, ResetStays, ShadowFacts, Tasks
<1> QED
  BY <1>5, <1>6, GpsFactsSuffice

\* GpsReadGpio keeps the invariant.
LEMMA GpsReadGpioKeeps ==
    ASSUME IInv, gpc = "gpio", ReadGpio("gps"), gpc' = "out",
           UNCHANGED <<ppc, todo, lines, stopped, faults>>
    PROVE  IInv'
<1>1. TypeOK
  BY DEF IInv
<1>2. UNCHANGED <<dir, latch, pulled, mux, relay, bias, missed, taken>>
  BY DEF ReadGpio, chip, analog
<1>3. Enabled' = Enabled /\ ChipFacts
  BY <1>1, <1>2 DEF TypeOK, ChipFacts, Enabled, High
<1>4. /\ ShadowFacts("gps") /\ shadow'["gps"].dir = shadow["gps"].dir
      /\ shadow'["gps"].gpio = {p \in Pins : High(p)}
  <2>1. shadow["gps"].dir \in SUBSET Pins
    BY <1>1 DEF TypeOK, Tasks
  <2> QED
    BY <1>1, <2>1, ShadowType DEF ReadGpio, ShadowFacts, Tasks
<1>5. GpsFacts
  BY <1>1, <1>2, <1>3, <1>4 DEF GpsFacts, lines, TypeOK
<1>6. "pdReset" \in shadow'["gps"].gpio <=> Enabled
  BY <1>4 DEF Enabled, Pins
<1>7. ResetStays'
  BY <1>2, <1>3, <1>4, <1>6 DEF IInv, ResetStays, ShadowFacts, Tasks
<1> QED
  BY <1>5, <1>7, GpsFactsSuffice

\* A write of the LED as an output, from what GpsTask has read of the directions.
LEMMA GpsOutputKeeps ==
    ASSUME IInv, gpc = "out", SetOutput("gps", "led"), gpc' = "run",
           UNCHANGED <<ppc, todo, lines, stopped, faults>>
    PROVE  IInv'
<1>1. TypeOK
  BY DEF IInv
<1>2. /\ ChipFacts /\ ShadowFacts("gps")
      /\ dir' = shadow["gps"].dir \cup {"led"} /\ latch' = latch
      /\ shadow'["gps"].dir = dir' /\ shadow'["gps"].gpio = shadow["gps"].gpio
      /\ Enabled' <=> IF "pdReset" \in dir' THEN "pdReset" \in latch ELSE "pdReset" \in pulled
  BY <1>1, SetOutputFacts DEF Tasks, Pins
<1>3. Enabled <=> IF "pdReset" \in dir THEN "pdReset" \in latch ELSE "pdReset" \in pulled
  BY DEF Enabled, High
<1>4. "pdReset" \in dir' => "pdReset" \in dir
  BY <1>2 DEF IInv, ResetStays
<1>5. ppc \in Opening \cup Using /\ Enabled' => Enabled
  BY <1>2, <1>3, <1>4 DEF IInv, ResetStays
<1>6. GpsFacts
  BY <1>1, <1>2, <1>5 DEF GpsFacts, lines, TypeOK, Tasks, Pins
<1>7. ResetStays'
  <2>1. ppc \in Opening \cup Using /\ ~Enabled' /\ "pdReset" \in dir' => "pdReset" \notin shadow["gps"].gpio
    BY <1>2, <1>3, <1>4 DEF IInv, ResetStays
  <2> QED
    BY <1>2, <2>1 DEF IInv, ResetStays, ShadowFacts, Tasks
<1> QED
  BY <1>6, <1>7, GpsFactsSuffice

\* A write of the LED, from what it has read of the pins.
LEMMA GpsPinKeeps ==
    ASSUME IInv, gpc \in {"run", "off"}, NEW on, SetPin("gps", "led", on),
           gpc' \in {"run", "down"}, UNCHANGED <<ppc, todo, lines, stopped, faults>>
    PROVE  IInv'
<1>1. TypeOK
  BY DEF IInv
<1>2. /\ ChipFacts /\ ShadowFacts("gps") /\ dir' = dir /\ latch' \in SUBSET Pins
      /\ "pdReset" \in latch' <=> "pdReset" \in shadow["gps"].gpio
      /\ shadow'["gps"].dir = shadow["gps"].dir /\ shadow'["gps"].gpio = latch'
      /\ Enabled' <=> IF "pdReset" \in dir THEN "pdReset" \in latch' ELSE "pdReset" \in pulled
  BY <1>1, SetPinFacts DEF Tasks, Pins
<1>3. Enabled <=> IF "pdReset" \in dir THEN "pdReset" \in latch ELSE "pdReset" \in pulled
  BY DEF Enabled, High
<1>4. ppc \in Opening \cup Using /\ Enabled' => Enabled
  BY <1>2, <1>3 DEF IInv, ResetStays
<1>5. GpsFacts
  BY <1>1, <1>2, <1>4 DEF GpsFacts, lines, TypeOK
<1>6. ResetStays'
  BY <1>2 DEF IInv, ResetStays, ShadowFacts, Tasks
<1> QED
  BY <1>5, <1>6, GpsFactsSuffice

\* GpsIdle keeps the invariant.
LEMMA GpsIdleKeeps ==
    ASSUME IInv, gpc' \in {"open", "off", "down", "end"}, gpc' = "off" => gpc = "run",
           Fault \/ UNCHANGED faults, UNCHANGED <<chip, shadow, analog, ppc, todo, lines, stopped>>
    PROVE  IInv'
<1>1. TypeOK /\ faults' \in 0 .. MaxFaults
  BY FaultCounts DEF IInv
<1>2. Enabled' = Enabled /\ ChipFacts
  BY <1>1 DEF TypeOK, ChipFacts, Enabled, High, chip, analog
<1>3. GpsFacts
  BY <1>1, <1>2 DEF GpsFacts, ShadowFacts, TypeOK, chip, lines
<1>4. ResetStays'
  BY <1>2 DEF IInv, ResetStays, chip
<1> QED
  BY <1>3, <1>4, GpsFactsSuffice

\* A write of the LED that fails.
LEMMA GpsFailsKeeps ==
    ASSUME IInv, NEW on, SetOutputFails("gps", "led") \/ SetPinFails("gps", "led", on),
           gpc' \in {"off", "down"}, gpc' = "off" => gpc = "run", UNCHANGED <<ppc, todo, lines, stopped>>
    PROVE  IInv'
<1>1. TypeOK
  BY DEF IInv
<1>2. /\ ChipFacts /\ ShadowFacts("gps") /\ UNCHANGED <<chip, analog>> /\ faults' \in 0 .. MaxFaults
      /\ "pdReset" \in shadow'["gps"].gpio <=> "pdReset" \in shadow["gps"].gpio
  BY <1>1, WriteFailsFacts DEF Tasks, Pins
<1>3. Enabled' = Enabled
  BY <1>2 DEF Enabled, High, chip
<1>4. GpsFacts
  BY <1>1, <1>2, <1>3 DEF GpsFacts, TypeOK, chip, lines
<1>5. ResetStays'
  BY <1>2, <1>3 DEF IInv, ResetStays, ShadowFacts, Tasks, chip
<1> QED
  BY <1>4, <1>5, GpsFactsSuffice

\* GpsThread keeps the invariant.
LEMMA GpsThreadKeeps == ASSUME IInv, GpsThread PROVE IInv'
<1>1. CASE GpsSetup
  BY <1>1, GpsReadDirKeeps, GpsReadGpioKeeps, GpsOutputKeeps DEF GpsSetup, Gps
<1>2. CASE GpsSetupFails
  BY <1>2, GpsIdleKeeps, GpsFailsKeeps DEF GpsSetupFails, Gps
<1>3. CASE ShowFix
  BY <1>3, GpsPinKeeps, GpsFailsKeeps DEF ShowFix, Gps
<1>4. CASE StopGps
  BY <1>4, GpsIdleKeeps DEF StopGps, Gps
<1>5. CASE GpsTeardown
  BY <1>5, GpsPinKeeps, GpsFailsKeeps DEF GpsTeardown, Gps
<1>6. CASE GpsRestart
  BY <1>6, GpsIdleKeeps DEF GpsRestart, Gps
<1> QED
  BY <1>1, <1>2, <1>3, <1>4, <1>5, <1>6 DEF GpsThread

-----------------------------------------------------------------------------
(* The theorems                                                              *)

\* The invariant holds at the start.
LEMMA InitEstablishes == Init => IInv
<1> SUFFICES ASSUME Init PROVE IInv
  OBVIOUS
<1>1. TypeOK
  BY ReadoutsLoop, ConstantsAssumption DEF Init, TypeOK, Inputs, Pins
<1>2. Loops /\ Holding
  BY ReadoutsLoop DEF Init, Loops, Holding, Opening, Constructing, Using, Closing, Idle
<1>3. OnlyOpenIsLive /\ ResetStays /\ InputsAreSet /\ SamplesAreOfTheDiode
  BY DEF Init, OnlyOpenIsLive, ResetStays, InputsAreSet, SamplesAreOfTheDiode, Opening, Using
<1> QED
  BY <1>1, <1>2, <1>3 DEF IInv

\* Every step of the specification keeps the invariant.
LEMMA NextPreserves == IInv /\ [Next]_vars => IInv'
<1> SUFFICES ASSUME IInv, [Next]_vars PROVE IInv'
  OBVIOUS
<1>1. CASE Photodiode
  BY <1>1, HoldBackupKeeps, OpenExpanderKeeps, OpenIntegratorsKeeps, VerifyEnabledKeeps,
     OpenAdcKeeps, OpenDacKeeps, OpenDacFailsKeeps, ZeroKeeps, PrepareKeeps, OpenLogKeeps,
     SetupFailsKeeps, ConvertKeeps, RecordKeeps, ReadThermistorKeeps, RestoreInputKeeps,
     StopPhotodiodeKeeps, CloseIntegratorsKeeps, CloseReadoutKeeps, CloseIoKeeps, RestartKeeps
     DEF Photodiode
<1>2. CASE GpsThread
  BY <1>2, GpsThreadKeeps
<1>3. CASE \E t \in Tasks : Stop(t)
  BY <1>3, StopKeeps
<1>4. CASE UNCHANGED vars
  BY <1>4, StutterKeeps
<1> QED
  BY <1>1, <1>2, <1>3, <1>4 DEF Next

\* The inductive invariant holds in every reachable state.
THEOREM Invariance == Spec => []IInv
BY InitEstablishes, NextPreserves, PTL DEF Spec

\* UVICPDRO gives back every line that it claimed, whichever step of its constructor, its
\* use or its close() failed, and never leaves a backup board's chip select floating while
\* a device is open.
THEOREM EveryLineIsReleased == Spec => []LinesAreReleased
<1>1. IInv => LinesAreReleased
  BY DEF IInv, LinesAreReleased, AtRest, Holding, Loops, Opening, Constructing, Using, Closing, Idle
<1> QED
  BY <1>1, Invariance, PTL

\* A board at rest has its relays open and no bias, but for a write that was itself lost.
THEOREM BoardIsSafeAtRest == Spec => []SafeAtRest
<1>1. IInv => SafeAtRest
  BY DEF IInv, SafeAtRest, AtRest, Holding, OnlyOpenIsLive, Idle
<1> QED
  BY <1>1, Invariance, PTL

\* Every code that PhotodiodeTask records was converted from the photodiode, although
\* GpsTask writes stale registers into the expander that holds the reset line of the ADCs.
THEOREM OnlyDiodeIsSampled == Spec => []SamplesAreOfTheDiode
BY Invariance, PTL DEF IInv
=============================================================================
