------------------------------- MODULE MouseInput -------------------------------
(***************************************************************************)
(* hid/sensor.c: the timer interrupt that debounces the mouse buttons in   *)
(* shift registers, and the mouse task that copies mouseClick into its     *)
(* reports.  The interrupt preempts the task between any two accesses to   *)
(* mouseClick and is itself atomic.  Movement is left out.                 *)
(***************************************************************************)
EXTENDS Integers

CONSTANTS
  Buttons,   \* MOUSE_LEFT and MOUSE_RIGHT, bits of a char
  WIDTH      \* the bits of debounceL and debounceR

ASSUME WidthAssumption == WIDTH \in Nat \ {0}

Bits == 1 .. WIDTH    \* bit 1 is the last reading

VARIABLES
  debounce, mousePress, lastMousePress,   \* of the interrupt
  mouseClick,                             \* shared
  self,                                   \* MOUSE_INPUT_SEL_PIN: this board
  rpc, buff,                              \* the task, and its report
  high, due     \* history: readings in a row; clicks not yet in a report

isrVars == <<debounce, mousePress, lastMousePress, high>>
vars == <<isrVars, mouseClick, self, rpc, buff, due>>

TypeOK ==
  /\ debounce \in [Buttons -> [Bits -> BOOLEAN]]
  /\ mousePress \subseteq Buttons /\ lastMousePress \subseteq Buttons
  /\ mouseClick \subseteq Buttons /\ buff \subseteq Buttons /\ due \subseteq Buttons
  /\ self \in BOOLEAN
  /\ rpc \in {"read", "uart", "copy", "clear"}
  /\ high \in [Buttons -> 0 .. WIDTH]

Init ==
  /\ debounce = [b \in Buttons |-> [k \in Bits |-> FALSE]]
  /\ mousePress = {} /\ lastMousePress = {}
  /\ mouseClick = {} /\ buff = {} /\ due = {}
  /\ self \in BOOLEAN
  /\ rpc = "read"
  /\ high = [b \in Buttons |-> 0]

\* Mutated form of Shifted: in a wider type the oldest bit is not lost.
ShiftedWider(reg, pin) ==
  [k \in 1 .. WIDTH + 1 |-> IF k = 1 THEN pin ELSE IF k - 1 \in DOMAIN reg THEN reg[k - 1] ELSE FALSE]

\* debounce << 1 | pin, in a char
Shifted(reg, pin) == [k \in Bits |-> IF k = 1 THEN pin ELSE reg[k - 1]]

\* Mutated form of AllOnes: the oldest reading is not looked at.
AllButOldest(reg) == \A k \in 1 .. WIDTH - 1 : reg[k]

AllOnes(reg) == \A k \in Bits : reg[k]

\* Mutated form of ImuTimerIntHandler: it does not look at lastMousePress.
EveryReadingClicks ==
  /\ self
  /\ \E pin \in [Buttons -> BOOLEAN] :
       /\ debounce' = [b \in Buttons |-> Shifted(debounce[b], pin[b])]
       /\ high' = [b \in Buttons |->
            IF ~pin[b] THEN 0 ELSE IF high[b] < WIDTH THEN high[b] + 1 ELSE WIDTH]
  /\ lastMousePress' = mousePress
  /\ mousePress' = {b \in Buttons : AllOnes(debounce'[b])}
  /\ mouseClick' = mouseClick \cup mousePress'
  /\ due' = due \cup mousePress'
  /\ UNCHANGED <<self, rpc, buff>>

\* ImuTimerIntHandler, every SAMPLE_PERIOD_IN_MS
ImuTimerIntHandler ==
  /\ self
  /\ \E pin \in [Buttons -> BOOLEAN] :
       /\ debounce' = [b \in Buttons |-> Shifted(debounce[b], pin[b])]
       /\ high' = [b \in Buttons |->
            IF ~pin[b] THEN 0 ELSE IF high[b] < WIDTH THEN high[b] + 1 ELSE WIDTH]
  /\ lastMousePress' = mousePress
  /\ mousePress' = {b \in Buttons : AllOnes(debounce'[b])}
  /\ mouseClick' = mouseClick \cup (mousePress' \ lastMousePress')
  /\ due' = due \cup (mousePress' \ lastMousePress')
  /\ UNCHANGED <<self, rpc, buff>>

\* The switch is looked at once: with the other board selected the task waits
\* for what that sends, however long and whatever the switch says meanwhile.
SensorRead ==
  /\ rpc = "read" /\ rpc' = IF self THEN "copy" ELSE "uart"
  /\ UNCHANGED <<isrVars, mouseClick, self, buff, due>>

\* mouseClick = UartGetChar(): over what the interrupt has set in the meantime
UartRead ==
  /\ rpc = "uart" /\ rpc' = "copy"
  /\ mouseClick' \in SUBSET Buttons /\ due' = mouseClick'
  /\ UNCHANGED <<isrVars, self, buff>>

\* sensorToReport: buff[0] = mouseClick ...
CopyClick ==
  /\ rpc = "copy" /\ rpc' = "clear"
  /\ buff' = mouseClick /\ due' = due \ mouseClick
  /\ UNCHANGED <<isrVars, mouseClick, self>>

\* Mutated form of ClearClick: it clears the report only.
ClickKept ==
  /\ rpc = "clear" /\ rpc' = "read"
  /\ buff' = {}
  /\ UNCHANGED <<isrVars, mouseClick, self, due>>

\* ... mouseClick = 0
ClearClick ==
  /\ rpc = "clear" /\ rpc' = "read"
  /\ mouseClick' = {} /\ buff' = {}
  /\ UNCHANGED <<isrVars, self, due>>

TurnSwitch ==
  /\ self' = ~self
  /\ UNCHANGED <<isrVars, mouseClick, rpc, buff, due>>

Next == \/ ImuTimerIntHandler \/ SensorRead \/ UartRead
        \/ CopyClick \/ ClearClick \/ TurnSwitch

Spec == Init /\ [][Next]_vars

-----------------------------------------------------------------------------

\* The registers count: bit k of a register and all newer ones are set just
\* when the button was read high k times in a row, so that the test for 0xff
\* sees a press of WIDTH readings, and only that (sensor.c:249-255).
RegisterCounts ==
  \A b \in Buttons :
    /\ \A k \in Bits : (\A j \in 1 .. k : debounce[b][j]) <=> high[b] >= k
    /\ b \in mousePress <=> high[b] = WIDTH

\* A press makes one click, at the reading that completes it, and none while
\* the button stays down or bounces (sensor.c:229-277); it is lost only to the
\* host taking clicks, or to an answer of the other board that was asked for
\* while that was selected (105, 144).
Deb == INSTANCE Debouncer
         WITH held <- mousePress, clicks <- mouseClick, asked <- (rpc = "uart")
Debounces == Deb!Spec

\* A report has no click the host has had before: outside of sensorToReport
\* whatever is in mouseClick has been in no report (sensor.c:163-181).
NoClickTwice == rpc # "clear" => mouseClick \subseteq due
=============================================================================
