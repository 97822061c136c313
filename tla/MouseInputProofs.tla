---------------------------- MODULE MouseInputProofs ----------------------------
(***************************************************************************)
(* The debouncing of the mouse buttons, for registers of every width and   *)
(* for any set of buttons.  RegisterCounts is inductive with TypeOK: it    *)
(* speaks of every bit, where the code only tests for all of them.         *)
(***************************************************************************)
EXTENDS MouseInput, TLAPS

Inv == TypeOK /\ RegisterCounts

\* After a reading the first k bits are set just when the pin was high and
\* the first k - 1 were set before.
LEMMA ShiftedOnes ==
  ASSUME NEW reg \in [Bits -> BOOLEAN], NEW pin \in BOOLEAN, NEW k \in Bits
  PROVE  /\ Shifted(reg, pin) \in [Bits -> BOOLEAN]
         /\ (\A j \in 1 .. k : Shifted(reg, pin)[j]) <=>
              (pin /\ \A j \in 1 .. k - 1 : reg[j])
<1> USE WidthAssumption DEF Bits, Shifted
<1>1. Shifted(reg, pin) \in [Bits -> BOOLEAN]
  OBVIOUS
<1>2. ASSUME \A j \in 1 .. k : Shifted(reg, pin)[j]
      PROVE  pin /\ \A j \in 1 .. k - 1 : reg[j]
  <2>1. pin
    <3>1. 1 \in 1 .. k /\ 1 \in Bits
      OBVIOUS
    <3>2. Shifted(reg, pin)[1]
      BY <1>2, <3>1
    <3>3. Shifted(reg, pin)[1] = pin
      BY <3>1
    <3> QED BY <3>2, <3>3
  <2>2. ASSUME NEW j \in 1 .. k - 1 PROVE reg[j]
    <3>1. j + 1 \in 1 .. k /\ j + 1 \in Bits /\ j + 1 # 1 /\ (j + 1) - 1 = j
      OBVIOUS
    <3>2. Shifted(reg, pin)[j + 1]
      BY <1>2, <3>1
    <3> QED BY <3>1, <3>2
  <2> QED BY <2>1, <2>2
<1>3. ASSUME pin, \A j \in 1 .. k - 1 : reg[j]
      PROVE  \A j \in 1 .. k : Shifted(reg, pin)[j]
  BY <1>3
<1> QED BY <1>1, <1>2, <1>3

LEMMA InitInv == Init => Inv
BY WidthAssumption DEF Init, Inv, TypeOK, RegisterCounts, Bits

\* The interrupt keeps count and registers together.
LEMMA IsrInv == Inv /\ ImuTimerIntHandler => Inv'
<1> SUFFICES ASSUME Inv, ImuTimerIntHandler PROVE Inv'
  OBVIOUS
<1> USE WidthAssumption DEF Inv
<1>1. PICK pin \in [Buttons -> BOOLEAN] :
        /\ debounce' = [b \in Buttons |-> Shifted(debounce[b], pin[b])]
        /\ high' = [b \in Buttons |->
             IF ~pin[b] THEN 0 ELSE IF high[b] < WIDTH THEN high[b] + 1 ELSE WIDTH]
  BY DEF ImuTimerIntHandler
<1>2. /\ debounce' \in [Buttons -> [Bits -> BOOLEAN]]
      /\ high' \in [Buttons -> 0 .. WIDTH]
  <2>1. \A b \in Buttons : Shifted(debounce[b], pin[b]) \in [Bits -> BOOLEAN]
    BY DEF TypeOK, Shifted, Bits
  <2> QED BY <1>1, <2>1 DEF TypeOK
<1>3. TypeOK'
  BY <1>2 DEF TypeOK, ImuTimerIntHandler
<1>4. ASSUME NEW b \in Buttons, NEW k \in Bits
      PROVE  (\A j \in 1 .. k : debounce'[b][j]) <=> high'[b] >= k
  <2>1. debounce'[b] = Shifted(debounce[b], pin[b])
    BY <1>1
  <2>2. (\A j \in 1 .. k : debounce'[b][j]) <=>
          (pin[b] /\ \A j \in 1 .. k - 1 : debounce[b][j])
    <3>1. debounce[b] \in [Bits -> BOOLEAN] /\ pin[b] \in BOOLEAN
      BY DEF TypeOK
    <3>2. (\A j \in 1 .. k : Shifted(debounce[b], pin[b])[j]) <=>
            (pin[b] /\ \A j \in 1 .. k - 1 : debounce[b][j])
      BY <3>1, ShiftedOnes, Zenon
    <3> QED BY <2>1, <3>2, Zenon
  <2>3. (\A j \in 1 .. k - 1 : debounce[b][j]) <=> high[b] >= k - 1
    <3>1. CASE k = 1
      BY <3>1 DEF TypeOK
    <3>2. CASE k # 1
      <4>1. k - 1 \in Bits
        BY <3>2 DEF Bits
      <4> QED BY <4>1 DEF RegisterCounts
    <3> QED BY <3>1, <3>2
  <2>4. high[b] \in 0 .. WIDTH /\ k \in 1 .. WIDTH
    BY DEF TypeOK, Bits
  <2>5. high'[b] >= k <=> pin[b] /\ high[b] >= k - 1
    BY <1>1, <2>4
  <2> QED BY <2>2, <2>3, <2>5
<1>5. ASSUME NEW b \in Buttons
      PROVE  b \in mousePress' <=> high'[b] = WIDTH
  <2>1. b \in mousePress' <=> \A j \in 1 .. WIDTH : debounce'[b][j]
    BY DEF ImuTimerIntHandler, AllOnes, Bits
  <2>2. b \in mousePress' <=> high'[b] >= WIDTH
    BY <2>1, <1>4 DEF Bits
  <2>3. high'[b] \in 0 .. WIDTH
    BY <1>2
  <2>4. high'[b] >= WIDTH <=> high'[b] = WIDTH
    BY <2>3
  <2> QED BY <2>2, <2>4
<1> QED BY <1>3, <1>4, <1>5 DEF RegisterCounts

\* The steps of the task and of the switch leave the interrupt's variables.
LEMMA OtherInv ==
  ASSUME Inv, \/ SensorRead \/ UartRead \/ CopyClick \/ ClearClick \/ TurnSwitch
              \/ UNCHANGED vars
  PROVE  Inv'
BY DEF Inv, TypeOK, RegisterCounts, isrVars, vars,
       SensorRead, UartRead, CopyClick, ClearClick, TurnSwitch

\* The inductive invariant: the types, and every prefix of the registers.
THEOREM SpecInv == Spec => []Inv
<1>1. Inv /\ [Next]_vars => Inv'
  BY IsrInv, OtherInv DEF Next
<1> QED BY <1>1, InitInv, PTL DEF Spec

\* The types of the registers and of the clicks, for any width.
THEOREM TypeThm == Spec => []TypeOK
<1>1. Inv => TypeOK
  BY DEF Inv
<1> QED BY <1>1, SpecInv, PTL

\* The registers count readings, whatever their width.
THEOREM RegisterCountsThm == Spec => []RegisterCounts
<1>1. Inv => RegisterCounts
  BY DEF Inv
<1> QED BY <1>1, SpecInv, PTL

\* No click is reported twice.
THEOREM NoClickTwiceThm == Spec => []NoClickTwice
<1>1. Init => NoClickTwice
  BY DEF Init, NoClickTwice
<1>2. NoClickTwice /\ [Next]_vars => NoClickTwice'
  BY DEF NoClickTwice, Next, vars, isrVars,
         ImuTimerIntHandler, SensorRead, UartRead, CopyClick, ClearClick, TurnSwitch
<1> QED BY <1>1, <1>2, PTL DEF Spec

\* The shift registers implement the counting debouncer: a reading is a
\* reading, clearing mouseClick is the host taking clicks, and the wait for
\* the UART is the time between a question to the other board and its answer.
THEOREM DebouncesThm == Spec => Debounces
<1>1. Init => Deb!Init
  BY DEF Init, Deb!Init
<1>2. Inv /\ Inv' /\ [Next]_vars => [Deb!Next]_(Deb!vars)
  <2> SUFFICES ASSUME Inv, Inv', [Next]_vars PROVE Deb!Next \/ UNCHANGED Deb!vars
    OBVIOUS
  <2>1. CASE ImuTimerIntHandler
    <3>1. mousePress' = {b \in Buttons : high'[b] = WIDTH}
      BY DEF Inv, TypeOK, RegisterCounts
    <3>2. lastMousePress' = mousePress
      BY <2>1 DEF ImuTimerIntHandler
    <3>3. \E pin \in [Buttons -> BOOLEAN] : Deb!Read(pin)
      BY <2>1, <3>1, <3>2 DEF ImuTimerIntHandler, Deb!Read
    <3> QED BY <3>3 DEF Deb!Next
  <2>2. CASE SensorRead
    BY <2>2 DEF SensorRead, isrVars, Deb!vars, Deb!Next, Deb!Ask
  <2>3. CASE UartRead
    BY <2>3 DEF UartRead, isrVars, Deb!Next, Deb!Answer
  <2>4. CASE CopyClick
    BY <2>4 DEF CopyClick, isrVars, Deb!vars
  <2>5. CASE ClearClick
    BY <2>5 DEF ClearClick, isrVars, Deb!Next, Deb!Take
  <2>6. CASE TurnSwitch
    BY <2>6 DEF TurnSwitch, isrVars, Deb!Next, Deb!Turn
  <2>7. CASE UNCHANGED vars
    BY <2>7 DEF vars, isrVars, Deb!vars
  <2> QED BY <2>1, <2>2, <2>3, <2>4, <2>5, <2>6, <2>7 DEF Next
<1> QED BY <1>1, <1>2, SpecInv, PTL DEF Spec, Debounces, Deb!Spec
=============================================================================
