------------------------------- MODULE Debouncer -------------------------------
(***************************************************************************)
(* What the timer interrupt promises of the buttons, without shift         *)
(* registers: a button is held once it has been read high WIDTH times in a *)
(* row, and becoming held makes one click.  While the other board has the  *)
(* buttons no pin is read, and the other board can be asked for clicks.    *)
(* Its answer may come late, when this board has the buttons again, and    *)
(* takes the place of the clicks there are.                                *)
(***************************************************************************)
EXTENDS Integers

CONSTANTS Buttons, WIDTH    \* WIDTH is at least 1

VARIABLES
  high,           \* readings in a row, up to WIDTH
  held, clicks,
  self,           \* this board has the buttons
  asked           \* the other one has been asked for clicks

vars == <<high, held, clicks, self, asked>>

Init ==
  /\ high = [b \in Buttons |-> 0] /\ held = {} /\ clicks = {}
  /\ self \in BOOLEAN /\ asked = FALSE

Read(pin) ==
  /\ self
  /\ high' = [b \in Buttons |->
                IF ~pin[b] THEN 0 ELSE IF high[b] < WIDTH THEN high[b] + 1 ELSE WIDTH]
  /\ held' = {b \in Buttons : high'[b] = WIDTH}
  /\ clicks' = clicks \cup (held' \ held)
  /\ UNCHANGED <<self, asked>>

\* The host takes all clicks there are.
Take == clicks' = {} /\ UNCHANGED <<high, held, self, asked>>

Ask == ~self /\ ~asked /\ asked' = TRUE /\ UNCHANGED <<high, held, clicks, self>>

Answer ==
  /\ asked /\ asked' = FALSE
  /\ clicks' \in SUBSET Buttons
  /\ UNCHANGED <<high, held, self>>

Turn == self' = ~self /\ UNCHANGED <<high, held, clicks, asked>>

Next == \/ \E pin \in [Buttons -> BOOLEAN] : Read(pin)
        \/ Take \/ Ask \/ Answer \/ Turn

Spec == Init /\ [][Next]_vars
=============================================================================
