---------------------------- MODULE LinkLayerProofs ----------------------------
(***************************************************************************)
(* Proofs about the control of the network processor, for any number of    *)
(* events on their way.                                                    *)
(***************************************************************************)
EXTENDS LinkLayer, TLAPS

-----------------------------------------------------------------------------
(* What the events on their way will make of a bit.                        *)

\* One more event decides the bits it is about and no other.
LEMMA UpcomingAppend ==
  ASSUME NEW b, NEW bits, NEW es \in Seq(Events), NEW e \in Events
  PROVE  Upcoming(b, bits, Append(es, e)) <=>
           IF b \in Sets(e) \cup Clears(e) THEN b \in Sets(e) ELSE Upcoming(b, bits, es)
<1> DEFINE es2 == Append(es, e)
           About  == {k \in DOMAIN es : b \in Sets(es[k]) \cup Clears(es[k])}
           About2 == {k \in DOMAIN es2 : b \in Sets(es2[k]) \cup Clears(es2[k])}
           n == Len(es) + 1
<1>1. /\ n \in Nat \ {0} /\ DOMAIN es = 1 .. n - 1 /\ DOMAIN es2 = 1 .. n
      /\ es2[n] = e /\ \A k \in 1 .. n - 1 : es2[k] = es[k]
  OBVIOUS
<1>2. Upcoming(b, bits, es) <=>
        IF About = {} THEN b \in bits
        ELSE \E k \in About : b \in Sets(es[k]) /\ \A j \in About : j <= k
  BY DEF Upcoming
<1>3. Upcoming(b, bits, es2) <=>
        IF About2 = {} THEN b \in bits
        ELSE \E k \in About2 : b \in Sets(es2[k]) /\ \A j \in About2 : j <= k
  BY DEF Upcoming
<1> HIDE DEF es2, n
<1>4. CASE b \in Sets(e) \cup Clears(e)
  <2>1. n \in About2 /\ \A j \in About2 : j <= n /\ j \in Nat
    <3>1. n \in DOMAIN es2 /\ \A j \in DOMAIN es2 : j <= n /\ j \in Nat
      BY <1>1
    <3>2. b \in Sets(es2[n]) \cup Clears(es2[n])
      BY <1>1, <1>4
    <3> QED BY <3>1, <3>2
  <2>2. (\E k \in About2 : b \in Sets(es2[k]) /\ \A j \in About2 : j <= k) <=> b \in Sets(e)
    <3> HIDE DEF About2
    <3>1. ASSUME NEW k \in About2, \A j \in About2 : j <= k PROVE k = n
      BY <2>1, <3>1, <1>1
    <3> QED BY <2>1, <3>1, <1>1
  <2> QED BY <1>3, <1>4, <2>1, <2>2 DEF es2
<1>5. CASE b \notin Sets(e) \cup Clears(e)
  <2>1. About2 = About
    BY <1>1, <1>5
  <2>2. \A k \in About : es2[k] = es[k]
    BY <1>1
  <2> QED BY <1>2, <1>3, <1>5, <2>1, <2>2 DEF es2
<1> QED BY <1>4, <1>5

\* A handler does now what the event was going to do.
LEMMA UpcomingHandled ==
  ASSUME NEW b, NEW bits, NEW es \in Seq(Events), es # <<>>
  PROVE  Upcoming(b, (bits \ Clears(Head(es))) \cup Sets(Head(es)), Tail(es)) <=>
           Upcoming(b, bits, es)
<1> DEFINE es2 == Tail(es)
           bits2 == (bits \ Clears(Head(es))) \cup Sets(Head(es))
           About  == {k \in DOMAIN es : b \in Sets(es[k]) \cup Clears(es[k])}
           About2 == {k \in DOMAIN es2 : b \in Sets(es2[k]) \cup Clears(es2[k])}
           n == Len(es)
<1>1. /\ n \in Nat \ {0} /\ DOMAIN es = 1 .. n /\ DOMAIN es2 = 1 .. n - 1
      /\ Head(es) = es[1] /\ \A k \in 1 .. n - 1 : es2[k] = es[k + 1]
  OBVIOUS
<1>2. Upcoming(b, bits, es) <=>
        IF About = {} THEN b \in bits
        ELSE \E k \in About : b \in Sets(es[k]) /\ \A j \in About : j <= k
  BY DEF Upcoming
<1>3. Upcoming(b, bits2, es2) <=>
        IF About2 = {} THEN b \in bits2
        ELSE \E k \in About2 : b \in Sets(es2[k]) /\ \A j \in About2 : j <= k
  BY DEF Upcoming
<1>4. b \in bits2 <=> (b \in Sets(es[1]) \/ (b \in bits /\ b \notin Clears(es[1])))
  BY <1>1
<1> HIDE DEF es2, n, bits2
<1>5. /\ \A k \in About2 : k \in 1 .. n - 1 /\ k + 1 \in About
      /\ \A k \in About : k \in 1 .. n /\ (k = 1 \/ k - 1 \in About2)
  BY <1>1
<1>6. CASE About2 = {}
  <2>1. \A k \in About : k = 1
    BY <1>5, <1>6
  <2>2. CASE About = {}
    <3>1. b \notin Sets(es[1]) \cup Clears(es[1])
      BY <2>2, <1>1
    <3> QED BY <1>2, <1>3, <1>4, <1>6, <2>2, <3>1 DEF es2, bits2
  <2>3. CASE About # {}
    <3>1. About = {1}
      BY <2>1, <2>3
    <3>2. b \in Sets(es[1]) \cup Clears(es[1])
      BY <3>1
    <3>3. Upcoming(b, bits, es) <=> b \in Sets(es[1])
      <4> HIDE DEF About
      <4> QED BY <1>2, <3>1
    <3> QED BY <3>2, <3>3, <1>3, <1>4, <1>6 DEF es2, bits2
  <2> QED BY <2>2, <2>3
<1>7. CASE About2 # {}
  <2>1. About # {}
    BY <1>5, <1>7
  <2>2. ASSUME NEW k \in About2, b \in Sets(es2[k]), \A j \in About2 : j <= k
        PROVE  k + 1 \in About /\ b \in Sets(es[k + 1]) /\ \A j \in About : j <= k + 1
    <3>1. k \in 1 .. n - 1 /\ k + 1 \in About /\ es2[k] = es[k + 1]
      BY <1>1, <1>5
    <3>2. ASSUME NEW j \in About PROVE j <= k + 1
      <4>1. j \in 1 .. n /\ (j = 1 \/ j - 1 \in About2)
        BY <1>5
      <4> HIDE DEF About, About2
      <4>2. CASE j = 1
        BY <3>1, <4>2, <1>1
      <4>3. CASE j - 1 \in About2
        <5>1. j - 1 <= k
          BY <2>2, <4>3
        <5> QED BY <5>1, <4>1, <3>1, <1>1
      <4> QED BY <4>1, <4>2, <4>3
    <3> QED BY <2>2, <3>1, <3>2
  <2>3. ASSUME NEW k \in About, b \in Sets(es[k]), \A j \in About : j <= k
        PROVE  k - 1 \in About2 /\ b \in Sets(es2[k - 1]) /\ \A j \in About2 : j <= k - 1
    BY <2>3, <1>1, <1>5, <1>7
  <2> HIDE DEF About, About2
  <2> QED BY <1>2, <1>3, <1>7, <2>1, <2>2, <2>3 DEF es2, bits2
<1> QED BY <1>6, <1>7

-----------------------------------------------------------------------------
(* The mode in flash, and the bits.                                        *)

\* What the task knows of the network processor from where it is.
ModeInv ==
  /\ ~on => link = "none" /\ ~ownIp /\ events = <<>>
  /\ pc \in {"defRestart", "defDisconnect", "defWaitDisc", "defStop", "start",
              "apMode", "p2pMode"} => mode = "STA"
  /\ pc \in {"apStop", "apStart", "apWaitIp", "apInfo", "apWaitLease", "apServe"} =>
       mode = "AP"
  /\ pc \in {"start", "apStart"} => ~on /\ status = {}
  /\ pc \in {"apMode", "apStop"} => on /\ role = "STA"
  /\ pc \in {"apWaitIp", "apInfo", "apWaitLease", "apServe"} => on /\ role = "AP"

Inv == TypeOK /\ ModeInv /\ StatusIsTrue

USE DEF Roles, Pins

LEMMA InitInv == Init => Inv
<1> SUFFICES ASSUME Init PROVE Inv
  OBVIOUS
<1>1. events \in Seq(Events)
  BY DEF Init
<1> QED BY <1>1 DEF Init, Inv, TypeOK, ModeInv, StatusIsTrue, Labels, Bits

\* The environment and the handlers leave the task where it is.
LEMMA HandleInv == Inv /\ Handle => Inv'
<1> SUFFICES ASSUME Inv, Handle PROVE Inv'
  OBVIOUS
<1>1. TypeOK'
  <2>1. Head(events) \in Events /\ Tail(events) \in Seq(Events)
    BY DEF Handle, Inv, TypeOK
  <2>2. Sets(Head(events)) \subseteq Bits
    BY <2>1 DEF Sets, Events, Bits
  <2> QED BY <2>1, <2>2 DEF Handle, Inv, TypeOK
<1>2. ModeInv'
  BY DEF Handle, Inv, ModeInv
<1>3. \A b : Upcoming(b, status', events') <=> Upcoming(b, status, events)
  BY UpcomingHandled DEF Handle, Inv, TypeOK
<1>4. StatusIsTrue'
  BY <1>3 DEF Handle, Inv, StatusIsTrue
<1> QED BY <1>1, <1>2, <1>4 DEF Inv

LEMMA NwpInv == Inv /\ NwpStep => Inv'
<1> SUFFICES ASSUME Inv, NwpStep PROVE Inv'
  OBVIOUS
<1>1. PICK e \in Events : events' = Append(events, e)
  BY DEF NwpStep, Joins, GetsAddress, ReleasesAddress, Parts, OwnAddress, AsksForP2P,
         AttemptFails, Raises, Events
<1>2. TypeOK'
  <2>1. events' \in Seq(Events)
    BY <1>1 DEF Inv, TypeOK
  <2>2. /\ link' \in {"none", "joined", "addressed"} /\ ownIp' \in BOOLEAN
        /\ UNCHANGED <<pc, ucPinValue, status, mode, on, role, switch>>
    BY DEF NwpStep, Joins, GetsAddress, ReleasesAddress, Parts, OwnAddress, AsksForP2P,
           AttemptFails, Inv, TypeOK
  <2> QED BY <2>1, <2>2 DEF Inv, TypeOK
<1>3. on /\ ModeInv' /\ UNCHANGED <<pc, on, role, status>>
  BY DEF NwpStep, Joins, GetsAddress, ReleasesAddress, Parts, OwnAddress, AsksForP2P,
         AttemptFails, Inv, ModeInv
<1>4. ASSUME NEW b, NEW ev \in Events, events' = Append(events, ev)
      PROVE  Upcoming(b, status', events') <=>
               IF b \in Sets(ev) \cup Clears(ev) THEN b \in Sets(ev)
               ELSE Upcoming(b, status, events)
  BY <1>3, <1>4, UpcomingAppend DEF Inv, TypeOK
<1>5. StatusIsTrue'
  <2> SUFFICES ASSUME pc \in {"apMode", "apStop", "apWaitIp", "apInfo", "apWaitLease", "apServe"}
               PROVE  StatusIsTrue'
    BY <1>3 DEF StatusIsTrue
  <2> DEFINE Up(b)  == Upcoming(b, status, events)
             Up2(b) == Upcoming(b, status', events')
  <2>1. role \in {"STA", "AP"}
    BY DEF Inv, ModeInv
  <2>2. /\ Up("conn") <=> link # "none"
        /\ Up("acquired") <=> (IF role = "AP" THEN ownIp ELSE link = "addressed")
        /\ Up("leased") <=> (role = "AP" /\ link = "addressed")
    BY <1>3 DEF Inv, StatusIsTrue
  <2> SUFFICES /\ Up2("conn") <=> link' # "none"
               /\ Up2("acquired") <=> (IF role = "AP" THEN ownIp' ELSE link' = "addressed")
               /\ Up2("leased") <=> (role = "AP" /\ link' = "addressed")
    BY <1>3 DEF StatusIsTrue
  <2>3. ASSUME NEW ev \in Events, events' = Append(events, ev), NEW b
        PROVE  Up2(b) <=> IF b \in Sets(ev) \cup Clears(ev) THEN b \in Sets(ev) ELSE Up(b)
    BY <1>4, <2>3
  <2> HIDE DEF Up, Up2
  <2>4. CASE Joins
    <3>1. CASE role = "STA"
      <4>1. "connect" \in Events /\ events' = Append(events, "connect")
        BY <2>4, <3>1 DEF Joins, Raises, Events
      <4> QED BY <2>2, <2>3, <2>4, <3>1, <4>1 DEF Joins, Sets, Clears
    <3>2. CASE role = "AP"
      <4>1. "staConnect" \in Events /\ events' = Append(events, "staConnect")
        BY <2>4, <3>2 DEF Joins, Raises, Events
      <4> QED BY <2>2, <2>3, <2>4, <3>2, <4>1 DEF Joins, Sets, Clears
    <3> QED BY <2>1, <3>1, <3>2
  <2>5. CASE GetsAddress
    <3>1. CASE role = "STA"
      <4>1. "acquired" \in Events /\ events' = Append(events, "acquired")
        BY <2>5, <3>1 DEF GetsAddress, Raises, Events
      <4> QED BY <2>2, <2>3, <2>5, <3>1, <4>1 DEF GetsAddress, Sets, Clears
    <3>2. CASE role = "AP"
      <4>1. "leased" \in Events /\ events' = Append(events, "leased")
        BY <2>5, <3>2 DEF GetsAddress, Raises, Events
      <4> QED BY <2>2, <2>3, <2>5, <3>2, <4>1 DEF GetsAddress, Sets, Clears
    <3> QED BY <2>1, <3>1, <3>2
  <2>6. CASE ReleasesAddress
    <3>1. role = "AP" /\ "released" \in Events /\ events' = Append(events, "released")
      BY <2>1, <2>6 DEF ReleasesAddress, Raises, Events
    <3> QED BY <2>2, <2>3, <2>6, <3>1 DEF ReleasesAddress, Sets, Clears
  <2>7. CASE Parts
    <3>1. CASE role = "STA"
      <4>1. "disconnect" \in Events /\ events' = Append(events, "disconnect")
        BY <2>7, <3>1 DEF Parts, Raises, Events
      <4> QED BY <2>2, <2>3, <2>7, <3>1, <4>1 DEF Parts, Sets, Clears
    <3>2. CASE role = "AP"
      <4>1. "staDisconnect" \in Events /\ events' = Append(events, "staDisconnect")
        BY <2>7, <3>2 DEF Parts, Raises, Events
      <4> QED BY <2>2, <2>3, <2>7, <3>2, <4>1 DEF Parts, Sets, Clears
    <3> QED BY <2>1, <3>1, <3>2
  <2>8. CASE OwnAddress
    <3>1. "acquired" \in Events /\ events' = Append(events, "acquired")
      BY <2>8 DEF OwnAddress, Raises, Events
    <3> QED BY <2>2, <2>3, <2>8, <3>1 DEF OwnAddress, Sets, Clears
  <2>9. ~(AsksForP2P \/ AttemptFails)
    BY <2>1 DEF AsksForP2P, AttemptFails
  <2> QED BY <2>4, <2>5, <2>6, <2>7, <2>8, <2>9 DEF NwpStep
<1> QED BY <1>2, <1>3, <1>5 DEF Inv

-----------------------------------------------------------------------------
(* The task.                                                               *)

\* The actions of the task by what they are part of, and the environment's.
DefStep ==
  \/ Fails \/ Decide \/ DefStart \/ DefWaitIp \/ DefSetMode \/ DefRestart
  \/ DefDisconnect \/ DefWaitDisc \/ DefStop \/ Start

ApStep ==
  \/ ApMode \/ ApStop \/ ApStart \/ ApWaitIp \/ ApInfo \/ ApWaitLease
  \/ ApServe

P2pStep ==
  \/ P2pMode \/ P2pStop \/ P2pStart \/ P2pConf \/ P2pRestart \/ P2pLoop
  \/ P2pWaitReq \/ P2pJoin \/ P2pWaitLease \/ P2pCheckFail \/ P2pServe

LeaveStep ==
  \/ Leave \/ LeaveMode \/ LeaveStop \/ TurnSwitch \/ Reset

USE DEF Goto, Polls, SlStart, SlStop, SlSetMode, SlDisconnect, nwpVars

\* Where StatusIsTrue speaks.
AsAP == {"apMode", "apStop", "apWaitIp", "apInfo", "apWaitLease", "apServe"}

\* StatusIsTrue stays true if nothing it speaks of changes, and becomes true
\* if there is nothing to be told.
LEMMA StatusKept ==
  ASSUME StatusIsTrue,
         \/ on' /\ pc' \in AsAP => on /\ pc \in AsAP /\ UNCHANGED <<status, events, link, ownIp, role>>
         \/ status' = {} /\ events' = <<>> /\ link' = "none" /\ ~ownIp'
  PROVE  StatusIsTrue'
<1>1. CASE on' /\ pc' \in AsAP => on /\ pc \in AsAP /\ UNCHANGED <<status, events, link, ownIp, role>>
  BY <1>1 DEF StatusIsTrue, AsAP
<1>2. CASE status' = {} /\ events' = <<>> /\ link' = "none" /\ ~ownIp'
  <2>1. \A b : ~Upcoming(b, status', events')
    BY <1>2 DEF Upcoming
  <2> QED BY <1>2, <2>1 DEF StatusIsTrue
<1> QED BY <1>1, <1>2

LEMMA EventsType ==
  ASSUME events \in Seq(Events),
         events' = <<>> \/ events' = events \/ \E e \in Events : events' = Append(events, e)
  PROVE  events' \in Seq(Events)
<1>1. <<>> \in Seq(Events)
  OBVIOUS
<1>2. \A e \in Events : Append(events, e) \in Seq(Events)
  OBVIOUS
<1> QED BY <1>1, <1>2

LEMMA DefStepInv == Inv /\ DefStep => Inv'
<1> SUFFICES ASSUME Inv, DefStep PROVE Inv'
  OBVIOUS
<1> USE DEF DefStep, Fails, Decide, DefStart, DefWaitIp, DefSetMode, DefRestart, DefDisconnect, DefWaitDisc, DefStop, Start
<1>1. TypeOK'
  <2>1. pc' \in Labels /\ ucPinValue' \in Pins /\ switch' \in Pins
    BY DEF Inv, TypeOK, Labels
  <2>2. status' \subseteq Bits /\ mode' \in Roles /\ role' \in Roles
    BY DEF Inv, TypeOK
  <2>3. on' \in BOOLEAN /\ ownIp' \in BOOLEAN
    BY DEF Inv, TypeOK
  <2>4. link' \in {"none", "joined", "addressed"}
    BY DEF Inv, TypeOK
  <2>5. events' \in Seq(Events)
    <3>1. \/ events' = <<>> \/ events' = events
          \/ \E e \in Events : events' = Append(events, e)
      BY DEF Events
    <3> QED BY <3>1, EventsType DEF Inv, TypeOK
  <2> QED BY <2>1, <2>2, <2>3, <2>4, <2>5 DEF TypeOK
<1>2. ModeInv'
  BY DEF Inv, TypeOK, ModeInv
<1>3. \/ on' /\ pc' \in AsAP => on /\ pc \in AsAP /\ UNCHANGED <<status, events, link, ownIp, role>>
      \/ status' = {} /\ events' = <<>> /\ link' = "none" /\ ~ownIp'
  BY DEF Inv, TypeOK, ModeInv, AsAP
<1> QED BY <1>1, <1>2, <1>3, StatusKept DEF Inv

LEMMA ApStepInv == Inv /\ ApStep => Inv'
<1> SUFFICES ASSUME Inv, ApStep PROVE Inv'
  OBVIOUS
<1> USE DEF ApStep, ApMode, ApStop, ApStart, ApWaitIp, ApInfo, ApWaitLease, ApServe
<1>1. TypeOK'
  <2>1. pc' \in Labels /\ ucPinValue' \in Pins /\ switch' \in Pins
    BY DEF Inv, TypeOK, Labels
  <2>2. status' \subseteq Bits /\ mode' \in Roles /\ role' \in Roles
    BY DEF Inv, TypeOK
  <2>3. on' \in BOOLEAN /\ ownIp' \in BOOLEAN
    BY DEF Inv, TypeOK
  <2>4. link' \in {"none", "joined", "addressed"}
    BY DEF Inv, TypeOK
  <2>5. events' \in Seq(Events)
    <3>1. \/ events' = <<>> \/ events' = events
          \/ \E e \in Events : events' = Append(events, e)
      BY DEF Events
    <3> QED BY <3>1, EventsType DEF Inv, TypeOK
  <2> QED BY <2>1, <2>2, <2>3, <2>4, <2>5 DEF TypeOK
<1>2. ModeInv'
  BY DEF Inv, TypeOK, ModeInv
<1>3. \/ on' /\ pc' \in AsAP => on /\ pc \in AsAP /\ UNCHANGED <<status, events, link, ownIp, role>>
      \/ status' = {} /\ events' = <<>> /\ link' = "none" /\ ~ownIp'
  BY DEF Inv, TypeOK, ModeInv, AsAP
<1> QED BY <1>1, <1>2, <1>3, StatusKept DEF Inv

LEMMA P2pStepInv == Inv /\ P2pStep => Inv'
<1> SUFFICES ASSUME Inv, P2pStep PROVE Inv'
  OBVIOUS
<1> USE DEF P2pStep, P2pMode, P2pStop, P2pStart, P2pConf, P2pRestart, P2pLoop, P2pWaitReq, P2pJoin, P2pWaitLease, P2pCheckFail, P2pServe
<1>1. TypeOK'
  <2>1. pc' \in Labels /\ ucPinValue' \in Pins /\ switch' \in Pins
    BY DEF Inv, TypeOK, Labels
  <2>2. status' \subseteq Bits /\ mode' \in Roles /\ role' \in Roles
    BY DEF Inv, TypeOK
  <2>3. on' \in BOOLEAN /\ ownIp' \in BOOLEAN
    BY DEF Inv, TypeOK
  <2>4. link' \in {"none", "joined", "addressed"}
    BY DEF Inv, TypeOK
  <2>5. events' \in Seq(Events)
    <3>1. \/ events' = <<>> \/ events' = events
          \/ \E e \in Events : events' = Append(events, e)
      BY DEF Events
    <3> QED BY <3>1, EventsType DEF Inv, TypeOK
  <2> QED BY <2>1, <2>2, <2>3, <2>4, <2>5 DEF TypeOK
<1>2. ModeInv'
  BY DEF Inv, TypeOK, ModeInv
<1>3. \/ on' /\ pc' \in AsAP => on /\ pc \in AsAP /\ UNCHANGED <<status, events, link, ownIp, role>>
      \/ status' = {} /\ events' = <<>> /\ link' = "none" /\ ~ownIp'
  BY DEF Inv, TypeOK, ModeInv, AsAP
<1> QED BY <1>1, <1>2, <1>3, StatusKept DEF Inv

LEMMA LeaveStepInv == Inv /\ LeaveStep => Inv'
<1> SUFFICES ASSUME Inv, LeaveStep PROVE Inv'
  OBVIOUS
<1> USE DEF LeaveStep, Leave, LeaveMode, LeaveStop, TurnSwitch, Reset
<1>1. TypeOK'
  <2>1. pc' \in Labels /\ ucPinValue' \in Pins /\ switch' \in Pins
    BY DEF Inv, TypeOK, Labels
  <2>2. status' \subseteq Bits /\ mode' \in Roles /\ role' \in Roles
    BY DEF Inv, TypeOK
  <2>3. on' \in BOOLEAN /\ ownIp' \in BOOLEAN
    BY DEF Inv, TypeOK
  <2>4. link' \in {"none", "joined", "addressed"}
    BY DEF Inv, TypeOK
  <2>5. events' \in Seq(Events)
    <3>1. \/ events' = <<>> \/ events' = events
          \/ \E e \in Events : events' = Append(events, e)
      BY DEF Events
    <3> QED BY <3>1, EventsType DEF Inv, TypeOK
  <2> QED BY <2>1, <2>2, <2>3, <2>4, <2>5 DEF TypeOK
<1>2. ModeInv'
  BY DEF Inv, TypeOK, ModeInv
<1>3. \/ on' /\ pc' \in AsAP => on /\ pc \in AsAP /\ UNCHANGED <<status, events, link, ownIp, role>>
      \/ status' = {} /\ events' = <<>> /\ link' = "none" /\ ~ownIp'
  BY DEF Inv, TypeOK, ModeInv, AsAP
<1> QED BY <1>1, <1>2, <1>3, StatusKept DEF Inv

\* The inductive invariant: the types, the truth of the status bits, and what the
\* task may rely on at each label.
THEOREM SpecInv == Spec => []Inv
<1>1. Inv /\ [Next]_vars => Inv'
  <2>1. Inv /\ UNCHANGED vars => Inv'
    BY DEF Inv, TypeOK, ModeInv, StatusIsTrue, vars
  <2>2. Task \/ TurnSwitch \/ Reset => DefStep \/ ApStep \/ P2pStep \/ LeaveStep
    BY DEF Task, DefStep, ApStep, P2pStep, LeaveStep
  <2> QED BY <2>1, <2>2, HandleInv, NwpInv, DefStepInv, ApStepInv, P2pStepInv, LeaveStepInv DEF Next
<1> QED BY <1>1, InitInv, PTL DEF Spec

\* The type invariant.
THEOREM TypeThm == Spec => []TypeOK
<1>1. Inv => TypeOK
  BY DEF Inv
<1> QED BY <1>1, SpecInv, PTL

\* The device is a station whenever it is started for a new mode.
THEOREM AssumedStationThm == Spec => []AssumedStation
<1>1. Inv => AssumedStation
  BY DEF Inv, ModeInv, AssumedStation
<1> QED BY <1>1, SpecInv, PTL

\* The bits of an access point are what the events have said.
THEOREM StatusIsTrueThm == Spec => []StatusIsTrue
<1>1. Inv => StatusIsTrue
  BY DEF Inv
<1> QED BY <1>1, SpecInv, PTL
=============================================================================
