------------------------------- MODULE LinkLayer -------------------------------
(***************************************************************************)
(* app_link.c: linkLayerControlTask, which runs the network processor as   *)
(* an access point or in P2P mode, as the switch at NETWORK_PIN says, and  *)
(* app_simpleLink_handlers.c, which keeps g_ulStatus from the events of    *)
(* the network processor.  The handlers run in the spawn task, of a higher *)
(* priority: to the control task each is one step.                         *)
(*                                                                         *)
(* The network processor is external: what it does and which event it      *)
(* raises then.  Its mode is in flash and outlives a reset of the board;   *)
(* a call to it may fail, and events it holds are lost when it stops.      *)
(* Where the code stops for good (LOOP_FOREVER) the task is at "halt".     *)
(***************************************************************************)
EXTENDS Naturals, Sequences

CONSTANT MAX_EVENTS    \* bound: events raised and not yet handled

ASSUME EventsAssumption == MAX_EVENTS \in Nat \ {0}

VARIABLES
  pc, ucPinValue, status,      \* status: the bits of g_ulStatus that are set
  mode, on, role, link, ownIp, events,   \* the network processor
  switch                       \* what the pin is at

nwpVars == <<mode, on, role, link, ownIp, events>>
vars == <<pc, ucPinValue, status, nwpVars, switch>>

Roles == {"STA", "AP", "P2P"}
Pins  == {"AP", "P2P"}
Bits  == {"conn", "acquired", "leased", "request", "failed"}
Events == {"connect", "disconnect", "staConnect", "staDisconnect",
           "acquired", "leased", "released", "request", "failed"}

Labels == {"decide", "halt",
  "defStart", "defWaitIp", "defSetMode", "defRestart", "defDisconnect", "defWaitDisc", "defStop",
  "start",
  "apMode", "apStop", "apStart", "apWaitIp", "apInfo", "apWaitLease", "apServe",
  "p2pMode", "p2pStop", "p2pStart", "p2pConf", "p2pRestart", "p2pLoop", "p2pWaitReq",
  "p2pJoin", "p2pWaitLease", "p2pCheckFail", "p2pServe",
  "leave", "leaveMode", "leaveStop"}

TypeOK ==
  /\ pc \in Labels
  /\ ucPinValue \in Pins /\ switch \in Pins
  /\ status \subseteq Bits
  /\ mode \in Roles /\ role \in Roles
  /\ on \in BOOLEAN /\ ownIp \in BOOLEAN
  /\ link \in {"none", "joined", "addressed"}
  /\ events \in Seq(Events)

\* Power-on, with whatever mode an earlier run has left in flash.
Init ==
  /\ pc = "decide" /\ ucPinValue = "AP" /\ status = {}
  /\ mode \in Roles /\ on = FALSE /\ role = "STA" /\ link = "none" /\ ownIp = FALSE
  /\ events = <<>>
  /\ switch \in Pins

-----------------------------------------------------------------------------
(* The event handlers.                                                     *)

Sets(e) == CASE e \in {"connect", "staConnect"} -> {"conn"}
             [] e \in {"acquired", "leased", "request", "failed"} -> {e}
             [] OTHER -> {}

Clears(e) == CASE e \in {"connect", "staConnect"} -> {"failed"}
               [] e = "disconnect" -> {"conn", "acquired"}
               [] e = "staDisconnect" -> {"conn", "leased"}
               [] e = "released" -> {"leased"}
               [] OTHER -> {}

\* SimpleLinkWlanEventHandler and SimpleLinkNetAppEventHandler
Handle ==
  /\ events # <<>> /\ events' = Tail(events)
  /\ status' = (status \ Clears(Head(events))) \cup Sets(Head(events))
  /\ UNCHANGED <<pc, ucPinValue, mode, on, role, link, ownIp, switch>>

-----------------------------------------------------------------------------
(* The network processor.                                                  *)

Raises(e) == Len(events) < MAX_EVENTS /\ events' = Append(events, e)

\* A station of ours, or an access point if we are the station.
Joins ==
  /\ on /\ link = "none" /\ link' = "joined"
  /\ Raises(IF role = "STA" THEN "connect" ELSE "staConnect")
  /\ UNCHANGED <<pc, ucPinValue, status, mode, on, role, ownIp, switch>>

GetsAddress ==
  /\ on /\ link = "joined" /\ link' = "addressed"
  /\ Raises(IF role = "STA" THEN "acquired" ELSE "leased")
  /\ UNCHANGED <<pc, ucPinValue, status, mode, on, role, ownIp, switch>>

ReleasesAddress ==
  /\ on /\ role # "STA" /\ link = "addressed" /\ link' = "joined"
  /\ Raises("released")
  /\ UNCHANGED <<pc, ucPinValue, status, mode, on, role, ownIp, switch>>

Parts ==
  /\ on /\ link # "none" /\ link' = "none"
  /\ Raises(IF role = "STA" THEN "disconnect" ELSE "staDisconnect")
  /\ UNCHANGED <<pc, ucPinValue, status, mode, on, role, ownIp, switch>>

\* An access point gives itself an address, once.
OwnAddress ==
  /\ on /\ role = "AP" /\ ~ownIp /\ ownIp' = TRUE
  /\ Raises("acquired")
  /\ UNCHANGED <<pc, ucPinValue, status, mode, on, role, link, switch>>

AsksForP2P ==
  /\ on /\ role = "P2P"
  /\ Raises("request")
  /\ UNCHANGED <<pc, ucPinValue, status, mode, on, role, link, ownIp, switch>>

\* An attempt of sl_WlanConnect that came to nothing.
AttemptFails ==
  /\ on /\ role = "P2P" /\ link = "none"
  /\ pc \in {"p2pWaitReq", "p2pJoin", "p2pWaitLease", "p2pCheckFail"}
  /\ Raises("failed")
  /\ UNCHANGED <<pc, ucPinValue, status, mode, on, role, link, ownIp, switch>>

NwpStep == \/ Joins \/ GetsAddress \/ ReleasesAddress \/ Parts
           \/ OwnAddress \/ AsksForP2P \/ AttemptFails

\* sl_Start: the mode in flash becomes the role.
SlStart ==
  /\ on' = TRUE /\ role' = mode /\ link' = "none" /\ ownIp' = FALSE /\ events' = <<>>
  /\ UNCHANGED mode

\* sl_Stop
SlStop ==
  /\ on' = FALSE /\ link' = "none" /\ ownIp' = FALSE /\ events' = <<>>
  /\ UNCHANGED <<mode, role>>

\* sl_WlanSetMode: takes effect at the next start.
SlSetMode(m) == mode' = m /\ UNCHANGED <<on, role, link, ownIp, events>>

\* sl_WlanDisconnect returns 0, and raises an event, if there is a link.
SlDisconnect ==
  IF link = "none" THEN UNCHANGED nwpVars
  ELSE /\ link' = "none"
       /\ events' = Append(events, IF role = "STA" THEN "disconnect" ELSE "staDisconnect")
       /\ UNCHANGED <<mode, on, role, ownIp>>

-----------------------------------------------------------------------------
(* linkLayerControlTask                                                    *)

Goto(l) == pc' = l

\* A call of the driver failed where the code then loops forever.
Fails ==
  /\ pc \in {"defStart", "defSetMode", "defRestart", "defDisconnect", "defStop", "start",
             "apMode", "apStart", "apInfo", "p2pMode", "p2pStart", "p2pConf", "p2pRestart",
             "leaveMode"}
  /\ Goto("halt")
  /\ IF pc = "apMode" THEN SlStop ELSE UNCHANGED nwpVars
  /\ UNCHANGED <<ucPinValue, status, switch>>

\* Mutated form of Decide: ucPinValue is left at NETWORK_VALUE_NONE.
DecideUnread ==
  /\ pc = "decide" /\ Goto("defStart")
  /\ ucPinValue' = "none" /\ status' = {}
  /\ UNCHANGED <<nwpVars, switch>>

\* The pin is read, and either mode begins with InitializeAppVariables.
Decide ==
  /\ pc = "decide" /\ Goto("defStart")
  /\ ucPinValue' = switch /\ status' = {}
  /\ UNCHANGED <<nwpVars, switch>>

\* Mutated form of DefStart: only an access point is made a station.
DefStartLooksForAP ==
  /\ pc = "defStart" /\ SlStart
  /\ Goto(IF mode = "AP" THEN "defWaitIp" ELSE "defDisconnect")
  /\ UNCHANGED <<ucPinValue, status, switch>>

\* ConfigureSimpleLinkToDefaultState.  An access point is waited for.
DefStart ==
  /\ pc = "defStart" /\ SlStart
  /\ Goto(CASE mode = "STA" -> "defDisconnect"
            [] mode = "AP"  -> "defWaitIp"
            [] mode = "P2P" -> "defSetMode")
  /\ UNCHANGED <<ucPinValue, status, switch>>

DefWaitIp ==
  /\ pc = "defWaitIp" /\ "acquired" \in status /\ Goto("defSetMode")
  /\ UNCHANGED <<ucPinValue, status, nwpVars, switch>>

\* sl_WlanSetMode(ROLE_STA), sl_Stop
DefSetMode ==
  /\ pc = "defSetMode" /\ Goto("defRestart")
  /\ mode' = "STA" /\ on' = FALSE /\ link' = "none" /\ ownIp' = FALSE
  /\ events' = <<>>
  /\ UNCHANGED <<ucPinValue, status, role, switch>>

DefRestart ==
  /\ pc = "defRestart" /\ Goto("defDisconnect") /\ SlStart
  /\ UNCHANGED <<ucPinValue, status, switch>>

DefDisconnect ==
  /\ pc = "defDisconnect"
  /\ Goto(IF link = "none" THEN "defStop" ELSE "defWaitDisc")
  /\ SlDisconnect
  /\ UNCHANGED <<ucPinValue, status, switch>>

DefWaitDisc ==
  /\ pc = "defWaitDisc" /\ "conn" \notin status /\ Goto("defStop")
  /\ UNCHANGED <<ucPinValue, status, nwpVars, switch>>

\* sl_Stop, InitializeAppVariables
DefStop ==
  /\ pc = "defStop" /\ Goto("start") /\ SlStop /\ status' = {}
  /\ UNCHANGED <<ucPinValue, switch>>

Start ==
  /\ pc = "start" /\ SlStart
  /\ Goto(IF ucPinValue = "P2P" THEN IF mode = "P2P" THEN "p2pConf" ELSE "p2pMode"
          ELSE IF mode = "AP" THEN "apWaitIp" ELSE "apMode")
  /\ UNCHANGED <<ucPinValue, status, switch>>

ApMode ==
  /\ pc = "apMode" /\ Goto("apStop") /\ SlSetMode("AP")
  /\ UNCHANGED <<ucPinValue, status, switch>>

\* Mutated form of ApStop: the bits of the station are kept.
ApStopKeepsStatus ==
  /\ pc = "apStop" /\ Goto("apStart") /\ SlStop
  /\ UNCHANGED <<ucPinValue, status, switch>>

\* sl_Stop, CLR_STATUS_BIT_ALL
ApStop ==
  /\ pc = "apStop" /\ Goto("apStart") /\ SlStop /\ status' = {}
  /\ UNCHANGED <<ucPinValue, switch>>

ApStart ==
  /\ pc = "apStart" /\ Goto("apWaitIp") /\ SlStart
  /\ UNCHANGED <<ucPinValue, status, switch>>

\* One round of `while(waits && ucPinValue == on) ucPinValue = GPIO_IF_Get()`.
Polls(waits, pin, exit) ==
  /\ IF waits /\ ucPinValue = pin THEN ucPinValue' = switch /\ Goto(pc)
                                  ELSE Goto(exit) /\ UNCHANGED ucPinValue
  /\ UNCHANGED <<status, nwpVars, switch>>

\* Mutated form of ApWaitIp: it waits for a client to have an address.
ApWaitLeased == pc = "apWaitIp" /\ Polls("leased" \notin status, "AP", "apInfo")

ApWaitIp == pc = "apWaitIp" /\ Polls("acquired" \notin status, "AP", "apInfo")

ApInfo ==
  /\ pc = "apInfo" /\ Goto(IF ucPinValue = "AP" THEN "apWaitLease" ELSE "leave")
  /\ UNCHANGED <<ucPinValue, status, nwpVars, switch>>

ApWaitLease ==
  /\ pc = "apWaitLease"
  /\ Polls("leased" \notin status, "AP", IF ucPinValue = "AP" THEN "apServe" ELSE "leave")

\* Mutated form of ApServe: the pin is not read while a client is there.
ApServeBlind ==
  /\ pc = "apServe" /\ "conn" \notin status /\ Goto("apInfo")
  /\ UNCHANGED <<ucPinValue, status, nwpVars, switch>>

ApServe == pc = "apServe" /\ Polls("conn" \in status, "AP", "apInfo")

P2pMode ==
  /\ pc = "p2pMode" /\ Goto("p2pStop") /\ SlSetMode("P2P")
  /\ UNCHANGED <<ucPinValue, status, switch>>

P2pStop ==
  /\ pc = "p2pStop" /\ Goto("p2pStart") /\ SlStop /\ status' = {}
  /\ UNCHANGED <<ucPinValue, switch>>

P2pStart ==
  /\ pc = "p2pStart" /\ Goto("p2pConf") /\ SlStart
  /\ UNCHANGED <<ucPinValue, status, switch>>

\* P2PConfiguration: the policies, and sl_Stop with no bit cleared.
P2pConf ==
  /\ pc = "p2pConf" /\ Goto("p2pRestart") /\ SlStop
  /\ UNCHANGED <<ucPinValue, status, switch>>

P2pRestart ==
  /\ pc = "p2pRestart" /\ Goto("p2pLoop") /\ SlStart
  /\ ucPinValue' = switch
  /\ UNCHANGED <<status, switch>>

\* WlanConnect, from the first sl_WlanConnect; a failure reads the pin.
P2pLoop ==
  /\ pc = "p2pLoop"
  /\ IF ucPinValue # "P2P" THEN Goto("leave") /\ UNCHANGED ucPinValue
     ELSE \/ Goto("p2pWaitReq") /\ UNCHANGED ucPinValue
          \/ Goto("p2pLoop") /\ ucPinValue' = switch
  /\ UNCHANGED <<status, nwpVars, switch>>

P2pWaitReq == pc = "p2pWaitReq" /\ Polls("request" \notin status, "P2P", "p2pJoin")

\* sl_WlanConnect(g_p2p_dev)
P2pJoin ==
  /\ pc = "p2pJoin"
  /\ \/ Goto("p2pWaitLease") /\ UNCHANGED ucPinValue
     \/ Goto("p2pLoop") /\ ucPinValue' = switch
  /\ UNCHANGED <<status, mode, on, role, link, ownIp, events, switch>>

\* Once there is a lease DisplayIP is called, which may fail.
P2pWaitLease ==
  /\ pc = "p2pWaitLease"
  /\ IF "leased" \in status THEN Goto("p2pServe") \/ Goto("halt") ELSE Goto("p2pCheckFail")
  /\ UNCHANGED <<ucPinValue, status, nwpVars, switch>>

P2pCheckFail ==
  /\ pc = "p2pCheckFail"
  /\ IF "failed" \in status THEN Goto("p2pLoop") /\ ucPinValue' = switch
                            ELSE Goto("p2pWaitLease") /\ UNCHANGED ucPinValue
  /\ UNCHANGED <<status, nwpVars, switch>>

P2pServe == pc = "p2pServe" /\ Polls("conn" \in status, "P2P", "p2pLoop")

Leave ==
  /\ pc = "leave" /\ Goto("leaveMode")
  /\ IF "conn" \in status THEN SlDisconnect ELSE UNCHANGED nwpVars
  /\ UNCHANGED <<ucPinValue, status, switch>>

LeaveMode ==
  /\ pc = "leaveMode" /\ Goto("leaveStop") /\ SlSetMode("STA")
  /\ UNCHANGED <<ucPinValue, status, switch>>

LeaveStop ==
  /\ pc = "leaveStop" /\ Goto("decide") /\ SlStop
  /\ UNCHANGED <<ucPinValue, status, switch>>

Task ==
  \/ Fails \/ Decide
  \/ DefStart \/ DefWaitIp \/ DefSetMode \/ DefRestart
  \/ DefDisconnect \/ DefWaitDisc \/ DefStop \/ Start
  \/ ApMode \/ ApStop \/ ApStart \/ ApWaitIp \/ ApInfo \/ ApWaitLease \/ ApServe
  \/ P2pMode \/ P2pStop \/ P2pStart \/ P2pConf \/ P2pRestart
  \/ P2pLoop \/ P2pWaitReq \/ P2pJoin \/ P2pWaitLease \/ P2pCheckFail \/ P2pServe
  \/ Leave \/ LeaveMode \/ LeaveStop

-----------------------------------------------------------------------------

TurnSwitch ==
  /\ switch' \in Pins \ {switch}
  /\ UNCHANGED <<pc, ucPinValue, status, nwpVars>>

\* The board is reset; the mode stays in flash.
Reset ==
  /\ pc' = "decide" /\ ucPinValue' = "AP" /\ status' = {}
  /\ on' = FALSE /\ role' = "STA" /\ link' = "none" /\ ownIp' = FALSE
  /\ events' = <<>>
  /\ UNCHANGED <<mode, switch>>

Next == Handle \/ NwpStep \/ Task \/ TurnSwitch \/ Reset

Spec == Init /\ [][Next]_vars

(***************************************************************************)
(* Every event is handled and the task is scheduled; an access point gets  *)
(* its address, though stations keep the events busy.  No station is       *)
(* assumed to come, go or ask.                                             *)
(***************************************************************************)
Fairness == WF_vars(Handle) /\ WF_vars(Task) /\ SF_vars(OwnAddress)

FairSpec == Spec /\ Fairness

-----------------------------------------------------------------------------

\* app_link.c:72-73, 467: when sl_Start is called for the chosen mode, the
\* device is a station, whatever mode an earlier run was reset in.
AssumedStation == pc = "start" => mode = "STA"

\* A bit as it will be when the handlers have seen every event.
Upcoming(b, bits, es) ==
  LET About == {k \in DOMAIN es : b \in Sets(es[k]) \cup Clears(es[k])}
  IN  IF About = {} THEN b \in bits
      ELSE \E k \in About : b \in Sets(es[k]) /\ \A j \in About : j <= k

\* From sl_Start for the chosen mode on, an access point's g_ulStatus tells
\* the truth with a delay: no restart of the network processor leaves a bit
\* of its life before, and none of the places that clear all bits loses what
\* an event has said (app_link.c:75-136, 595-601).
StatusIsTrue ==
  on /\ pc \in {"apMode", "apStop", "apWaitIp", "apInfo", "apWaitLease", "apServe"} =>
    /\ Upcoming("conn", status, events) <=> link # "none"
    /\ Upcoming("acquired", status, events) <=> (IF role = "AP" THEN ownIp ELSE link = "addressed")
    /\ Upcoming("leased", status, events) <=> (role = "AP" /\ link = "addressed")

\* The wait for an address after the start as access point ends
\* (app_link.c:99-103), with no client near.
AccessPointStarts == pc = "apWaitIp" ~> pc # "apWaitIp"

\* The switch is obeyed by the access point (app_link.c:117-136), with or
\* without a client, unless clients keep coming and going.
SwitchLeavesAP ==
  <>[](switch = "P2P") /\ <>[][~Joins]_vars
    => []<>(pc \notin {"apWaitIp", "apInfo", "apWaitLease", "apServe"})
=============================================================================
