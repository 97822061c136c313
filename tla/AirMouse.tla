-------------------------------- MODULE AirMouse --------------------------------
(***************************************************************************)
(* main.c starts the FTP server, the mouse and the link layer as tasks of  *)
(* one priority.  The first two share nothing but the descriptors of the   *)
(* network processor, and that is enough for one to act on the sockets of  *)
(* the other: a task that uses a descriptor it has closed uses whatever    *)
(* has been opened since.  The link layer restarts the network processor   *)
(* while they run, and tells them nothing; LinkLayer models how.           *)
(***************************************************************************)
EXTENDS FtpServer, HidTask

ASSUME HidApart == Hid \notin Tasks \cup {Server}

ftpVars == <<socks, srvVars, taskVars>>
airVars == <<sock, ftpVars, hidVars>>

AirInit == Init /\ HidInit

FtpStep     == (SrvStep \/ \E t \in Tasks : TaskStep(t)) /\ UNCHANGED hidVars
MouseStep   == HidStep /\ UNCHANGED ftpVars
AnyPeerStep == PeerStep /\ UNCHANGED hidVars

\* linkLayerControlTask calls sl_Stop and sl_Start, to configure the network
\* processor at power-on and whenever the switch is turned.
LinkRestarts == sock' = Restarted /\ UNCHANGED <<ftpVars, hidVars>>

AirNext == ~Faulted /\ (FtpStep \/ MouseStep \/ AnyPeerStep \/ LinkRestarts)

AirSpec == AirInit /\ [][AirNext]_airVars

AirTypeOK == TypeOK /\ HidTypeOK

-----------------------------------------------------------------------------

\* Sharing the descriptors does not break the hand-off of clients through
\* socks: a task never serves another client than the one its slot names,
\* even while the descriptor under it is closed or reused by the mouse, or
\* all descriptors are lost with the network processor.
AirSlotHandoff == SlotHandoff

\* Nor does it make either program lose track of a socket: every open socket
\* is one its own task will close, but for the two leaks the FTP server has
\* by itself.
AirLeaksNoMore == NothingElseLeaks /\ HidNoLeak

\* ftp_server.c:67 "continue listening": from listen() on, the FTP server has
\* its listening socket, so that accept() can succeed again after an error.
FtpKeepsListening ==
  spc \in {"accept", "scan", "assign"} =>
    Use(listenfd) = "listen" /\ sock[listenfd].by = Server
=============================================================================
