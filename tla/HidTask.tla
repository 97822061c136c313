-------------------------------- MODULE HidTask --------------------------------
(***************************************************************************)
(* hid/hid.c, hidTask: opens a listening socket for the mouse, takes one   *)
(* client, closes the listening socket, then answers every request with a  *)
(* report until recv() or send() fails, and starts over.                   *)
(*                                                                         *)
(* The retry loop tests retVal, which bind() and listen() set to the value *)
(* of a comparison, 0 or 1, and which socket() and accept() leave alone:   *)
(* retNeg is retVal < 0.  Of the sensor part of a report this module has   *)
(* that it is in between recv() and send() and may wait for the other      *)
(* board without limit (sensor.c:139); what it reads is MouseInput's.  A   *)
(* local that the code assigns before it reads it again is reset.          *)
(***************************************************************************)
EXTENDS SlSockets

CONSTANT Hid    \* the mouse task, as an owner of sockets

ASSUME HidAssumption == Hid \in Owners

VARIABLES hpc, fd, tempfd, retNeg

hidVars == <<hpc, fd, tempfd, retNeg>>
mouseVars == <<sock, hidVars>>

HidLabels == {"socket", "bind", "listen", "accept", "closeListen", "sockopt",
              "drop", "test", "recv", "sensor", "send", "close"}

\* In between the calls that open a socket and those that close it.
HasSocket == {"bind", "listen", "accept", "closeListen", "sockopt",
              "drop", "sensor", "send"}

HidTypeOK ==
  /\ SockTypeOK
  /\ hpc \in HidLabels
  /\ fd \in Desc \cup {NoFd} /\ tempfd \in Desc \cup {NoFd}
  /\ retNeg \in BOOLEAN
  /\ hpc \in HasSocket => fd \in Desc

\* retVal is an uninitialised local.
HidInit ==
  /\ hpc = "socket" /\ fd = NoFd /\ tempfd = NoFd
  /\ retNeg \in BOOLEAN

MouseInit == SockInit /\ HidInit

HidGoto(l) == hpc' = l

HidSocket ==
  /\ hpc = "socket"
  /\ \/ \E d \in FreeDesc :
          fd' = d /\ sock' = Opened(sock, d, "fresh", Hid) /\ HidGoto("bind")
     \/ fd' = NoFd /\ sock' = sock /\ HidGoto("test")
  /\ UNCHANGED <<tempfd, retNeg>>

\* `retVal = bind(...) < 0` leaves 0 or 1 in retVal.
HidBind ==
  /\ hpc = "bind" /\ retNeg' = FALSE
  /\ \/ Use(fd) = "fresh" /\ sock' = Became(sock, fd, "bound") /\ HidGoto("listen")
     \/ sock' = sock /\ HidGoto("drop")
  /\ UNCHANGED <<fd, tempfd>>

HidListen ==
  /\ hpc = "listen" /\ retNeg' = FALSE
  /\ \/ Use(fd) = "bound" /\ sock' = Became(sock, fd, "listen") /\ HidGoto("accept")
     \/ sock' = sock /\ HidGoto("drop")
  /\ UNCHANGED <<fd, tempfd>>

HidAccept ==
  /\ hpc = "accept" /\ HidGoto("closeListen")
  /\ \/ /\ Use(fd) = "listen"
        /\ \E d \in FreeDesc : tempfd' = d /\ sock' = Opened(sock, d, "conn", Hid)
     \/ tempfd' = NoFd /\ sock' = sock
  /\ UNCHANGED <<fd, retNeg>>

\* Mutated form of HidCloseListen: accept() is taken to have succeeded.
CloseListenUnchecked ==
  /\ hpc = "closeListen" /\ HidGoto("sockopt")
  /\ sock' = Shut(sock, fd)
  /\ fd' = tempfd /\ tempfd' = NoFd
  /\ UNCHANGED retNeg

\* The listening socket is closed; on an error of accept() fd still names it.
HidCloseListen ==
  /\ hpc = "closeListen"
  /\ sock' = Shut(sock, fd)
  /\ IF tempfd = NoFd THEN fd' = fd /\ HidGoto("test") ELSE fd' = tempfd /\ HidGoto("sockopt")
  /\ tempfd' = NoFd
  /\ UNCHANGED retNeg

\* Mutated form of HidSockopt: the client's socket is not closed on an error.
SockoptWithoutClose ==
  /\ hpc = "sockopt" /\ HidGoto("test")
  /\ (Use(fd) # "free" /\ retNeg' = FALSE) \/ retNeg' = TRUE
  /\ UNCHANGED <<sock, fd, tempfd>>

HidSockopt ==
  /\ hpc = "sockopt"
  /\ \/ Use(fd) # "free" /\ retNeg' = FALSE /\ HidGoto("test")
     \/ retNeg' = TRUE /\ HidGoto("drop")
  /\ UNCHANGED <<sock, fd, tempfd>>

\* close(fd); continue
HidDrop ==
  /\ hpc = "drop" /\ HidGoto("test")
  /\ sock' = Shut(sock, fd)
  /\ UNCHANGED <<fd, tempfd, retNeg>>

\* while(retVal < 0)
HidTest ==
  /\ hpc = "test"
  /\ HidGoto(IF retNeg THEN "socket" ELSE "recv")
  /\ UNCHANGED <<sock, fd, tempfd, retNeg>>

\* Mutated form of HidRecv: after an error the next request is awaited.
RecvErrorRetried ==
  /\ hpc = "recv"
  /\ \/ (CanRecv(fd) \/ RecvIsZero(fd)) /\ retNeg' = FALSE /\ HidGoto("sensor")
     \/ retNeg' = TRUE /\ HidGoto("recv")
  /\ UNCHANGED <<sock, fd, tempfd>>

\* 0, the end of the stream, is taken for a request.
HidRecv ==
  /\ hpc = "recv"
  /\ \/ (CanRecv(fd) \/ RecvIsZero(fd)) /\ retNeg' = FALSE /\ HidGoto("sensor")
     \/ retNeg' = TRUE /\ HidGoto("close")
  /\ UNCHANGED <<sock, fd, tempfd>>

\* sensorRead() .. sensorToReport(): no socket is touched.
HidSensor ==
  /\ hpc = "sensor" /\ HidGoto("send")
  /\ UNCHANGED <<sock, fd, tempfd, retNeg>>

HidSend ==
  /\ hpc = "send"
  /\ \/ CanSend(fd) /\ retNeg' = FALSE /\ HidGoto("recv")
     \/ retNeg' = TRUE /\ HidGoto("close")
  /\ UNCHANGED <<sock, fd, tempfd>>

HidClose ==
  /\ hpc = "close" /\ HidGoto("socket")
  /\ sock' = Shut(sock, fd)
  /\ fd' = NoFd
  /\ UNCHANGED <<tempfd, retNeg>>

HidStep == \/ HidSocket \/ HidBind \/ HidListen \/ HidAccept \/ HidCloseListen
           \/ HidSockopt \/ HidDrop \/ HidTest \/ HidRecv \/ HidSensor
           \/ HidSend \/ HidClose

MouseNext ==
  \/ HidStep
  \/ (\E d \in Desc : PeerCloses(d) \/ PeerResets(d)) /\ UNCHANGED hidVars

MouseSpec == MouseInit /\ [][MouseNext]_mouseVars

(* The task is scheduled in turn with the others of its priority, and goes *)
(* on unless a call does not return.  recv() has a timeout, and send() has *)
(* not: it returns for certain only when the connection is gone.  Neither  *)
(* accept() nor sensorRead() is assumed to return, nor a peer to do        *)
(* anything.                                                               *)
MouseFairSpec ==
  /\ MouseSpec
  /\ WF_mouseVars(HidRecv \/ HidClose)
  /\ WF_mouseVars(HidSend /\ ~CanSend(fd))

-----------------------------------------------------------------------------

\* The descriptors the task can still reach, and will close.
HidHolds ==
  CASE hpc = "socket"                 -> {}
    [] hpc = "closeListen"            -> {fd, tempfd}
    [] hpc = "test" /\ retNeg         -> {}
    [] OTHER                          -> {fd}

\* Whatever call fails, each pass of the retry loop and each connection gives
\* back all it opened: the mouse listens anew with no socket left behind, and
\* it serves one client with the listening socket closed (hid.c:85-142).
HidNoLeak == \A d \in Desc : sock[d].by = Hid => d \in HidHolds

\* The board of the sensors answers each request (sensor.c:139-144) ...
SensorsAnswer == []<>(hpc # "sensor")

\* ... and a client that has closed its end answers the next report with a
\* reset: it has not closed the one direction only.
ClosedIsGone == []<>(Use(fd) # "fin")

\* A client that has gone is noticed wherever the task is just then and the
\* task opens the socket for the next one, though the 0 recv() returns at
\* first is answered with a report (hid.c:124-141).
GoneMouseIsReplaced ==
  SensorsAnswer /\ ClosedIsGone =>
    (hpc \in {"recv", "sensor", "send"} /\ Use(fd) \in {"fin", "reset"})
      ~> hpc = "socket"
=============================================================================
