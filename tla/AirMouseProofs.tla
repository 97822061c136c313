---------------------------- MODULE AirMouseProofs ----------------------------
(***************************************************************************)
(* The FTP server, the mouse task, and both on one table of descriptors    *)
(* with restarts of the network processor at any time: for every number of *)
(* connection tasks and of descriptors, every set of commands, and         *)
(* whatever the peers do.                                                  *)
(*                                                                         *)
(* TypeOK of the server alone is not inductive: that a socket has an owner *)
(* after SrvAssign needs i \in Tasks, which is part of SlotHandoff.  The   *)
(* two are proved together; NothingElseLeaks then rests on them.           *)
(*                                                                         *)
(* Each program's invariant bounds what it has open from above: it speaks  *)
(* of the sockets that have this program as their owner.  So it survives   *)
(* whatever the others do, as long as no step of a program makes sockets   *)
(* of another; that is the lemma about each program which the composition  *)
(* needs (HidKeeps, FtpOwnsOnly).                                          *)
(***************************************************************************)
EXTENDS AirMouse, TLAPS

-----------------------------------------------------------------------------
(* What the operations on the table of descriptors preserve, and whose     *)
(* sockets they can change.                                                *)

\* socket() and accept(): only the new descriptor gets an owner.
LEMMA OpenedTable ==
  ASSUME NEW tab \in Tables, NEW d \in Desc, NEW o \in Owners,
         NEW u \in Uses \ {"free"}
  PROVE  /\ Opened(tab, d, u, o) \in Tables
         /\ \A e \in Desc, p \in Owners :
              Opened(tab, d, u, o)[e].by = p => (tab[e].by = p \/ (e = d /\ p = o))
BY OwnerAssumption DEF Opened, Tables, Sockets

\* bind(), listen(), connect() and what peers do: no owner changes.
LEMMA BecameTable ==
  ASSUME NEW tab \in Tables, NEW d \in Desc, NEW u \in Uses \ {"free"},
         tab[d].use # "free"
  PROVE  /\ Became(tab, d, u) \in Tables
         /\ \A e \in Desc : Became(tab, d, u)[e].by = tab[e].by
BY DEF Became, Tables, Sockets

\* close(): no owner is gained, and the socket closed has none.
LEMMA ShutTable ==
  ASSUME NEW tab \in Tables, NEW sd
  PROVE  /\ Shut(tab, sd) \in Tables
         /\ \A e \in Desc, p \in Owners :
              Shut(tab, sd)[e].by = p => (tab[e].by = p /\ e # sd)
<1>1. Closed \in Sockets
  BY DEF Closed, Sockets, Uses
<1>2. CASE sd \in Desc
  BY <1>1, <1>2, OwnerAssumption DEF Shut, Closed, Tables, Sockets
<1>3. CASE sd \notin Desc
  BY <1>3 DEF Shut
<1> QED BY <1>2, <1>3

\* A socket passed from o to p is p's.
LEMMA PassedTable ==
  ASSUME NEW tab \in Tables, NEW sd, NEW o \in Owners, NEW p \in Owners, p # o
  PROVE  /\ Passed(tab, sd, o, p) \in Tables
         /\ \A e \in Desc, q \in Owners :
              Passed(tab, sd, o, p)[e].by = q =>
                (tab[e].by = q /\ ~(e = sd /\ q = o)) \/ (e = sd /\ q = p)
<1>1. CASE sd \in Desc /\ tab[sd].by = o
  BY <1>1, OwnerAssumption DEF Passed, Tables, Sockets
<1>2. CASE ~(sd \in Desc /\ tab[sd].by = o)
  BY <1>2 DEF Passed
<1> QED BY <1>1, <1>2

\* A socket that o forgets is nobody's.
LEMMA LostTable ==
  ASSUME NEW tab \in Tables, NEW sd, NEW o \in Owners
  PROVE  /\ Passed(tab, sd, o, Orphan) \in Tables
         /\ \A e \in Desc, q \in Owners :
              Passed(tab, sd, o, Orphan)[e].by = q => tab[e].by = q /\ ~(e = sd /\ q = o)
<1>1. CASE sd \in Desc /\ tab[sd].by = o
  BY <1>1, OwnerAssumption DEF Passed, Tables, Sockets
<1>2. CASE ~(sd \in Desc /\ tab[sd].by = o)
  BY <1>2 DEF Passed
<1> QED BY <1>1, <1>2

-----------------------------------------------------------------------------
(* Types and the hand-off.                                                 *)

Inv == TypeOK /\ SlotHandoff

LEMMA TaskOwners ==
  /\ \A t \in Tasks : t \in Owners /\ t # Server /\ t # Orphan
  /\ Server \in Owners /\ Server # Orphan
BY TasksAssumption, OwnerAssumption

LEMMA InitInv == Init => Inv
<1> SUFFICES ASSUME Init PROVE Inv
  OBVIOUS
<1>1. SockTypeOK
  BY DEF Init, SockInit, SockTypeOK, Tables, Sockets, Closed, Uses
<1>2. TypeOK
  BY <1>1, TasksAssumption DEF Init, TypeOK, Fds, SrvLabels, TaskLabels
<1>3. SlotHandoff
  BY DEF Init, SlotHandoff, Serving
<1> QED BY <1>2, <1>3 DEF Inv

LEMMA SrvInv == Inv /\ SrvStep => Inv'
<1> SUFFICES ASSUME Inv, SrvStep PROVE Inv'
  OBVIOUS
<1> USE TaskOwners, TasksAssumption DEF Inv, Fds
<1>1. CASE SrvSocket
  <2>1. SockTypeOK'
    BY <1>1, OpenedTable DEF SrvSocket, TypeOK, SockTypeOK, FreeDesc, Uses
  <2> QED BY <1>1, <2>1
    DEF SrvSocket, TypeOK, SlotHandoff, Serving, taskVars, FreeDesc, SrvLabels
<1>2. CASE SrvBind
  <2>1. SockTypeOK'
    BY <1>2, BecameTable DEF SrvBind, TypeOK, SockTypeOK, Use, Uses
  <2> QED BY <1>2, <2>1
    DEF SrvBind, TypeOK, SlotHandoff, Serving, taskVars, SrvLabels
<1>3. CASE SrvListen
  <2>1. SockTypeOK'
    BY <1>3, BecameTable DEF SrvListen, TypeOK, SockTypeOK, Use, Uses
  <2> QED BY <1>3, <2>1
    DEF SrvListen, TypeOK, SlotHandoff, Serving, taskVars, SrvLabels
<1>4. CASE SrvAccept
  <2>1. SockTypeOK'
    BY <1>4, OpenedTable DEF SrvAccept, TypeOK, SockTypeOK, FreeDesc, Uses
  <2> QED BY <1>4, <2>1
    DEF SrvAccept, TypeOK, SlotHandoff, Serving, taskVars, FreeDesc, SrvLabels
<1>5. CASE SrvScan
  <2>1. SockTypeOK'
    BY <1>5 DEF SrvScan, TypeOK, SockTypeOK
  <2>2. i \in Tasks
    BY <1>5 DEF SrvScan, TypeOK, Tasks
  <2>3. i' \in 0 .. MAX_NUM_TASKS
    BY <1>5 DEF SrvScan, TypeOK, Tasks
  <2> QED BY <1>5, <2>1, <2>2, <2>3
    DEF SrvScan, TypeOK, SlotHandoff, Serving, taskVars, SrvLabels
<1>6. CASE SrvReject
  <2>1. SockTypeOK'
    BY <1>6, LostTable DEF SrvReject, TypeOK, SockTypeOK
  <2> QED BY <1>6, <2>1
    DEF SrvReject, TypeOK, SlotHandoff, Serving, taskVars, SrvLabels
<1>7. CASE SrvAssign
  <2>1. i \in Tasks /\ socks[i] = NoFd
    BY <1>7 DEF SrvAssign, SlotHandoff
  <2>2. SockTypeOK'
    BY <1>7, <2>1, PassedTable DEF SrvAssign, TypeOK, SockTypeOK
  <2>3. TypeOK'
    BY <1>7, <2>1, <2>2 DEF SrvAssign, TypeOK, taskVars, SrvLabels
  <2>4. \A t \in Tasks : Serving(t)' => t # i
    BY <1>7, <2>1 DEF SrvAssign, SlotHandoff, Serving, taskVars
  <2>5. SlotHandoff'
    BY <1>7, <2>1, <2>4 DEF SrvAssign, TypeOK, SlotHandoff, Serving, taskVars
  <2> QED BY <2>3, <2>5
<1> QED BY <1>1, <1>2, <1>3, <1>4, <1>5, <1>6, <1>7 DEF SrvStep

\* The table a PASV or PORT leaves when it has asked for a socket.
LEMMA DataSocketTable ==
  ASSUME SockTypeOK, NEW t \in Tasks, NEW l, DataSocket(t, l)
  PROVE  SockTypeOK'
<1> DEFINE lost == Passed(sock, datafd[t], t, Orphan)
<1>1. lost \in Tables
  BY TaskOwners, LostTable DEF SockTypeOK
<1>2. CASE sock' = lost
  BY <1>1, <1>2 DEF SockTypeOK
<1>3. ASSUME NEW d \in Desc, sock' = Opened(lost, d, "fresh", t)
      PROVE  SockTypeOK'
  <2> HIDE DEF lost
  <2> QED BY <1>1, <1>3, TaskOwners, OpenedTable DEF SockTypeOK, Uses
<1> QED BY <1>2, <1>3 DEF DataSocket, FreeDesc

LEMMA TaskInv ==
  ASSUME Inv, NEW t \in Tasks, TaskStep(t)
  PROVE  Inv'
<1> USE DEF Inv, Fds, Goto
<1>1. CASE PickUp(t)
  <2>1. SockTypeOK'
    BY <1>1 DEF PickUp, TypeOK, SockTypeOK
  <2>2. TypeOK'
    BY <1>1, <2>1 DEF PickUp, TypeOK, srvVars, TaskLabels
  <2>3. SlotHandoff'
    BY <1>1 DEF PickUp, TypeOK, SlotHandoff, Serving, srvVars
  <2> QED BY <2>2, <2>3
<1>2. CASE Greet(t)
  <2>1. SockTypeOK'
    BY <1>2 DEF Greet, TypeOK, SockTypeOK
  <2>2. TypeOK'
    BY <1>2, <2>1 DEF Greet, TypeOK, srvVars, TaskLabels
  <2>3. SlotHandoff'
    BY <1>2 DEF Greet, TypeOK, SlotHandoff, Serving, srvVars
  <2> QED BY <2>2, <2>3
<1>3. CASE \E c \in Commands : RecvLine(t, c)
  <2>1. SockTypeOK'
    BY <1>3 DEF RecvLine, TypeOK, SockTypeOK
  <2>2. TypeOK'
    BY <1>3, <2>1 DEF RecvLine, Parsed, TypeOK, srvVars, TaskLabels
  <2>3. SlotHandoff'
    BY <1>3 DEF RecvLine, Parsed, TypeOK, SlotHandoff, Serving, srvVars
  <2> QED BY <2>2, <2>3
<1>4. CASE RecvZero(t)
  <2>1. SockTypeOK'
    BY <1>4 DEF RecvZero, TypeOK, SockTypeOK
  <2>2. TypeOK'
    BY <1>4, <2>1 DEF RecvZero, Parsed, TypeOK, srvVars, TaskLabels
  <2>3. SlotHandoff'
    BY <1>4 DEF RecvZero, Parsed, TypeOK, SlotHandoff, Serving, srvVars
  <2> QED BY <2>2, <2>3
<1>5. CASE RecvFails(t)
  <2>1. SockTypeOK'
    BY <1>5 DEF RecvFails, TypeOK, SockTypeOK
  <2>2. TypeOK'
    BY <1>5, <2>1 DEF RecvFails, TypeOK, srvVars, TaskLabels
  <2>3. SlotHandoff'
    BY <1>5 DEF RecvFails, TypeOK, SlotHandoff, Serving, srvVars
  <2> QED BY <2>2, <2>3
<1>6. CASE Drop(t)
  <2>1. SockTypeOK'
    BY <1>6, ShutTable DEF Drop, TypeOK, SockTypeOK
  <2>2. TypeOK'
    BY <1>6, <2>1 DEF Drop, TypeOK, srvVars, TaskLabels
  <2>3. SlotHandoff'
    BY <1>6 DEF Drop, TypeOK, SlotHandoff, Serving, srvVars
  <2> QED BY <2>2, <2>3
<1>7. CASE ReplyCmd(t)
  <2>1. SockTypeOK'
    BY <1>7 DEF ReplyCmd, TypeOK, SockTypeOK
  <2>2. TypeOK'
    BY <1>7, <2>1 DEF ReplyCmd, TypeOK, srvVars, TaskLabels, Exec
  <2>3. SlotHandoff'
    BY <1>7 DEF ReplyCmd, TypeOK, SlotHandoff, Serving, srvVars, Exec
  <2> QED BY <2>2, <2>3
<1>8. CASE QuitCmd(t)
  <2>1. SockTypeOK'
    BY <1>8 DEF QuitCmd, TypeOK, SockTypeOK
  <2>2. TypeOK'
    BY <1>8, <2>1 DEF QuitCmd, TypeOK, srvVars, TaskLabels, Exec
  <2>3. SlotHandoff'
    BY <1>8 DEF QuitCmd, TypeOK, SlotHandoff, Serving, srvVars, Exec
  <2> QED BY <2>2, <2>3
<1>9. CASE FileCmd(t)
  <2>1. SockTypeOK'
    BY <1>9, ShutTable DEF FileCmd, TypeOK, SockTypeOK
  <2>2. TypeOK'
    BY <1>9, <2>1 DEF FileCmd, TypeOK, srvVars, TaskLabels, Exec, Return
  <2>3. SlotHandoff'
    BY <1>9 DEF FileCmd, TypeOK, SlotHandoff, Serving, srvVars, Exec, Return
  <2> QED BY <2>2, <2>3
<1>10. CASE XferCmd(t)
  <2>1. SockTypeOK'
    BY <1>10, ShutTable DEF XferCmd, TypeOK, SockTypeOK
  <2>2. TypeOK'
    BY <1>10, <2>1 DEF XferCmd, TypeOK, srvVars, TaskLabels, Exec, Return
  <2>3. SlotHandoff'
    BY <1>10 DEF XferCmd, TypeOK, SlotHandoff, Serving, srvVars, Exec, Return
  <2> QED BY <2>2, <2>3
<1>11. CASE PasvCmd(t)
  <2>1. SockTypeOK'
    BY <1>11, DataSocketTable DEF PasvCmd, TypeOK, SockTypeOK
  <2>2. TypeOK'
    BY <1>11, <2>1 DEF PasvCmd, TypeOK, srvVars, TaskLabels, Exec, DataSocket, FreeDesc
  <2>3. SlotHandoff'
    BY <1>11 DEF PasvCmd, TypeOK, SlotHandoff, Serving, srvVars, Exec, DataSocket, FreeDesc
  <2> QED BY <2>2, <2>3
<1>12. CASE PasvListen(t)
  <2>1. SockTypeOK'
    BY <1>12, BecameTable DEF PasvListen, TypeOK, SockTypeOK, Use, Uses
  <2>2. TypeOK'
    BY <1>12, <2>1 DEF PasvListen, TypeOK, srvVars, TaskLabels
  <2>3. SlotHandoff'
    BY <1>12 DEF PasvListen, TypeOK, SlotHandoff, Serving, srvVars
  <2> QED BY <2>2, <2>3
<1>13. CASE PasvAccept(t)
  <2>1. SockTypeOK'
    BY <1>13, TaskOwners, OpenedTable DEF PasvAccept, TypeOK, SockTypeOK, FreeDesc, Uses
  <2>2. TypeOK'
    BY <1>13, <2>1 DEF PasvAccept, TypeOK, srvVars, TaskLabels, FreeDesc
  <2>3. SlotHandoff'
    BY <1>13 DEF PasvAccept, TypeOK, SlotHandoff, Serving, srvVars, FreeDesc
  <2> QED BY <2>2, <2>3
<1>14. CASE PasvFails(t)
  <2>1. SockTypeOK'
    BY <1>14, ShutTable DEF PasvFails, TypeOK, SockTypeOK
  <2>2. TypeOK'
    BY <1>14, <2>1 DEF PasvFails, TypeOK, srvVars, TaskLabels
  <2>3. SlotHandoff'
    BY <1>14 DEF PasvFails, TypeOK, SlotHandoff, Serving, srvVars
  <2> QED BY <2>2, <2>3
<1>15. CASE PasvClose(t)
  <2>1. SockTypeOK'
    BY <1>15, ShutTable DEF PasvClose, TypeOK, SockTypeOK
  <2>2. TypeOK'
    BY <1>15, <2>1 DEF PasvClose, TypeOK, srvVars, TaskLabels
  <2>3. SlotHandoff'
    BY <1>15 DEF PasvClose, TypeOK, SlotHandoff, Serving, srvVars
  <2> QED BY <2>2, <2>3
<1>16. CASE PortCmd(t)
  <2>1. SockTypeOK'
    BY <1>16, DataSocketTable DEF PortCmd, TypeOK, SockTypeOK
  <2>2. TypeOK'
    BY <1>16, <2>1 DEF PortCmd, TypeOK, srvVars, TaskLabels, Exec, DataSocket, FreeDesc
  <2>3. SlotHandoff'
    BY <1>16 DEF PortCmd, TypeOK, SlotHandoff, Serving, srvVars, Exec, DataSocket, FreeDesc
  <2> QED BY <2>2, <2>3
<1>17. CASE PortConnect(t)
  <2>1. SockTypeOK'
    BY <1>17, BecameTable DEF PortConnect, TypeOK, SockTypeOK, Use, Uses
  <2>2. TypeOK'
    BY <1>17, <2>1 DEF PortConnect, TypeOK, srvVars, TaskLabels
  <2>3. SlotHandoff'
    BY <1>17 DEF PortConnect, TypeOK, SlotHandoff, Serving, srvVars
  <2> QED BY <2>2, <2>3
<1>18. CASE PortFails(t)
  <2>1. SockTypeOK'
    BY <1>18, ShutTable DEF PortFails, TypeOK, SockTypeOK
  <2>2. TypeOK'
    BY <1>18, <2>1 DEF PortFails, TypeOK, srvVars, TaskLabels
  <2>3. SlotHandoff'
    BY <1>18 DEF PortFails, TypeOK, SlotHandoff, Serving, srvVars
  <2> QED BY <2>2, <2>3
<1>19. CASE FreeSlot(t)
  <2>1. SockTypeOK'
    BY <1>19 DEF FreeSlot, TypeOK, SockTypeOK
  <2>2. TypeOK'
    BY <1>19, <2>1 DEF FreeSlot, TypeOK, srvVars, TaskLabels
  <2>3. SlotHandoff'
    BY <1>19 DEF FreeSlot, TypeOK, SlotHandoff, Serving, srvVars
  <2> QED BY <2>2, <2>3
<1>20. CASE CloseConn(t)
  <2>1. SockTypeOK'
    BY <1>20, ShutTable DEF CloseConn, TypeOK, SockTypeOK
  <2>2. TypeOK'
    BY <1>20, <2>1 DEF CloseConn, TypeOK, srvVars, TaskLabels
  <2>3. SlotHandoff'
    BY <1>20 DEF CloseConn, TypeOK, SlotHandoff, Serving, srvVars
  <2> QED BY <2>2, <2>3
<1>21. CASE CloseData(t)
  <2>1. SockTypeOK'
    BY <1>21, ShutTable DEF CloseData, TypeOK, SockTypeOK
  <2>2. TypeOK'
    BY <1>21, <2>1 DEF CloseData, TypeOK, srvVars, TaskLabels
  <2>3. SlotHandoff'
    BY <1>21 DEF CloseData, TypeOK, SlotHandoff, Serving, srvVars
  <2> QED BY <2>2, <2>3
<1> QED BY <1>1, <1>2, <1>3, <1>4, <1>5, <1>6, <1>7, <1>8, <1>9, <1>10, <1>11, <1>12, <1>13, <1>14, <1>15, <1>16, <1>17, <1>18, <1>19, <1>20, <1>21 DEF TaskStep, TaskWork

LEMMA PeerInv == Inv /\ PeerStep => Inv'
<1> SUFFICES ASSUME Inv, PeerStep PROVE Inv'
  OBVIOUS
<1>1. SockTypeOK'
  BY BecameTable DEF Inv, TypeOK, SockTypeOK, PeerStep, PeerCloses, PeerResets, Uses
<1> QED BY <1>1
  DEF Inv, TypeOK, SlotHandoff, Serving, PeerStep, srvVars, taskVars

-----------------------------------------------------------------------------
(* Nothing else leaks.  Every step gives a task at most one new socket, in *)
(* a variable the task reaches it by, and a variable is only given another *)
(* value once its socket is closed, passed on or counted as lost.          *)

LEMMA InitHolds == Init => NothingElseLeaks
BY TaskOwners DEF Init, SockInit, Closed, NothingElseLeaks

LEMMA SrvHolds == Inv /\ NothingElseLeaks /\ SrvStep => NothingElseLeaks'
<1> SUFFICES ASSUME Inv, NothingElseLeaks, SrvStep PROVE NothingElseLeaks'
  OBVIOUS
<1> USE TaskOwners DEF NothingElseLeaks, ServerHolds, TaskHolds
<1>0. sock \in Tables
  BY DEF Inv, TypeOK, SockTypeOK
<1>1. CASE SrvSocket
  <2>1. PICK d \in Desc : listenfd' = d /\ sock' = Opened(sock, d, "fresh", Server)
    BY <1>1 DEF SrvSocket, FreeDesc
  <2>2. \A e \in Desc, p \in Owners :
          sock'[e].by = p => sock[e].by = p \/ (e = d /\ p = Server)
    BY <1>0, <2>1, OpenedTable DEF Uses
  <2> QED BY <1>1, <2>1, <2>2 DEF SrvSocket, taskVars
<1>2. CASE SrvBind
  BY <1>0, BecameTable, <1>2 DEF SrvBind, taskVars, Use, Uses
<1>3. CASE SrvListen
  BY <1>0, BecameTable, <1>3 DEF SrvListen, taskVars, Use, Uses
<1>4. CASE SrvAccept
  <2>1. PICK d \in Desc : newfd' = d /\ sock' = Opened(sock, d, "conn", Server)
    BY <1>4 DEF SrvAccept, FreeDesc
  <2>2. \A e \in Desc, p \in Owners :
          sock'[e].by = p => sock[e].by = p \/ (e = d /\ p = Server)
    BY <1>0, <2>1, OpenedTable DEF Uses
  <2> QED BY <1>4, <2>1, <2>2 DEF SrvAccept, taskVars
<1>5. CASE SrvScan
  BY <1>5 DEF SrvScan, taskVars
<1>6. CASE SrvReject
  <2>1. \A e \in Desc, p \in Owners :
          sock'[e].by = p => sock[e].by = p /\ ~(e = newfd /\ p = Server)
    BY <1>0, <1>6, LostTable DEF SrvReject
  <2> QED BY <1>6, <2>1 DEF SrvReject, taskVars
<1>7. CASE SrvAssign
  <2>1. i \in Tasks /\ socks[i] = NoFd
    BY <1>7 DEF SrvAssign, Inv, SlotHandoff
  <2>2. \A e \in Desc, p \in Owners :
          sock'[e].by = p =>
            \/ sock[e].by = p /\ ~(e = newfd /\ p = Server)
            \/ e = newfd /\ p = i
    BY <1>0, <1>7, <2>1, PassedTable DEF SrvAssign
  <2>3. socks' = [socks EXCEPT ![i] = newfd] /\ socks \in [Tasks -> Fds]
    BY <1>7 DEF SrvAssign, Inv, TypeOK
  <2> QED BY <1>7, <2>1, <2>2, <2>3, DescAssumption DEF SrvAssign, taskVars
<1> QED BY <1>1, <1>2, <1>3, <1>4, <1>5, <1>6, <1>7 DEF SrvStep

\* Asking for a data socket loses the one datafd named, if that is open.
LEMMA DataSocketOwners ==
  ASSUME SockTypeOK, NEW t \in Tasks, NEW l, DataSocket(t, l)
  PROVE  \A e \in Desc, p \in Owners : sock'[e].by = p =>
           \/ sock[e].by = p /\ ~(e = datafd[t] /\ p = t)
           \/ datafd' = [datafd EXCEPT ![t] = e] /\ p = t
<1> DEFINE lost == Passed(sock, datafd[t], t, Orphan)
<1>1. /\ lost \in Tables
      /\ \A e \in Desc, p \in Owners :
           lost[e].by = p => sock[e].by = p /\ ~(e = datafd[t] /\ p = t)
  BY TaskOwners, LostTable DEF SockTypeOK
<1>2. CASE sock' = lost
  BY <1>1, <1>2
<1>3. ASSUME NEW d \in Desc, sock' = Opened(lost, d, "fresh", t),
             datafd' = [datafd EXCEPT ![t] = d]
      PROVE  \A e \in Desc, p \in Owners : sock'[e].by = p =>
               \/ sock[e].by = p /\ ~(e = datafd[t] /\ p = t)
               \/ datafd' = [datafd EXCEPT ![t] = e] /\ p = t
  <2> HIDE DEF lost
  <2>1. \A e \in Desc, p \in Owners :
          sock'[e].by = p => lost[e].by = p \/ (e = d /\ p = t)
    BY <1>1, <1>3, TaskOwners, OpenedTable DEF Uses
  <2> QED BY <1>1, <1>3, <2>1
<1>4. \/ sock' = lost
      \/ \E d \in Desc : /\ sock' = Opened(lost, d, "fresh", t)
                         /\ datafd' = [datafd EXCEPT ![t] = d]
  BY DEF DataSocket, FreeDesc
<1> HIDE DEF lost
<1> QED BY <1>2, <1>3, <1>4

LEMMA TaskKeepsHolds ==
  ASSUME Inv, NothingElseLeaks, NEW t \in Tasks, TaskStep(t)
  PROVE  NothingElseLeaks'
<1> USE TaskOwners DEF NothingElseLeaks, ServerHolds, TaskHolds, Goto
<1>0. sock \in Tables
  BY DEF Inv, TypeOK, SockTypeOK
<1>1. CASE PickUp(t)
  BY <1>1 DEF PickUp, srvVars, Inv, TypeOK, SlotHandoff, Serving
<1>2. CASE Greet(t)
  BY <1>2 DEF Greet, srvVars, Inv, TypeOK, SlotHandoff, Serving
<1>3. CASE \E c \in Commands : RecvLine(t, c)
  BY <1>3 DEF RecvLine, Parsed, srvVars, Inv, TypeOK, SlotHandoff, Serving
<1>4. CASE RecvZero(t)
  BY <1>4 DEF RecvZero, Parsed, srvVars, Inv, TypeOK, SlotHandoff, Serving
<1>5. CASE RecvFails(t)
  BY <1>5 DEF RecvFails, srvVars, Inv, TypeOK, SlotHandoff, Serving
<1>6. CASE Drop(t)
  BY <1>0, ShutTable, <1>6 DEF Drop, srvVars, Inv, TypeOK
<1>7. CASE ReplyCmd(t)
  BY <1>7 DEF ReplyCmd, srvVars, Exec, Inv, TypeOK, SlotHandoff, Serving
<1>8. CASE QuitCmd(t)
  BY <1>8 DEF QuitCmd, srvVars, Exec, Inv, TypeOK, SlotHandoff, Serving
<1>9. CASE FileCmd(t)
  BY <1>0, ShutTable, <1>9 DEF FileCmd, srvVars, Exec, Return, Inv, TypeOK
<1>10. CASE XferCmd(t)
  BY <1>0, ShutTable, <1>10 DEF XferCmd, srvVars, Exec, Return, Inv, TypeOK
<1>11. CASE PasvCmd(t)
  BY <1>0, DataSocketOwners, <1>11 DEF PasvCmd, srvVars, Exec, Inv, TypeOK, SockTypeOK, DataSocket
<1>12. CASE PasvListen(t)
  BY <1>0, BecameTable, <1>12 DEF PasvListen, srvVars, Use, Uses
<1>13. CASE PasvAccept(t)
  <2>1. PICK d \in Desc : /\ transfd' = [transfd EXCEPT ![t] = d]
                          /\ sock' = Opened(sock, d, "conn", t)
    BY <1>13 DEF PasvAccept, FreeDesc
  <2>2. \A e \in Desc, p \in Owners :
          sock'[e].by = p => sock[e].by = p \/ (e = d /\ p = t)
    BY <1>0, <2>1, OpenedTable DEF Uses
  <2> QED BY <1>13, <2>1, <2>2 DEF PasvAccept, srvVars, Inv, TypeOK
<1>14. CASE PasvFails(t)
  BY <1>0, ShutTable, <1>14 DEF PasvFails, srvVars, Inv, TypeOK
<1>15. CASE PasvClose(t)
  BY <1>0, ShutTable, <1>15 DEF PasvClose, srvVars, Inv, TypeOK
<1>16. CASE PortCmd(t)
  BY <1>0, DataSocketOwners, <1>16 DEF PortCmd, srvVars, Exec, Inv, TypeOK, SockTypeOK, DataSocket
<1>17. CASE PortConnect(t)
  BY <1>0, BecameTable, <1>17 DEF PortConnect, srvVars, Use, Uses
<1>18. CASE PortFails(t)
  BY <1>0, ShutTable, <1>18 DEF PortFails, srvVars, Inv, TypeOK
<1>19. CASE FreeSlot(t)
  BY <1>19 DEF FreeSlot, srvVars, Inv, TypeOK, SlotHandoff, Serving
<1>20. CASE CloseConn(t)
  BY <1>0, ShutTable, <1>20 DEF CloseConn, srvVars, Inv, TypeOK
<1>21. CASE CloseData(t)
  BY <1>0, ShutTable, <1>21 DEF CloseData, srvVars, Inv, TypeOK
<1> QED BY <1>1, <1>2, <1>3, <1>4, <1>5, <1>6, <1>7, <1>8, <1>9, <1>10, <1>11, <1>12, <1>13, <1>14, <1>15, <1>16, <1>17, <1>18, <1>19, <1>20, <1>21 DEF TaskStep, TaskWork

LEMMA PeerKeepsHolds == Inv /\ NothingElseLeaks /\ PeerStep => NothingElseLeaks'
BY BecameTable
DEF Inv, TypeOK, SockTypeOK, PeerStep, PeerCloses, PeerResets, Uses,
    NothingElseLeaks, ServerHolds, TaskHolds, srvVars, taskVars

-----------------------------------------------------------------------------
\* TypeOK and SlotHandoff are an invariant of the server, its connection
\* tasks and the peers.
THEOREM SpecInv == Spec => []Inv
<1>1. Inv /\ [Next]_vars => Inv'
  <2> SUFFICES ASSUME Inv, [Next]_vars PROVE Inv'
    OBVIOUS
  <2>1. CASE SrvStep
    BY <2>1, SrvInv
  <2>2. ASSUME NEW t \in Tasks, TaskStep(t) PROVE Inv'
    BY <2>2, TaskInv
  <2>3. CASE PeerStep
    BY <2>3, PeerInv
  <2>4. CASE UNCHANGED vars
    BY <2>4 DEF vars, srvVars, taskVars, Inv, TypeOK, SockTypeOK, SlotHandoff, Serving
  <2> QED BY <2>1, <2>2, <2>3, <2>4 DEF Next
<1> QED BY <1>1, InitInv, PTL DEF Spec

\* SpecInv, for the property the runs check: the hand-off of clients through
\* socks loses and duplicates nothing.
THEOREM SlotHandoffThm == Spec => []SlotHandoff
<1>1. Inv => SlotHandoff
  BY DEF Inv
<1> QED BY <1>1, SpecInv, PTL

\* What is typed stays typed; the invariant of every other argument.
THEOREM TypeThm == Spec => []TypeOK
<1>1. Inv => TypeOK
  BY DEF Inv
<1> QED BY <1>1, SpecInv, PTL

\* However a session ends, and whatever its PASV and PORT commands met, it
\* closes all sockets but those a second PASV or PORT made it forget.
THEOREM NothingElseLeaksThm == Spec => []NothingElseLeaks
<1>1. Inv /\ NothingElseLeaks /\ [Next]_vars => NothingElseLeaks'
  <2> SUFFICES ASSUME Inv, NothingElseLeaks, [Next]_vars PROVE NothingElseLeaks'
    OBVIOUS
  <2>1. CASE SrvStep
    BY <2>1, SrvHolds
  <2>2. ASSUME NEW t \in Tasks, TaskStep(t) PROVE NothingElseLeaks'
    BY <2>2, TaskKeepsHolds
  <2>3. CASE PeerStep
    BY <2>3, PeerKeepsHolds
  <2>4. CASE UNCHANGED vars
    BY <2>4 DEF vars, srvVars, taskVars, NothingElseLeaks, ServerHolds, TaskHolds
  <2> QED BY <2>1, <2>2, <2>3, <2>4 DEF Next
<1> QED BY <1>1, InitHolds, SpecInv, PTL DEF Spec

-----------------------------------------------------------------------------
(* The mouse task.                                                         *)

\* HidNoLeak is inductive with the types: HidHolds says of every label what
\* the task can still reach.
MouseInv == HidTypeOK /\ HidNoLeak

LEMMA HidKeeps ==
  ASSUME MouseInv, HidStep
  PROVE  /\ MouseInv' /\ sock' \in Tables
         /\ \A e \in Desc, p \in Owners : sock'[e].by = p => sock[e].by = p \/ p = Hid
<1> USE HidAssumption, OwnerAssumption DEF MouseInv, HidGoto, HidLabels, HasSocket
<1>0. sock \in Tables
  BY DEF HidTypeOK, SockTypeOK
<1>1. CASE HidSocket
  <2>1. /\ sock' \in Tables
        /\ \A e \in Desc, p \in Owners : sock'[e].by = p =>
              sock[e].by = p \/ (e = fd' /\ p = Hid)
    BY <1>0, <1>1, OpenedTable DEF HidSocket, FreeDesc, Uses
  <2>2. HidTypeOK'
    BY <1>0, <1>1, <2>1 DEF HidSocket, FreeDesc, HidTypeOK, SockTypeOK
  <2>3. HidNoLeak'
    BY <1>1, <2>1 DEF HidSocket, HidTypeOK, HidNoLeak, HidHolds
  <2> QED BY <2>1, <2>2, <2>3
<1>2. CASE HidBind \/ HidListen
  <2>1. /\ sock' \in Tables
        /\ \A e \in Desc, p \in Owners : sock'[e].by = p => sock[e].by = p
    BY <1>0, <1>2, BecameTable DEF HidBind, HidListen, Use, Uses
  <2>2. HidTypeOK'
    BY <1>0, <1>2, <2>1 DEF HidBind, HidListen, HidTypeOK, SockTypeOK
  <2>3. HidNoLeak'
    BY <1>2, <2>1
    DEF HidBind, HidListen, HidTypeOK, HidNoLeak, HidHolds
  <2> QED BY <2>1, <2>2, <2>3
<1>3. CASE HidAccept
  <2>1. /\ sock' \in Tables
        /\ \A e \in Desc, p \in Owners : sock'[e].by = p =>
              sock[e].by = p \/ (e = tempfd' /\ p = Hid)
    BY <1>0, <1>3, OpenedTable DEF HidAccept, FreeDesc, Uses
  <2>2. HidTypeOK'
    BY <1>0, <1>3, <2>1 DEF HidAccept, FreeDesc, HidTypeOK, SockTypeOK
  <2>3. HidNoLeak'
    BY <1>3, <2>1 DEF HidAccept, HidTypeOK, HidNoLeak, HidHolds
  <2> QED BY <2>1, <2>2, <2>3
<1>4. CASE HidCloseListen \/ HidDrop \/ HidClose
  <2>1. /\ sock' \in Tables
        /\ \A e \in Desc, p \in Owners : sock'[e].by = p => sock[e].by = p /\ e # fd
    BY <1>0, <1>4, ShutTable DEF HidCloseListen, HidDrop, HidClose
  <2>2. HidTypeOK'
    BY <1>0, <1>4, <2>1
    DEF HidCloseListen, HidDrop, HidClose, HidTypeOK, SockTypeOK
  <2>3. HidNoLeak'
    BY <1>4, <2>1, DescAssumption
    DEF HidCloseListen, HidDrop, HidClose, HidTypeOK, HidNoLeak,
        HidHolds
  <2> QED BY <2>1, <2>2, <2>3
<1>5. CASE HidSockopt \/ HidTest \/ HidRecv \/ HidSensor \/ HidSend
  <2>1. /\ sock' \in Tables
        /\ \A e \in Desc, p \in Owners : sock'[e].by = p => sock[e].by = p
    BY <1>0, <1>5 DEF HidSockopt, HidTest, HidRecv, HidSensor, HidSend
  <2>2. HidTypeOK'
    BY <1>0, <1>5, <2>1
    DEF HidSockopt, HidTest, HidRecv, HidSensor, HidSend, HidTypeOK,
        SockTypeOK, CanRecv, RecvIsZero, Use
  <2>3. HidNoLeak'
    BY <1>5, <2>1
    DEF HidSockopt, HidTest, HidRecv, HidSensor, HidSend, HidTypeOK,
        HidNoLeak, HidHolds
  <2> QED BY <2>1, <2>2, <2>3
<1> QED BY <1>1, <1>2, <1>3, <1>4, <1>5 DEF HidStep

LEMMA MouseInitInv == SockInit /\ HidInit => MouseInv
<1> SUFFICES ASSUME SockInit, HidInit PROVE MouseInv
  OBVIOUS
<1>1. sock \in Tables
  BY DEF SockInit, Tables, Sockets, Closed, Uses
<1>2. HidTypeOK
  BY <1>1 DEF HidInit, HidTypeOK, SockTypeOK, HidLabels, HasSocket
<1>3. HidNoLeak
  BY HidAssumption, OwnerAssumption DEF SockInit, HidNoLeak, Closed
<1> QED BY <1>2, <1>3 DEF MouseInv

\* A step of the others that makes no socket of the mouse's.
LEMMA MouseStays ==
  ASSUME MouseInv, UNCHANGED hidVars, sock' \in Tables,
         \A e \in Desc : sock'[e].by = Hid => sock[e].by = Hid
  PROVE  MouseInv'
BY DEF MouseInv, HidTypeOK, SockTypeOK, HidNoLeak, HidHolds, hidVars

LEMMA PeersOwnNothing ==
  ASSUME sock \in Tables, NEW d \in Desc, PeerCloses(d) \/ PeerResets(d)
  PROVE  sock' \in Tables /\ \A e \in Desc : sock'[e].by = sock[e].by
BY BecameTable DEF PeerCloses, PeerResets, Uses

LEMMA MousePeers ==
  ASSUME MouseInv, NEW d \in Desc, PeerCloses(d) \/ PeerResets(d), UNCHANGED hidVars
  PROVE  MouseInv'
<1>1. sock \in Tables
  BY DEF MouseInv, HidTypeOK, SockTypeOK
<1> QED BY <1>1, PeersOwnNothing, MouseStays

LEMMA MouseSpecInv == MouseSpec => []MouseInv
<1>1. MouseInit => MouseInv
  BY MouseInitInv DEF MouseInit
<1>2. MouseInv /\ [MouseNext]_mouseVars => MouseInv'
  <2> SUFFICES ASSUME MouseInv, [MouseNext]_mouseVars PROVE MouseInv'
    OBVIOUS
  <2>1. CASE HidStep
    BY <2>1, HidKeeps
  <2>2. CASE (\E d \in Desc : PeerCloses(d) \/ PeerResets(d)) /\ UNCHANGED hidVars
    BY <2>2, MousePeers
  <2>3. CASE UNCHANGED mouseVars
    BY <2>3, MouseStays
    DEF mouseVars, MouseInv, HidTypeOK, SockTypeOK
  <2> QED BY <2>1, <2>2, <2>3 DEF MouseNext
<1> QED BY <1>1, <1>2, PTL DEF MouseSpec

\* The types of the mouse task and of the table of descriptors.
THEOREM MouseTypeThm == MouseSpec => []HidTypeOK
<1>1. MouseInv => HidTypeOK
  BY DEF MouseInv
<1> QED BY <1>1, MouseSpecInv, PTL

\* The mouse loses no socket, whatever calls fail and whatever its peer does.
THEOREM HidNoLeakThm == MouseSpec => []HidNoLeak
<1>1. MouseInv => HidNoLeak
  BY DEF MouseInv
<1> QED BY <1>1, MouseSpecInv, PTL

-----------------------------------------------------------------------------
(* Both programs.                                                          *)

\* The FTP server opens sockets for its own tasks only.
LEMMA FtpOwnsOnly ==
  ASSUME Inv, SrvStep \/ (\E t \in Tasks : TaskStep(t))
  PROVE  \A e \in Desc : sock'[e].by = Hid => sock[e].by = Hid
<1> USE TaskOwners, HidApart, HidAssumption
<1>0. sock \in Tables /\ SockTypeOK
  BY DEF Inv, TypeOK, SockTypeOK
<1>1. CASE SrvStep
  <2>1. CASE SrvSocket \/ SrvAccept
    BY <1>0, <2>1, OpenedTable DEF SrvSocket, SrvAccept, FreeDesc, Uses
  <2>2. CASE SrvBind \/ SrvListen
    BY <1>0, <2>2, BecameTable DEF SrvBind, SrvListen, Use, Uses
  <2>3. CASE SrvScan
    BY <2>3 DEF SrvScan
  <2>4. CASE SrvReject
    BY <1>0, <2>4, LostTable DEF SrvReject
  <2>5. CASE SrvAssign
    <3>1. i \in Tasks
      BY <2>5 DEF SrvAssign, Inv, SlotHandoff
    <3> QED BY <1>0, <2>5, <3>1, PassedTable DEF SrvAssign
  <2> QED BY <1>1, <2>1, <2>2, <2>3, <2>4, <2>5 DEF SrvStep
<1>2. ASSUME NEW t \in Tasks, TaskStep(t)
      PROVE  \A e \in Desc : sock'[e].by = Hid => sock[e].by = Hid
  <2>1. CASE \/ PickUp(t) \/ Greet(t) \/ (\E c \in Commands : RecvLine(t, c)) \/ RecvZero(t)
             \/ RecvFails(t) \/ ReplyCmd(t) \/ QuitCmd(t) \/ FreeSlot(t)
    BY <2>1 DEF PickUp, Greet, RecvLine, RecvZero, RecvFails, ReplyCmd, QuitCmd, FreeSlot
  <2>2. CASE \/ Drop(t) \/ FileCmd(t) \/ XferCmd(t) \/ PasvFails(t) \/ PasvClose(t)
             \/ PortFails(t) \/ CloseConn(t) \/ CloseData(t)
    BY <1>0, <2>2, ShutTable
    DEF Drop, FileCmd, XferCmd, PasvFails, PasvClose, PortFails, CloseConn, CloseData
  <2>3. CASE PasvCmd(t) \/ PortCmd(t)
    BY <1>0, <2>3, DataSocketOwners DEF PasvCmd, PortCmd
  <2>4. CASE PasvListen(t) \/ PortConnect(t)
    BY <1>0, <2>4, BecameTable DEF PasvListen, PortConnect, Use, Uses
  <2>5. CASE PasvAccept(t)
    BY <1>0, <2>5, OpenedTable DEF PasvAccept, FreeDesc, Uses
  <2> QED BY <1>2, <2>1, <2>2, <2>3, <2>4, <2>5 DEF TaskStep, TaskWork
<1> QED BY <1>1, <1>2

\* A step of the others that makes no socket of the FTP server's.
LEMMA FtpStays ==
  ASSUME Inv, NothingElseLeaks, UNCHANGED ftpVars, sock' \in Tables,
         \A e \in Desc, p \in Tasks \cup {Server} : sock'[e].by = p => sock[e].by = p
  PROVE  Inv' /\ NothingElseLeaks'
<1>1. Inv'
  BY DEF Inv, TypeOK, SockTypeOK, SlotHandoff, Serving, ftpVars, srvVars, taskVars
<1>2. NothingElseLeaks'
  BY DEF NothingElseLeaks, ServerHolds, TaskHolds, ftpVars, srvVars, taskVars
<1> QED BY <1>1, <1>2

AirInv == Inv /\ NothingElseLeaks /\ MouseInv

LEMMA AirStep == AirInv /\ [AirNext]_airVars => AirInv'
<1> SUFFICES ASSUME AirInv, [AirNext]_airVars PROVE AirInv'
  OBVIOUS
<1> USE TaskOwners, HidApart, HidAssumption DEF AirInv
<1>0. sock \in Tables
  BY DEF Inv, TypeOK, SockTypeOK
<1>1. CASE FtpStep
  <2>1. Inv' /\ NothingElseLeaks'
    BY <1>1, SrvInv, SrvHolds, TaskInv, TaskKeepsHolds DEF FtpStep
  <2>2. sock' \in Tables
    BY <2>1 DEF Inv, TypeOK, SockTypeOK
  <2> QED BY <1>1, <2>1, <2>2, FtpOwnsOnly, MouseStays DEF FtpStep
<1>2. CASE MouseStep
  <2>1. /\ MouseInv' /\ sock' \in Tables
        /\ \A e \in Desc, p \in Owners : sock'[e].by = p => sock[e].by = p \/ p = Hid
    BY <1>2, HidKeeps DEF MouseStep
  <2>2. \A p \in Tasks \cup {Server} : p \in Owners /\ p # Hid
    OBVIOUS
  <2> QED BY <1>2, <2>1, <2>2, FtpStays DEF MouseStep
<1>3. CASE AnyPeerStep
  <2>1. PICK d \in Desc : PeerCloses(d) \/ PeerResets(d)
    BY <1>3 DEF AnyPeerStep, PeerStep
  <2>2. sock' \in Tables /\ \A e \in Desc : sock'[e].by = sock[e].by
    BY <1>0, <2>1, PeersOwnNothing
  <2>3. MouseInv'
    BY <1>3, <2>2, MouseStays DEF AnyPeerStep
  <2> QED BY <1>3, <2>2, <2>3, FtpStays DEF AnyPeerStep, PeerStep, ftpVars
<1>4. CASE LinkRestarts
  <2>1. sock' \in Tables /\ \A e \in Desc : sock'[e].by = Orphan
    BY <1>4 DEF LinkRestarts, Restarted, Closed, Tables, Sockets, Uses
  <2>2. MouseInv'
    BY <1>4, <2>1, MouseStays, OwnerAssumption DEF LinkRestarts
  <2> QED BY <1>4, <2>1, <2>2, FtpStays DEF LinkRestarts
<1>5. CASE UNCHANGED airVars
  <2>1. MouseInv'
    BY <1>0, <1>5, MouseStays DEF airVars
  <2> QED BY <1>0, <1>5, <2>1, FtpStays DEF airVars
<1> QED BY <1>1, <1>2, <1>3, <1>4, <1>5 DEF AirNext

LEMMA AirSpecInv == AirSpec => []AirInv
<1>1. AirInit => AirInv
  BY InitInv, InitHolds, MouseInitInv DEF AirInit, Init, AirInv
<1> QED BY <1>1, AirStep, PTL DEF AirSpec

\* Both programs keep their types on the one table.
THEOREM AirTypeThm == AirSpec => []AirTypeOK
<1>1. AirInv => AirTypeOK
  BY DEF AirInv, Inv, MouseInv, AirTypeOK
<1> QED BY <1>1, AirSpecInv, PTL

\* No use of its descriptors by the mouse and no restart of the network
\* processor lets a task serve a client its slot does not name, or lets the
\* server fill a slot that is taken.
THEOREM AirSlotHandoffThm == AirSpec => []AirSlotHandoff
<1>1. AirInv => AirSlotHandoff
  BY DEF AirInv, Inv, AirSlotHandoff
<1> QED BY <1>1, AirSpecInv, PTL

\* Whatever the programs do to each other's sockets, each still reaches all
\* that is open in its name, but for what the FTP server forgets by itself.
THEOREM AirLeaksNoMoreThm == AirSpec => []AirLeaksNoMore
<1>1. AirInv => AirLeaksNoMore
  BY DEF AirInv, MouseInv, AirLeaksNoMore
<1> QED BY <1>1, AirSpecInv, PTL
=============================================================================
