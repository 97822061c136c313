------------------------------- MODULE FtpServer -------------------------------
(***************************************************************************)
(* ftp/ftp_server.c: the task that listens at port 21 and hands each       *)
(* client to one of MAX_NUM_TASKS connection tasks through the array       *)
(* socks, and the connection tasks with the sockets they open and close.   *)
(* All tasks have the same priority and are time sliced, so every access   *)
(* to socks and every socket call is a step of its own.                    *)
(*                                                                         *)
(* A command is the class of commands that treat the sockets alike:        *)
(*   reply  USER PASS PWD CWD TYPE SYST NOOP and anything invalid          *)
(*   quit   QUIT                 file  DELE RNFR RNTO MKD RMD              *)
(*   xfer   RETR STOR LIST       pasv  PASV          port  PORT            *)
(* What they do to the volume is left to the storage model.  vTaskDelay is *)
(* a scheduling point, as is every step boundary here.  A socket(), bind() *)
(* or listen() of the server that fails is retried: a stuttering step.  A  *)
(* local that the code assigns before it reads it again is reset.          *)
(*                                                                         *)
(* Two things of the parser can be seen here.  A line without an argument  *)
(* makes arg NULL, which most handlers dereference; and a recv() of 0 runs *)
(* the last line again, without its argument (147-153: strtok has put a    *)
(* NUL after the verb), after a 0 was written to recvline[-2].  That byte  *)
(* is of a text or an upper byte of another local of ftpConnTask, and no   *)
(* descriptor tells: it is a small number, or negative and remains so.     *)
(***************************************************************************)
EXTENDS Integers, SlSockets

CONSTANTS
  MAX_NUM_TASKS,   \* connection tasks (ftp_server.h:53)
  Commands,        \* the classes of commands that clients send
  Server           \* the listening task, as an owner of sockets

Tasks == 0 .. MAX_NUM_TASKS - 1

ASSUME TasksAssumption ==
  /\ MAX_NUM_TASKS \in Nat
  /\ Tasks \cup {Server} \subseteq Owners
  /\ Server \notin Tasks

ASSUME CommandsAssumption ==
  Commands \subseteq {"reply", "quit", "file", "xfer", "pasv", "port"}

VARIABLES
  spc, listenfd, newfd, i,            \* ftpServerTask (newfd is its connfd)
  socks,                              \* shared: the socket given to task t
  pc, connfd, datafd, transfd,        \* ftpConnTask, one per t \in Tasks
  isConnOpen, line

srvVars  == <<spc, listenfd, newfd, i>>
taskVars == <<pc, connfd, datafd, transfd, isConnOpen, line>>
vars == <<sock, socks, srvVars, taskVars>>

SrvLabels  == {"socket", "bind", "listen", "accept", "scan", "assign"}
TaskLabels == {"idle", "greet", "cmd", "exec", "pasv", "pasvAccept", "pasvClose",
               "port", "drop", "end", "closeConn", "closeData", "fault"}

Fds == Desc \cup {NoFd}

TypeOK ==
  /\ SockTypeOK
  /\ spc \in SrvLabels
  /\ listenfd \in Fds /\ newfd \in Fds
  /\ i \in 0 .. MAX_NUM_TASKS
  /\ socks \in [Tasks -> Fds]
  /\ pc \in [Tasks -> TaskLabels]
  /\ connfd \in [Tasks -> Fds]
  /\ datafd \in [Tasks -> Fds]
  /\ transfd \in [Tasks -> Fds]
  /\ isConnOpen \in [Tasks -> BOOLEAN]
  /\ line \in [Tasks -> Commands]

\* recvline is an uninitialised local: it may hold any text at first.
Init ==
  /\ SockInit
  /\ spc = "socket" /\ listenfd = NoFd /\ newfd = NoFd /\ i = 0
  /\ socks = [t \in Tasks |-> NoFd]
  /\ pc = [t \in Tasks |-> "idle"]
  /\ connfd = [t \in Tasks |-> NoFd]
  /\ datafd = [t \in Tasks |-> NoFd]
  /\ transfd = [t \in Tasks |-> NoFd]
  /\ isConnOpen = [t \in Tasks |-> FALSE]
  /\ line \in [Tasks -> Commands]

-----------------------------------------------------------------------------
(* ftpServerTask                                                           *)

SrvSocket ==
  /\ spc = "socket" /\ spc' = "bind"
  /\ \E d \in FreeDesc :
       listenfd' = d /\ sock' = Opened(sock, d, "fresh", Server)
  /\ UNCHANGED <<newfd, i, socks, taskVars>>

SrvBind ==
  /\ spc = "bind" /\ spc' = "listen"
  /\ Use(listenfd) = "fresh" /\ sock' = Became(sock, listenfd, "bound")
  /\ UNCHANGED <<listenfd, newfd, i, socks, taskVars>>

SrvListen ==
  /\ spc = "listen" /\ spc' = "accept"
  /\ Use(listenfd) = "bound" /\ sock' = Became(sock, listenfd, "listen")
  /\ UNCHANGED <<listenfd, newfd, i, socks, taskVars>>

\* An accept() that fails is tried again.
SrvAccept ==
  /\ spc = "accept" /\ spc' = "scan"
  /\ Use(listenfd) = "listen"
  /\ \E d \in FreeDesc :
       newfd' = d /\ sock' = Opened(sock, d, "conn", Server)
  /\ i' = 0
  /\ UNCHANGED <<listenfd, socks, taskVars>>

\* Mutated form of SrvScan: the first slot is taken, busy or not.
ScanWithoutLook ==
  /\ spc = "scan" /\ i < MAX_NUM_TASKS /\ spc' = "assign"
  /\ UNCHANGED <<sock, listenfd, newfd, i, socks, taskVars>>

\* Mutated form of SrvScan: the end of the array is not looked for.
ScanPastEnd ==
  /\ spc = "scan"
  /\ IF i = MAX_NUM_TASKS THEN i' = i + 1 /\ spc' = spc
     ELSE IF socks[i] # NoFd THEN i' = i + 1 /\ spc' = spc
     ELSE i' = i /\ spc' = "assign"
  /\ UNCHANGED <<sock, listenfd, newfd, socks, taskVars>>

\* One round of `while(socks[i] && i < MAX_NUM_TASKS) i++`.
SrvScan ==
  /\ spc = "scan" /\ i < MAX_NUM_TASKS
  /\ IF socks[i] # NoFd THEN i' = i + 1 /\ spc' = spc
                        ELSE i' = i /\ spc' = "assign"
  /\ UNCHANGED <<sock, listenfd, newfd, socks, taskVars>>

\* Every task is busy: 421 is sent, and connfd is forgotten.
SrvReject ==
  /\ spc = "scan" /\ i = MAX_NUM_TASKS /\ spc' = "accept"
  /\ sock' = Passed(sock, newfd, Server, Orphan)
  /\ i' = 0
  /\ UNCHANGED <<listenfd, newfd, socks, taskVars>>

SrvAssign ==
  /\ spc = "assign" /\ spc' = "accept"
  /\ socks' = [socks EXCEPT ![i] = newfd]
  /\ sock' = Passed(sock, newfd, Server, i)
  /\ i' = 0 /\ newfd' = NoFd
  /\ UNCHANGED <<listenfd, taskVars>>

SrvStep == \/ SrvSocket \/ SrvBind \/ SrvListen
           \/ SrvAccept \/ SrvScan \/ SrvReject \/ SrvAssign

-----------------------------------------------------------------------------
(* ftpConnTask                                                             *)

Goto(t, l) == pc' = [pc EXCEPT ![t] = l]

\* A command handler that returns non-zero sets done.
Return(t) == Goto(t, "cmd") \/ Goto(t, "end")

PickUp(t) ==
  /\ pc[t] = "idle" /\ Goto(t, "greet")
  /\ socks[t] # NoFd
  /\ connfd' = [connfd EXCEPT ![t] = socks[t]]
  /\ datafd' = [datafd EXCEPT ![t] = NoFd]
  /\ isConnOpen' = [isConnOpen EXCEPT ![t] = FALSE]
  /\ UNCHANGED <<sock, socks, srvVars, transfd, line>>

\* setsockopt() and the 220 greeting; either failing sets done.
Greet(t) ==
  /\ pc[t] = "greet"
  /\ \/ CanSend(connfd[t]) /\ Goto(t, "cmd")
     \/ Goto(t, "end")
  /\ UNCHANGED <<sock, socks, srvVars, connfd, datafd, transfd, isConnOpen, line>>

\* The handlers of a class that follow arg, which is NULL for a bare verb; so
\* does strcmp() when there is no verb either, a line counted as "reply".
UsesArg(c) == c \notin {"quit", "pasv"}

\* What is read at address 0 is taken for the argument and the handler goes
\* on; or the access is a hard fault, and FaultISR stops the board.
Parsed(t, c) == Goto(t, "exec") \/ (UsesArg(c) /\ Goto(t, "fault"))

RecvLine(t, c) ==
  /\ pc[t] = "cmd" /\ Parsed(t, c)
  /\ CanRecv(connfd[t])
  /\ line' = [line EXCEPT ![t] = c]
  /\ UNCHANGED <<sock, socks, srvVars, connfd, datafd, transfd, isConnOpen>>

\* recv() returned 0: the verb of the last command is run once more.
RecvZero(t) ==
  /\ pc[t] = "cmd" /\ Parsed(t, line[t])
  /\ RecvIsZero(connfd[t])
  /\ UNCHANGED <<sock, socks, srvVars, connfd, datafd, transfd, isConnOpen, line>>

\* Mutated form of RecvFails: recv() is tried again after a timeout.
RecvTimeoutRetried(t) ==
  /\ pc[t] = "cmd" /\ ~CanRecv(connfd[t]) /\ Goto(t, "drop")
  /\ UNCHANGED <<sock, socks, srvVars, connfd, datafd, transfd, isConnOpen, line>>

\* EAGAIN after CONN_SOCK_TIMEOUT leaves the loop, any other error drops.
RecvFails(t) ==
  /\ pc[t] = "cmd"
  /\ \/ CanRecv(connfd[t]) /\ Goto(t, "end")
     \/ Goto(t, "drop")
  /\ UNCHANGED <<sock, socks, srvVars, connfd, datafd, transfd, isConnOpen, line>>

\* Mutated form of Drop: the slot is given back with the session still on.
DropFreesSlot(t) ==
  /\ pc[t] = "drop" /\ Goto(t, "end")
  /\ sock' = Shut(sock, connfd[t])
  /\ socks' = [socks EXCEPT ![t] = NoFd]
  /\ UNCHANGED <<srvVars, connfd, datafd, transfd, isConnOpen, line>>

Drop(t) ==
  /\ pc[t] = "drop" /\ Goto(t, "end")
  /\ sock' = Shut(sock, connfd[t])
  /\ UNCHANGED <<socks, srvVars, connfd, datafd, transfd, isConnOpen, line>>

Exec(t, c) == pc[t] = "exec" /\ line[t] = c

ReplyCmd(t) ==
  /\ Exec(t, "reply")
  /\ \/ CanSend(connfd[t]) /\ Goto(t, "cmd")
     \/ Goto(t, "end")
  /\ UNCHANGED <<sock, socks, srvVars, connfd, datafd, transfd, isConnOpen, line>>

QuitCmd(t) ==
  /\ Exec(t, "quit") /\ Goto(t, "end")
  /\ UNCHANGED <<sock, socks, srvVars, connfd, datafd, transfd, isConnOpen, line>>

\* DELE, RNFR, RNTO, MKD and RMD also close datafd, whatever it is.
FileCmd(t) ==
  /\ Exec(t, "file") /\ Return(t)
  /\ sock' = Shut(sock, datafd[t])
  /\ UNCHANGED <<socks, srvVars, connfd, datafd, transfd, isConnOpen, line>>

\* With FTP_AUTH_BYPASS the transfer is tried whether isConnOpen or not.
XferCmd(t) ==
  /\ Exec(t, "xfer") /\ Return(t)
  /\ isConnOpen' = [isConnOpen EXCEPT ![t] = FALSE]
  /\ sock' = Shut(sock, datafd[t])
  /\ UNCHANGED <<socks, srvVars, connfd, datafd, transfd, line>>

\* socket() of PASV and PORT overwrites datafd, open or not.
DataSocket(t, l) ==
  \/ \E d \in FreeDesc :
       /\ datafd' = [datafd EXCEPT ![t] = d]
       /\ sock' = Opened(Passed(sock, datafd[t], t, Orphan), d, "fresh", t)
       /\ Goto(t, l)
  \/ /\ datafd' = [datafd EXCEPT ![t] = NoFd]
     /\ sock' = Passed(sock, datafd[t], t, Orphan)
     /\ Goto(t, "end")

PasvCmd(t) ==
  /\ Exec(t, "pasv") /\ DataSocket(t, "pasv")
  /\ UNCHANGED <<socks, srvVars, connfd, transfd, isConnOpen, line>>

\* setsockopt, the port scan, listen, the 227 reply and SO_NONBLOCKING.
PasvListen(t) ==
  /\ pc[t] = "pasv" /\ Goto(t, "pasvAccept")
  /\ Use(datafd[t]) = "fresh" /\ sock' = Became(sock, datafd[t], "listen")
  /\ UNCHANGED <<socks, srvVars, connfd, datafd, transfd, isConnOpen, line>>

PasvAccept(t) ==
  /\ pc[t] = "pasvAccept" /\ Goto(t, "pasvClose")
  /\ Use(datafd[t]) = "listen"
  /\ \E d \in FreeDesc :
       /\ transfd' = [transfd EXCEPT ![t] = d]
       /\ sock' = Opened(sock, d, "conn", t)
  /\ UNCHANGED <<socks, srvVars, connfd, datafd, isConnOpen, line>>

\* Any of them failed, or accept() did PASV_TRY_TIMES times.
PasvFails(t) ==
  /\ pc[t] \in {"pasv", "pasvAccept"} /\ Goto(t, "end")
  /\ sock' = Shut(sock, datafd[t])
  /\ UNCHANGED <<socks, srvVars, connfd, datafd, transfd, isConnOpen, line>>

\* transfd is a local of ftpProcessPasv and is gone when it returns.
PasvClose(t) ==
  /\ pc[t] = "pasvClose" /\ Goto(t, "cmd")
  /\ sock' = Shut(sock, datafd[t])
  /\ datafd' = [datafd EXCEPT ![t] = transfd[t]]
  /\ transfd' = [transfd EXCEPT ![t] = NoFd]
  /\ isConnOpen' = [isConnOpen EXCEPT ![t] = TRUE]
  /\ UNCHANGED <<socks, srvVars, connfd, line>>

\* A 200 reply that cannot be sent ends the session before the socket.
PortCmd(t) ==
  /\ Exec(t, "port")
  /\ \/ CanSend(connfd[t]) /\ DataSocket(t, "port")
     \/ Goto(t, "end") /\ UNCHANGED <<sock, datafd>>
  /\ UNCHANGED <<socks, srvVars, connfd, transfd, isConnOpen, line>>

PortConnect(t) ==
  /\ pc[t] = "port" /\ Goto(t, "cmd")
  /\ Use(datafd[t]) = "fresh" /\ sock' = Became(sock, datafd[t], "conn")
  /\ isConnOpen' = [isConnOpen EXCEPT ![t] = TRUE]
  /\ UNCHANGED <<socks, srvVars, connfd, datafd, transfd, line>>

\* Without a free port the socket is left to the end of the session.
PortFails(t) ==
  /\ pc[t] = "port" /\ Goto(t, "end")
  /\ sock' = Shut(sock, datafd[t]) \/ sock' = sock
  /\ UNCHANGED <<socks, srvVars, connfd, datafd, transfd, isConnOpen, line>>

FreeSlot(t) ==
  /\ pc[t] = "end" /\ Goto(t, "closeConn")
  /\ socks' = [socks EXCEPT ![t] = NoFd]
  /\ UNCHANGED <<sock, srvVars, connfd, datafd, transfd, isConnOpen, line>>

CloseConn(t) ==
  /\ pc[t] = "closeConn" /\ Goto(t, "closeData")
  /\ sock' = Shut(sock, connfd[t])
  /\ connfd' = [connfd EXCEPT ![t] = NoFd]
  /\ UNCHANGED <<socks, srvVars, datafd, transfd, isConnOpen, line>>

\* Mutated form of CloseData: isConnOpen is asked whether there is one.
CloseDataIfOpen(t) ==
  /\ pc[t] = "closeData" /\ Goto(t, "idle")
  /\ sock' = IF isConnOpen[t] THEN Shut(sock, datafd[t]) ELSE sock
  /\ datafd' = [datafd EXCEPT ![t] = NoFd]
  /\ isConnOpen' = [isConnOpen EXCEPT ![t] = FALSE]
  /\ UNCHANGED <<socks, srvVars, connfd, transfd, line>>

CloseData(t) ==
  /\ pc[t] = "closeData" /\ Goto(t, "idle")
  /\ sock' = Shut(sock, datafd[t])
  /\ datafd' = [datafd EXCEPT ![t] = NoFd]
  /\ isConnOpen' = [isConnOpen EXCEPT ![t] = FALSE]
  /\ UNCHANGED <<socks, srvVars, connfd, transfd, line>>

TaskWork(t) ==
  \/ PickUp(t) \/ Greet(t)
  \/ RecvZero(t) \/ RecvFails(t) \/ Drop(t)
  \/ ReplyCmd(t) \/ QuitCmd(t) \/ FileCmd(t) \/ XferCmd(t)
  \/ PasvCmd(t) \/ PasvListen(t) \/ PasvAccept(t) \/ PasvFails(t) \/ PasvClose(t)
  \/ PortCmd(t) \/ PortConnect(t) \/ PortFails(t)
  \/ FreeSlot(t) \/ CloseConn(t) \/ CloseData(t)

TaskStep(t) == TaskWork(t) \/ \E c \in Commands : RecvLine(t, c)

PeerStep ==
  /\ \E d \in Desc : PeerCloses(d) \/ PeerResets(d)
  /\ UNCHANGED <<socks, srvVars, taskVars>>

\* startup_ccs.c:226-237: interrupts and tasks are at an end.
Faulted == \E t \in Tasks : pc[t] = "fault"

Next == ~Faulted /\ (SrvStep \/ (\E t \in Tasks : TaskStep(t)) \/ PeerStep)

Spec == Init /\ [][Next]_vars

(***************************************************************************)
(* Scheduling.  The kernel runs every ready task of a priority in turn,    *)
(* so a task goes on unless a call does not return.  recv() on connfd has  *)
(* a timeout, PASV polls accept() PASV_TRY_TIMES times.  send() has none:  *)
(* it waits as long as a client that takes no data keeps the connection;   *)
(* and the SD driver can wait for ever (DiskIo).  No step of a task in     *)
(* such a call is fair, and no step of a client or of the server.          *)
(***************************************************************************)
Waits(t) == pc[t] \in {"greet", "exec", "pasv"}

Fairness == \A t \in Tasks : WF_vars(TaskWork(t) /\ ~Waits(t))

FairSpec == Spec /\ Fairness

-----------------------------------------------------------------------------
(* What the listening task and the connection tasks promise each other.    *)

\* The task is between picking its client up and giving the slot back.
Serving(t) == pc[t] \notin {"idle", "closeConn", "closeData"}

\* The hand-off through socks (ftp_server.c:11, 73-81, 117, 325) loses and
\* duplicates nothing: while a task serves a client its slot names that
\* client's socket, and the slot the server is about to fill is free, though
\* the server looked at it in an earlier step.
SlotHandoff ==
  /\ \A t \in Tasks : Serving(t) => socks[t] = connfd[t] /\ socks[t] # NoFd
  /\ spc = "assign" => i \in Tasks /\ socks[i] = NoFd

\* The descriptors a task can still reach, and will close.
TaskHolds(t) ==
  {socks[t]} \cup
  (IF pc[t] \notin {"idle", "closeData"} THEN {connfd[t]} ELSE {}) \cup
  (IF pc[t] # "idle" THEN {datafd[t]} ELSE {}) \cup
  (IF pc[t] = "pasvClose" THEN {transfd[t]} ELSE {})

ServerHolds ==
  (IF spc # "socket" THEN {listenfd} ELSE {}) \cup
  (IF spc \in {"scan", "assign"} THEN {newfd} ELSE {})

\* No exit of a session or of a PASV or PORT handler drops an open socket:
\* all that is ever lost is a client turned away with 421 and a data socket
\* that a second PASV or PORT overwrites.  In particular a task that waits
\* for work has no open socket.
NothingElseLeaks ==
  /\ \A t \in Tasks : \A d \in Desc : sock[d].by = t => d \in TaskHolds(t)
  /\ \A d \in Desc : sock[d].by = Server => d \in ServerHolds

\* When clients have fallen silent, every connection task is free again and
\* again, whatever transfer, PASV or PORT the last command left behind
\* (ftp_server.c:124-146, 676): only a call without a limit can keep it from
\* that, a client that has closed its end and resets nothing, so that recv()
\* returns 0 and the last verb is run for ever (147-153), or a fault.
SilentClientsFreeTasks ==
  <>[][\A t \in Tasks, c \in Commands : ~RecvLine(t, c)]_vars
    => \A t \in Tasks :
         \/ []<>(pc[t] = "idle")
         \/ <>[]Waits(t)
         \/ <>[](Use(connfd[t]) = "fin")
         \/ <>Faulted

-----------------------------------------------------------------------------
(* What the comments of the code promise and the code does not keep.       *)

\* ftp_server.h:150-151: clients are handled separately.  The connection of a
\* client a task has just picked up is not closed by the end of the session
\* before, for its socket has only this task to close it.
ClientsSeparate == \A t \in Tasks : pc[t] = "greet" => sock[connfd[t]].by = t
=============================================================================
