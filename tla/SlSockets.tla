------------------------------- MODULE SlSockets -------------------------------
(***************************************************************************)
(* The socket descriptors of the SimpleLink network processor, as the      *)
(* tasks of AirMouse use them.  The library is not in the repository: this *)
(* module says what its callers in ftp/ftp_server.c and hid/hid.c observe. *)
(*                                                                         *)
(* There is ONE table of descriptors for all tasks, and a descriptor that  *)
(* was closed may be returned by the next socket() or accept() of any      *)
(* task.  "by" is a history component: the task that has to close the      *)
(* socket, or Orphan once no variable of any task leads to it.             *)
(***************************************************************************)
CONSTANTS
  Desc,      \* the descriptors the network processor can hand out
  NoFd,      \* a negative descriptor, and the 0 that marks a free slot
  Owners,    \* the tasks that open sockets
  Orphan     \* nobody

\* Descriptors are positive: both `socks[i] == 0` and `datafd > 0` rely on it.
ASSUME DescAssumption  == NoFd \notin Desc
ASSUME OwnerAssumption == Orphan \notin Owners

VARIABLE sock    \* the table: what each descriptor is, and whose

Uses == {"free", "fresh", "bound", "listen", "conn", "fin", "reset"}

Sockets == [use : Uses, by : Owners \cup {Orphan}]

Closed == [use |-> "free", by |-> Orphan]

\* A descriptor nobody has open is nobody's.
Tables == {tab \in [Desc -> Sockets] :
             \A d \in Desc : tab[d].use = "free" => tab[d].by = Orphan}

SockTypeOK == sock \in Tables

SockInit == sock = [d \in Desc |-> Closed]

-----------------------------------------------------------------------------
(* What a call on a descriptor can see.                                    *)

Use(fd) == IF fd \in Desc THEN sock[fd].use ELSE "free"

FreeDesc == {d \in Desc : sock[d].use = "free"}

\* recv() can return data, or time out; at the peer's FIN it returns 0.
CanRecv(fd)    == Use(fd) = "conn"
RecvIsZero(fd) == Use(fd) = "fin"

\* send() can succeed; it can fail on any socket at any time.
CanSend(fd) == Use(fd) \in {"conn", "fin"}

-----------------------------------------------------------------------------
(* The table after a call.                                                 *)

\* socket() and accept() of task o returned the free descriptor d
Opened(tab, d, u, o) == [tab EXCEPT ![d] = [use |-> u, by |-> o]]

\* bind(), listen() and connect() succeeded
Became(tab, d, u) == [tab EXCEPT ![d].use = u]

\* close(fd): of whatever socket fd is now, no matter who opened it
Shut(tab, fd) == IF fd \in Desc THEN [tab EXCEPT ![fd] = Closed] ELSE tab

\* the variable of task o that held fd is passed to p, or overwritten
Passed(tab, fd, o, p) ==
  IF fd \in Desc /\ tab[fd].by = o THEN [tab EXCEPT ![fd].by = p] ELSE tab

\* sl_Stop, and later sl_Start: every socket of every task is gone
Restarted == [d \in Desc |-> Closed]

-----------------------------------------------------------------------------
(* What the peers do to connections.                                       *)

PeerCloses(d) == sock[d].use = "conn" /\ sock' = Became(sock, d, "fin")

\* A peer that is gone answers the next segment with a reset.
PeerResets(d) ==
  sock[d].use \in {"conn", "fin"} /\ sock' = Became(sock, d, "reset")
=============================================================================
