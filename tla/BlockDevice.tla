----------------------------- MODULE BlockDevice -----------------------------
(***************************************************************************)
(* What ff.c expects of disk_read() and disk_write(): one request at a     *)
(* time; a write puts the data into sectors it was given, into no other,   *)
(* all of them when it returns RES_OK; a read that returns RES_OK has what *)
(* is stored.  A medium is attached once and is the same until a reset.    *)
(***************************************************************************)
EXTENDS Integers

CONSTANTS
  Sectors,    \* sectors of the medium: 0 .. n
  Values      \* what a sector may hold

Junk   == "junk"
NoReq  == [op |-> "none", sector |-> 0, count |-> 0, value |-> Junk]
Span(r) == r.sector .. r.sector + r.count - 1

VARIABLES attached, store, req, ret, buff

vars == <<attached, store, req, ret, buff>>

Init ==
  /\ attached = FALSE /\ store \in [Sectors -> Values]
  /\ req = NoReq /\ ret = "none" /\ buff = <<>>

\* A medium is found when there was none, or it is lost with a reset.
Attach ==
  /\ ~attached /\ attached' = TRUE
  /\ store' \in [Sectors -> Values]
  /\ UNCHANGED <<req, ret, buff>>

Reset ==
  /\ attached' = FALSE /\ store' \in [Sectors -> Values]
  /\ req' = NoReq /\ ret' = "none" /\ buff' = <<>>

Ask ==
  /\ req = NoReq
  /\ \E op \in {"read", "write"}, first, last \in Sectors, v \in Values \cup {Junk} :
       /\ first <= last
       /\ req' = [op |-> op, sector |-> first, count |-> last - first + 1, value |-> v]
  /\ ret' = "none" /\ buff' = <<>>
  /\ UNCHANGED <<attached, store>>

Put ==
  /\ req.op = "write"
  /\ \E s \in Span(req) : store' = [store EXCEPT ![s] = req.value]
  /\ UNCHANGED <<attached, req, ret, buff>>

Done ==
  /\ attached
  /\ req.op = "write" => \A s \in Span(req) : store[s] = req.value
  /\ req # NoReq /\ req' = NoReq /\ ret' = "ok"
  /\ buff' = IF req.op = "read" THEN [i \in 1 .. req.count |-> store[req.sector + i - 1]]
             ELSE <<>>
  /\ UNCHANGED <<attached, store>>

Fail ==
  /\ req # NoReq /\ req' = NoReq /\ ret' = "error" /\ buff' = <<>>
  /\ UNCHANGED <<attached, store>>

Next == Attach \/ Reset \/ Ask \/ Put \/ Done \/ Fail

Spec == Init /\ [][Next]_vars
=============================================================================
