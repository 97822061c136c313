---------------------------- MODULE DiskIoProofs ----------------------------
(* Proofs about DiskIo.                                                    *)
EXTENDS DiskIo, TLAPS

Early == {"goIdle", "ifCond", "opCond", "opCond1", "mmcCond"}
Answered == {"ready", "ident", "stby", "tran", "xfer"}
InData == {"data", "stop", "hung"}

\* bStatus is 0 from the answer to ACMD41 on; before, nothing is known of the
\* card and its class.
StatusInv ==
  /\ pc \in Early => g_sDisk.bStatus = "noinit"
  /\ pc \notin Early \cup {"mount"} => g_sDisk.bStatus = "ok"
  /\ g_sDisk.bStatus = "noinit" => g_sDisk.ulCapClass = "sdsc" /\ ~fs_type
  /\ home # NoCard => g_sDisk.bStatus = "ok" /\ pc \notin Ident
  /\ pc = "ready" => fs_type

\* What the driver knows of the card that answers it.
CardInv ==
  /\ pc = "ifCond" => cstate = "idle"
  /\ pc \in {"opCond", "opCond1", "mmcCond"} => cstate \in {"idle", "cond", "ready"}
  /\ cstate # "idle" => slot \in Cards
  /\ cstate \in {"tran", "xfer"} =>
       \/ home # NoCard /\ slot = home
       \/ g_sDisk.bStatus = "noinit" /\ pc \in {"mount", "goIdle"}
  /\ cstate \in Answered /\ g_sDisk.bStatus = "ok" =>
       (g_sDisk.ulCapClass = "sdhc" <=> Kind[slot] = "sdhc")

\* The request under way.
ReqInv ==
  /\ pc \notin InData \cup {"blkCnt", "command"} => req = NoReq
  /\ pc \in InData \cup {"blkCnt", "command"} => req # NoReq /\ ret = "none"
  /\ req.op = "write" => fs_type /\ req.value \in Values
  /\ pc \notin InData => done = 0
  /\ pc \in {"blkCnt", "command"} => buff = <<>>

\* What has been transferred of it.
DataInv ==
  pc \in InData =>
    /\ home # NoCard /\ done <= req.count /\ (pc = "data" \/ done = req.count)
    /\ req.op = "read" =>
         /\ Len(buff) = done
         /\ \A k \in 1 .. done : buff[k] = mem[home][req.sector + k - 1]
    /\ req.op = "write" =>
         /\ buff = <<>>
         /\ \A k \in 1 .. done : mem[home][req.sector + k - 1] = req.value

IInv == TypeOK /\ StatusInv /\ CardInv /\ ReqInv /\ DataInv

LEMMA InitInv == Init => IInv
<1> SUFFICES ASSUME Init PROVE IInv
  OBVIOUS
<1>1. mem \in [Cards -> [Sectors -> Values]]
  BY DEF Init
<1>2. buff \in Seq(Values) /\ Len(buff) = 0
  BY DEF Init
<1>3. TypeOK
  <2>1. /\ slot = NoCard /\ cstate = "idle" /\ g_sDisk = NoDisk /\ fs_type = FALSE
        /\ pc = "mount" /\ req = NoReq /\ ret = "none" /\ done = 0
        /\ home = NoCard /\ troubles = 0 /\ swaps = 0
    BY DEF Init
  <2>2. g_sDisk \in [ulCapClass : {"sdsc", "sdhc"}, bStatus : {"noinit", "ok"},
                     usRCA : {"none", "right", "wrong"}]
    BY <2>1 DEF NoDisk
  <2>3. Len(buff) <= MAX_COUNT /\ 0 \in 0 .. MAX_COUNT
    BY <1>2, DiskAssumption
  <2>4. 0 \in 0 .. MAX_TROUBLES /\ 0 \in 0 .. MAX_SWAPS
    BY DiskAssumption
  <2> QED
    BY <1>1, <1>2, <2>1, <2>2, <2>3, <2>4 DEF TypeOK, CardStates
<1>4. StatusInv
  BY DEF Init, StatusInv, NoDisk, Early
<1>5. CardInv
  BY DEF Init, CardInv, Answered
<1>6. ReqInv /\ DataInv
  BY DEF Init, ReqInv, DataInv, NoReq, InData
<1> QED
  BY <1>3, <1>4, <1>5, <1>6 DEF IInv

LEMMA IdentifyInv == IInv /\ Identify => IInv'
<1> SUFFICES ASSUME IInv, Identify PROVE IInv'
  OBVIOUS
<1> USE DiskAssumption DEF IInv, TypeOK, StatusInv, CardInv, ReqInv, DataInv, NoDisk, NoReq,
     Early, Answered, InData, CardStates, Ident, Junk, Sectors, Others, Becomes, NoAnswer, Answers, Trouble,
     Goto, card, SdIn, SdCards
<1>1. CASE Mount
  BY <1>1 DEF Mount
<1>2. CASE GoIdle
  BY <1>2 DEF GoIdle
<1>3. CASE IfCond
  BY <1>3 DEF IfCond
<1>4. CASE OpCond
  <2> DEFINE sees == SdIn /\ cstate \in {"idle", "cond"}
             gets == sees /\ (Kind[slot] # "sdhc" \/ cstate = "cond")
  <2>1. CASE /\ NoAnswer(sees, IF gets THEN "ready" ELSE cstate)
             /\ Goto("opCond") /\ UNCHANGED g_sDisk
    BY <1>4, <2>1 DEF OpCond
  <2>2. CASE /\ Answers(gets) /\ Goto("cid") /\ Becomes("ready")
             /\ g_sDisk' = [g_sDisk EXCEPT !.bStatus = "ok",
                              !.ulCapClass = IF Kind[slot] = "sdhc" THEN "sdhc" ELSE @]
    <3>1. /\ g_sDisk'.bStatus = "ok" /\ g_sDisk'.usRCA = g_sDisk.usRCA
          /\ g_sDisk'.ulCapClass = IF Kind[slot] = "sdhc" THEN "sdhc" ELSE g_sDisk.ulCapClass
          /\ g_sDisk' \in [ulCapClass : {"sdsc", "sdhc"}, bStatus : {"noinit", "ok"},
                            usRCA : {"none", "right", "wrong"}]
      BY <2>2
    <3>2. TypeOK' /\ StatusInv' /\ ReqInv' /\ DataInv'
      BY <1>4, <2>2, <3>1 DEF OpCond
    <3>3. CardInv'
      BY <1>4, <2>2, <3>1 DEF OpCond
    <3> QED
      BY <3>2, <3>3
  <2> QED
    BY <1>4, <2>1, <2>2 DEF OpCond
<1>5. CASE OpCond1
  BY <1>5 DEF OpCond1
<1>6. CASE MmcCond
  BY <1>6 DEF MmcCond
<1>7. CASE AllSendCid
  BY <1>7 DEF AllSendCid
<1>8. CASE SendRelAddr
  BY <1>8 DEF SendRelAddr
<1>9. CASE CardSelect
  BY <1>9 DEF CardSelect
<1> QED
  BY <1>1, <1>2, <1>3, <1>4, <1>5, <1>6, <1>7, <1>8, <1>9 DEF Identify

\* A card that answers takes an argument for the sector that was meant.
LEMMA SectorMeant ==
  IInv /\ pc = "data" /\ cstate = "xfer" =>
    slot = home /\ Meant(slot, Argument(req.sector)) = req.sector
<1> SUFFICES ASSUME IInv, pc = "data", cstate = "xfer"
             PROVE  slot = home /\ Meant(slot, Argument(req.sector)) = req.sector
  OBVIOUS
<1>1. slot = home /\ g_sDisk.bStatus = "ok"
  BY DEF IInv, StatusInv, CardInv, Early
<1>2. req.sector \in Nat /\ g_sDisk.ulCapClass \in {"sdsc", "sdhc"}
  BY DiskAssumption DEF IInv, TypeOK, ReqInv, Sectors, NoReq
<1>3. g_sDisk.ulCapClass = "sdhc" <=> Kind[slot] = "sdhc"
  BY <1>1 DEF IInv, CardInv, Answered
<1> QED
  BY <1>1, <1>2, <1>3 DEF Meant, Argument, DISKIO_SECTOR_SIZE

LEMMA TransferInv == IInv /\ (Transfer \/ Request) => IInv'
<1> SUFFICES ASSUME IInv, Transfer \/ Request PROVE IInv'
  OBVIOUS
<1> USE DiskAssumption DEF IInv, TypeOK, StatusInv, CardInv, ReqInv, DataInv, NoReq,
     Early, Answered, InData, CardStates, Ident, Junk, NoAnswer, Answers, Trouble, Goto, card, Span
<1>1. CASE Boot
  BY <1>1 DEF Boot, Sectors
<1>2. CASE BlockCount
  BY <1>2 DEF BlockCount
<1>6. CASE Command
  BY <1>6 DEF Command, Returns, Becomes
<1>7. CASE StopTrans
  BY <1>7 DEF StopTrans, Transferred, Becomes
<1>3. CASE Data
  <2> DEFINE at == Meant(slot, Argument(req.sector)) + done
  <2>1. /\ slot \in Cards /\ slot = home /\ pc = "data" /\ pc' = "data" /\ cstate' \in {"tran", "xfer"}
        /\ done < req.count /\ done' = done + 1 /\ done \in Nat /\ home' = home /\ req' = req
        /\ req.op \in {"read", "write"} /\ req.sector \in Nat /\ req.count \in 1 .. MAX_COUNT
    BY <1>3 DEF Data, Sectors
  <2>2. at = req.sector + done
    BY <1>3, <2>1, SectorMeant DEF Data, Sectors
  <2>3. CASE req.op = "read"
    <3>1. /\ buff' = Append(buff, mem[home][at]) /\ mem' = mem
          /\ buff \in Seq(Values) /\ Len(buff) = done /\ at \in Sectors
          /\ mem[home][at] \in Values
      BY <1>3, <2>1, <2>3 DEF Data
    <3>2. /\ buff' \in Seq(Values) /\ Len(buff') = done + 1
          /\ \A k \in 1 .. done : buff'[k] = buff[k]
          /\ buff'[done + 1] = mem[home][at]
      BY <2>1, <3>1
    <3>3. DataInv'
      BY <1>3, <2>1, <2>2, <2>3, <3>1, <3>2
    <3>4. TypeOK'
      BY <1>3, <2>1, <3>1, <3>2 DEF Data
    <3> QED
      BY <1>3, <2>1, <3>1, <3>3, <3>4 DEF Data
  <2>4. CASE req.op = "write"
    <3>1. /\ mem' = [mem EXCEPT ![home][at] = req.value] /\ buff' = buff
          /\ at \in Sectors /\ req.value \in Values
      BY <1>3, <2>1, <2>4 DEF Data
    <3>2. /\ home \in Cards /\ mem'[home][at] = req.value
          /\ \A t \in Sectors : t # at => mem'[home][t] = mem[home][t]
      BY <2>1, <3>1
    <3>3. \A k \in 1 .. done : mem'[home][req.sector + k - 1] = req.value
      <4> TAKE k \in 1 .. done
      <4>1. req.sector + k - 1 \in Sectors /\ mem[home][req.sector + k - 1] = req.value
        BY <2>1, <2>2, <2>4, <3>1 DEF Sectors
      <4> QED
        BY <2>1, <2>2, <3>2, <4>1
    <3>4. \A k \in 1 .. done + 1 : mem'[home][req.sector + k - 1] = req.value
      <4> TAKE k \in 1 .. done + 1
      <4>1. k \in 1 .. done \/ k = done + 1
        BY <2>1
      <4> QED
        BY <2>1, <2>2, <3>2, <3>3, <4>1
    <3>5. DataInv'
      BY <2>1, <2>4, <3>1, <3>4
    <3>6. TypeOK'
      BY <1>3, <2>1, <2>4, <3>1 DEF Data
    <3> QED
      BY <1>3, <2>1, <2>4, <3>1, <3>5, <3>6 DEF Data
  <2> QED
    BY <2>1, <2>3, <2>4
<1>4. CASE Complete
  BY <1>4 DEF Complete, Transferred, Returns
<1>5. CASE Request
  <2>1. /\ pc = "ready" /\ fs_type /\ g_sDisk.bStatus = "ok"
        /\ pc' \in {"blkCnt", "command"}
        /\ ret' = "none" /\ buff' = <<>> /\ done = 0
        /\ UNCHANGED <<card, g_sDisk, fs_type, done, home, troubles, swaps>>
    BY <1>5 DEF Request, Begins
  <2>2. buff' \in Seq(Values) /\ Len(buff') = 0
    BY <2>1
  <2>3. PICK s \in Sectors, n \in 1 .. MAX_COUNT :
          /\ s + n - 1 \in Sectors
          /\ \/ req' = [op |-> "read", sector |-> s, count |-> n, value |-> Junk]
             \/ \E v \in Values :
                  req' = [op |-> "write", sector |-> s, count |-> n, value |-> v]
    BY <1>5 DEF Request
  <2>4. /\ req' \in [op : {"read", "write"}, sector : Sectors, count : 1 .. MAX_COUNT,
                      value : Values \cup {Junk}]
        /\ req'.sector = s /\ req'.count = n
    BY <2>3
  <2>5. Span(req)' \subseteq Sectors
    BY <2>3, <2>4 DEF Sectors
  <2>6. TypeOK'
    BY <2>1, <2>2, <2>4, <2>5
  <2>7. req' # NoReq /\ (req'.op = "write" => req'.value \in Values)
    BY <2>3
  <2> QED
    BY <2>1, <2>2, <2>6, <2>7
<1> QED
  BY <1>1, <1>2, <1>3, <1>4, <1>5, <1>6, <1>7 DEF Transfer

LEMMA ResetTyped == IInv /\ Reset => TypeOK'
<1> SUFFICES ASSUME IInv, Reset PROVE TypeOK'
  OBVIOUS
<1>1. /\ g_sDisk' \in [ulCapClass : {"sdsc", "sdhc"}, bStatus : {"noinit", "ok"},
                       usRCA : {"none", "right", "wrong"}]
      /\ fs_type' \in BOOLEAN /\ pc' = "mount" /\ req' = NoReq /\ ret' = "none"
      /\ home' \in Cards \cup {NoCard}
  BY DEF Reset, NoDisk, Goto
<1>2. buff' \in Seq(Values) /\ Len(buff') = 0 /\ done' = 0
  BY DEF Reset
<1>3. /\ slot' \in Cards \cup {NoCard}
      /\ cstate' \in CardStates
      /\ mem' \in [Cards -> [Sectors -> Values]]
  BY DEF Reset, card, IInv, TypeOK
<1>4. troubles' \in 0 .. MAX_TROUBLES /\ swaps' \in 0 .. MAX_SWAPS
  BY DiskAssumption DEF Reset, Trouble, IInv, TypeOK
<1>5. Len(buff') <= MAX_COUNT /\ done' \in 0 .. MAX_COUNT
  BY <1>2, DiskAssumption
<1> QED
  BY <1>1, <1>2, <1>3, <1>4, <1>5 DEF TypeOK

LEMMA OtherInv == IInv /\ (Insert \/ Remove \/ Reset \/ UNCHANGED vars) => IInv'
<1> SUFFICES ASSUME IInv, Insert \/ Remove \/ Reset \/ UNCHANGED vars PROVE IInv'
  OBVIOUS
<1> USE DiskAssumption DEF IInv, TypeOK, StatusInv, CardInv, ReqInv, DataInv, NoReq, NoDisk,
     Early, Answered, InData, CardStates, Ident, Junk, Trouble, Goto, card, Span
<1>1. CASE Insert
  BY <1>1 DEF Insert
<1>2. CASE Remove
  BY <1>2 DEF Remove
<1>3. CASE Reset
  BY <1>3, ResetTyped DEF Reset
<1>4. CASE UNCHANGED vars
  BY <1>4 DEF vars
<1> QED
  BY <1>1, <1>2, <1>3, <1>4

LEMMA NextInv == IInv /\ [Next]_vars => IInv'
  BY IdentifyInv, TransferInv, OtherInv DEF Next

\* The inductive invariant of driver and card: what bStatus, the registers of the
\* controller and the card's state say of each other.
THEOREM Invariant == Spec => []IInv
<1> QED
  BY InitInv, NextInv, PTL DEF Spec

\* Every variable of the driver and the card keeps to its type.
THEOREM Typed == Spec => []TypeOK
<1>1. IInv => TypeOK
  BY DEF IInv
<1> QED
  BY <1>1, Invariant, PTL

\* Whatever cards are put in and out, and whatever fails, only the card the
\* volume was mounted from is written to.
THEOREM OnlyHomeIsWritten == Spec => OtherCardsUntouched
<1>1. IInv /\ [Next]_vars => [\A c \in Cards : mem'[c] # mem[c] => c = home /\ fs_type]_vars
  <2> SUFFICES ASSUME IInv, Next,
                      NEW c \in Cards, mem'[c] # mem[c]
               PROVE  c = home /\ fs_type
    OBVIOUS
  <2>1. CASE Data
    <3>1. /\ pc = "data" /\ cstate = "xfer" /\ req.op # "read" /\ slot = home
      BY <2>1, SectorMeant DEF Data
    <3>2. req.op = "write"
      BY <3>1 DEF IInv, TypeOK, ReqInv, InData
    <3>3. mem' = [mem EXCEPT ![slot][Meant(slot, Argument(req.sector)) + done] = req.value]
      BY <2>1, <3>1 DEF Data
    <3> QED
      BY <3>1, <3>2, <3>3 DEF IInv, TypeOK, ReqInv
  <2>2. CASE ~Data
    BY <2>2 DEF Next, Identify, Transfer, Mount, GoIdle, IfCond, OpCond, OpCond1, MmcCond,
       AllSendCid, SendRelAddr, CardSelect, Boot, BlockCount, Command, StopTrans, Complete,
       Request, Insert, Remove, Reset, Becomes, NoAnswer, card
  <2> QED
    BY <2>1, <2>2
<1> QED
  BY <1>1, Invariant, PTL DEF Spec, OtherCardsUntouched

-----------------------------------------------------------------------------
(* DiskIo implements BlockDevice.                                          *)

\* The card whose sectors the abstract device has, and its buffer.
Medium == IF home = NoCard THEN CHOOSE c \in Cards : TRUE ELSE home
Store  == mem[Medium]
Got    == IF ret = "ok" THEN buff ELSE <<>>

LEMMA MediumIsCard == IInv => Medium \in Cards /\ Store \in [Sectors -> Values]
  BY DiskAssumption DEF IInv, TypeOK, Medium, Store

LEMMA InitRefines == Init => Device!Init
<1> SUFFICES ASSUME Init PROVE Device!Init
  OBVIOUS
<1>1. Store \in [Sectors -> Values]
  BY InitInv, MediumIsCard
<1> QED
  BY <1>1 DEF Init, Device!Init, Store, Medium, NoReq, Junk, Device!NoReq, Device!Junk

\* A step that neither transfers nor answers a request.
LEMMA Quiet ==
  ASSUME UNCHANGED <<mem, home, req, ret>>, buff' = buff \/ ret # "ok"
  PROVE  UNCHANGED Device!vars
  BY DEF Device!vars

LEMMA IdentifyRefines == IInv /\ IInv' /\ Identify => [Device!Next]_(Device!vars)
<1> SUFFICES ASSUME IInv, IInv', Identify PROVE [Device!Next]_(Device!vars)
  OBVIOUS
<1>1. CASE CardSelect /\ home' # home
  <2>1. /\ home = NoCard /\ home' # NoCard /\ UNCHANGED <<mem, req, ret, buff>>
    BY <1>1 DEF CardSelect, Answers, Becomes, NoAnswer, card, IInv, TypeOK
  <2>2. Store' \in [Sectors -> Values]
    BY DiskAssumption DEF IInv, TypeOK, Medium, Store
  <2>3. Device!Attach
    BY <2>1, <2>2 DEF Device!Attach, Store, Medium
  <2> QED
    BY <2>3 DEF Device!Next
<1>2. CASE ~(CardSelect /\ home' # home)
  <2>1. UNCHANGED <<mem, home, req, ret, buff>>
    BY <1>2 DEF Identify, Mount, GoIdle, IfCond, OpCond, OpCond1, MmcCond, AllSendCid,
       SendRelAddr, CardSelect, Others, Becomes, NoAnswer, card
  <2> QED
    BY <2>1, Quiet
<1> QED
  BY <1>1, <1>2

LEMMA RequestRefines == IInv /\ (Boot \/ Request) => Device!Ask
<1> SUFFICES ASSUME IInv, Boot \/ Request PROVE Device!Ask
  OBVIOUS
<1>1. /\ req = NoReq /\ ret' = "none" /\ buff' = <<>>
      /\ UNCHANGED <<mem, home>>
  BY DEF IInv, ReqInv, InData, Boot, Request, card
<1>2. \E s \in Sectors, n \in 1 .. MAX_COUNT, op \in {"read", "write"}, v \in Values \cup {Junk} :
        /\ s + n - 1 \in Sectors
        /\ req' = [op |-> op, sector |-> s, count |-> n, value |-> v]
  <2>1. CASE Boot
    <3>1. 0 \in Sectors /\ 1 \in 1 .. MAX_COUNT /\ 0 + 1 - 1 \in Sectors
      BY DiskAssumption DEF Sectors
    <3> QED
      BY <2>1, <3>1 DEF Boot
  <2>2. CASE Request
    BY <2>2 DEF Request
  <2> QED
    BY <2>1, <2>2
<1>3. PICK s \in Sectors, n \in 1 .. MAX_COUNT, op \in {"read", "write"}, v \in Values \cup {Junk} :
        /\ s + n - 1 \in Sectors
        /\ req' = [op |-> op, sector |-> s, count |-> n, value |-> v]
  BY <1>2
<1>4. s <= s + n - 1 /\ (s + n - 1) - s + 1 = n
  BY <1>3 DEF Sectors
<1>5. \E op2 \in {"read", "write"}, first, last \in Sectors, v2 \in Values \cup {Device!Junk} :
        /\ first <= last
        /\ req' = [op |-> op2, sector |-> first, count |-> last - first + 1, value |-> v2]
  BY <1>3, <1>4 DEF Device!Junk, Junk
<1> QED
  BY <1>1, <1>5 DEF Device!Ask, Device!NoReq, NoReq, Device!Junk, Junk

LEMMA CommandRefines == IInv /\ Command => [Device!Next]_(Device!vars)
<1> SUFFICES ASSUME IInv, Command PROVE [Device!Next]_(Device!vars)
  OBVIOUS
<1>1. pc = "command" /\ req # NoReq /\ ret = "none" /\ UNCHANGED <<mem, home, buff>>
  BY DEF Command, Becomes, NoAnswer, IInv, ReqInv
<1>2. CASE UNCHANGED <<fs_type, req, ret>>
  BY <1>1, <1>2, Quiet
<1>3. CASE Returns("error")
  BY <1>1, <1>3 DEF Returns, Device!Next, Device!Fail, Device!NoReq, Device!Junk, NoReq, Junk
<1> QED
  BY <1>2, <1>3 DEF Command

LEMMA DataRefines == IInv /\ Data => [Device!Next]_(Device!vars)
<1> SUFFICES ASSUME IInv, Data PROVE [Device!Next]_(Device!vars)
  OBVIOUS
<1>1. /\ pc = "data" /\ ret = "none" /\ slot = home /\ home \in Cards /\ Medium = home
      /\ Meant(slot, Argument(req.sector)) = req.sector
      /\ UNCHANGED <<home, req, ret>>
  BY SectorMeant, DiskAssumption DEF Data, IInv, TypeOK, ReqInv, DataInv, InData, Medium
<1>2. CASE req.op = "read"
  BY <1>1, <1>2, Quiet DEF Data
<1>3. CASE req.op # "read"
  <2>1. /\ mem' = [mem EXCEPT ![home][req.sector + done] = req.value] /\ buff' = buff
        /\ req.op = "write" /\ req.sector + done \in Span(req)
    BY <1>1, <1>3 DEF Data, IInv, TypeOK, ReqInv, NoReq, Span, Sectors
  <2>2. Store' = [Store EXCEPT ![req.sector + done] = req.value]
    BY <1>1, <2>1 DEF Store, Medium, IInv, TypeOK
  <2>3. Device!Put
    BY <1>1, <2>1, <2>2 DEF Device!Put, Device!Span, Span, Store, Medium
  <2> QED
    BY <2>3 DEF Device!Next
<1> QED
  BY <1>2, <1>3

LEMMA CompleteRefines == IInv /\ Complete => Device!Done
<1> SUFFICES ASSUME IInv, Complete PROVE Device!Done
  OBVIOUS
<1>1. /\ pc \in InData /\ home # NoCard /\ Medium = home /\ req # NoReq /\ done = req.count
      /\ req' = NoReq /\ ret' = "ok" /\ UNCHANGED <<mem, home, buff>>
  BY DEF Complete, Transferred, Returns, IInv, ReqInv, DataInv, InData, Medium, card
<1>2. /\ req.op \in {"read", "write"} /\ req.sector \in Nat /\ req.count \in Nat
      /\ buff \in Seq(Values)
  BY <1>1, DiskAssumption DEF IInv, TypeOK, Sectors
<1>3. req.op = "write" => \A s \in Span(req) : Store[s] = req.value
  <2> SUFFICES ASSUME req.op = "write", NEW s \in Span(req) PROVE mem[home][s] = req.value
    BY <1>1 DEF Store
  <2>1. /\ s - req.sector + 1 \in 1 .. done
        /\ s = req.sector + (s - req.sector + 1) - 1
    BY <1>1, <1>2 DEF Span
  <2> QED
    BY <1>1, <2>1 DEF IInv, DataInv
<1>4. req.op = "read" => buff = [i \in 1 .. req.count |-> Store[req.sector + i - 1]]
  <2> SUFFICES ASSUME req.op = "read"
               PROVE  buff = [i \in 1 .. req.count |-> mem[home][req.sector + i - 1]]
    BY <1>1 DEF Store
  <2>1. Len(buff) = req.count /\ \A k \in 1 .. req.count : buff[k] = mem[home][req.sector + k - 1]
    BY <1>1 DEF IInv, DataInv
  <2> QED
    BY <1>2, <2>1
<1>5. req.op = "write" => buff = <<>>
  BY <1>1 DEF IInv, DataInv
<1> QED
  BY <1>1, <1>2, <1>3, <1>4, <1>5
     DEF Device!Done, Device!Span, Span, Device!NoReq, NoReq, Device!Junk, Junk, Store, Medium

LEMMA BlockCountRefines == BlockCount => UNCHANGED Device!vars
  BY Quiet DEF BlockCount, card

LEMMA StopRefines == StopTrans => UNCHANGED Device!vars
  BY Quiet DEF StopTrans, Becomes, NoAnswer

LEMMA OtherRefines == IInv /\ IInv' /\ (Insert \/ Remove \/ Reset \/ UNCHANGED vars)
                        => [Device!Next]_(Device!vars)
<1> SUFFICES ASSUME IInv, IInv', Insert \/ Remove \/ Reset \/ UNCHANGED vars
             PROVE  [Device!Next]_(Device!vars)
  OBVIOUS
<1>1. CASE Reset
  <2>1. Store' \in [Sectors -> Values]
    BY DiskAssumption DEF IInv, TypeOK, Medium, Store
  <2>2. Device!Reset
    BY <1>1, <2>1 DEF Reset, Device!Reset, Device!NoReq, Device!Junk, NoReq, Junk, Store, Medium
  <2> QED
    BY <2>2 DEF Device!Next
<1>2. CASE Insert \/ Remove \/ UNCHANGED vars
  <2>1. UNCHANGED <<mem, home, req, ret, buff>>
    BY <1>2 DEF Insert, Remove, vars, card
  <2> QED
    BY <2>1, Quiet
<1> QED
  BY <1>1, <1>2

LEMMA StepRefines == IInv /\ IInv' /\ [Next]_vars => [Device!Next]_(Device!vars)
  BY IdentifyRefines, RequestRefines, CommandRefines, DataRefines, CompleteRefines,
     BlockCountRefines, StopRefines, OtherRefines
     DEF Next, Transfer, Device!Next

\* The driver is the block device ff.c expects, for every set of cards of
\* every kind and size: what RES_OK says is so.
THEOREM Implements == Spec => IsBlockDevice
<1> QED
  BY InitRefines, StepRefines, Invariant, PTL DEF Spec, Device!Spec, IsBlockDevice
=============================================================================
