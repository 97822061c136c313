-------------------------------- MODULE DiskIo --------------------------------
(***************************************************************************)
(* fatfs/diskio.c, the polled half, and how the volume comes to it:        *)
(* ftpServerInit() mounts until it succeeds, then every call of ff.c reads *)
(* and writes sectors.  A step is a command to the card with its response, *)
(* or a sector of its data phase.  Cards come and go, and any command may  *)
(* fail once in a while: it does not reach the card, or the card obeys it  *)
(* and the response is lost.                                               *)
(*                                                                         *)
(* The card answers as the SD specification has it, as far as the driver   *)
(* can tell: nothing but what its state allows, high capacity only after   *)
(* SEND_IF_COND and for a host that says it knows it (HCS, bit 30 of       *)
(* ACMD41).  ulVersion and the capacity are written and read by no call of *)
(* the build, and are left out; so is ucCardType, which disk_write() reads *)
(* (diskio.c:1585): it is CARD_TYPE_SDCARD where bStatus is 0.  A sector   *)
(* arrives as it was sent, or the driver waits: it looks at no CRC error   *)
(* of the data phase, and none is modelled.                                *)
(***************************************************************************)
EXTENDS Integers, Sequences

CONSTANTS
  Cards, NoCard,
  Kind,          \* the kind of each card: "sdhc", "sdsc", "sd1" or "mmc"
  LAST_SECTOR,   \* sectors of a card: 0 .. LAST_SECTOR
  Values,        \* what a sector may hold
  MAX_COUNT,     \* bound: sectors of a request
  MAX_TROUBLES,  \* bound: commands that fail, and resets
  MAX_SWAPS      \* bound: insertions and removals of a card

Sectors == 0 .. LAST_SECTOR

ASSUME DiskAssumption ==
  /\ Cards # {} /\ NoCard \notin Cards /\ Kind \in [Cards -> {"sdhc", "sdsc", "sd1", "mmc"}]
  /\ LAST_SECTOR \in Nat /\ MAX_COUNT \in Nat \ {0} /\ "junk" \notin Values
  /\ MAX_TROUBLES \in Nat /\ MAX_SWAPS \in Nat

DISKIO_SECTOR_SIZE == 512

VARIABLES
  slot, cstate, mem,    \* the card that is in, its state, what each card holds
  g_sDisk,              \* ulCapClass, bStatus, usRCA of the driver
  fs_type,              \* the volume is mounted
  pc, req, ret, buff,   \* the step, the request of ff.c, and what it got
  done,                 \* sectors that have been transferred
  home,                 \* history: the first card that was selected
  troubles, swaps

card == <<slot, cstate, mem>>
vars == <<card, g_sDisk, fs_type, pc, req, ret, buff, done, home, troubles, swaps>>

Junk  == "junk"
NoReq == [op |-> "none", sector |-> 0, count |-> 0, value |-> Junk]
Span(r) == r.sector .. r.sector + r.count - 1

NoDisk == [ulCapClass |-> "sdsc", bStatus |-> "noinit", usRCA |-> "none"]

Ident == {"goIdle", "ifCond", "opCond", "opCond1", "mmcCond", "cid", "relAddr", "select"}

\* "xfer" is any state of the card in which it sends or waits for data.
CardStates == {"idle", "cond", "ready", "ident", "stby", "tran", "xfer"}

TypeOK ==
  /\ slot \in Cards \cup {NoCard}
  /\ cstate \in CardStates
  /\ mem \in [Cards -> [Sectors -> Values]]
  /\ g_sDisk \in [ulCapClass : {"sdsc", "sdhc"}, bStatus : {"noinit", "ok"},
                  usRCA : {"none", "right", "wrong"}]
  /\ fs_type \in BOOLEAN
  /\ pc \in Ident \cup {"mount", "boot", "ready", "blkCnt", "command", "data", "stop", "hung"}
  /\ req = NoReq \/
       /\ req \in [op : {"read", "write"}, sector : Sectors, count : 1 .. MAX_COUNT,
                   value : Values \cup {Junk}]
       /\ Span(req) \subseteq Sectors
  /\ ret \in {"none", "ok", "error"}
  /\ buff \in Seq(Values) /\ Len(buff) <= MAX_COUNT
  /\ done \in 0 .. MAX_COUNT
  /\ home \in Cards \cup {NoCard}
  /\ troubles \in 0 .. MAX_TROUBLES /\ swaps \in 0 .. MAX_SWAPS

Init ==
  /\ slot = NoCard /\ cstate = "idle"
  /\ mem \in [Cards -> {f \in [Sectors -> Values] : \A s, t \in Sectors : f[s] = f[t]}]
  /\ g_sDisk = NoDisk /\ fs_type = FALSE
  /\ pc = "mount" /\ req = NoReq /\ ret = "none" /\ buff = <<>> /\ done = 0
  /\ home = NoCard /\ troubles = 0 /\ swaps = 0

-----------------------------------------------------------------------------
(* CardSendCmd(), and the card.                                            *)

Goto(step) == pc' = step
SdCards    == {c \in Cards : Kind[c] # "mmc"}
SdIn       == slot \in SdCards

\* The command completes: the card is in a state to respond to it.
Answers(sees) == slot # NoCard /\ sees
\* SDHOST_INT_ERRI: there is no response, for a reason or once in a while; or
\* the card got to state st and its response was lost.
Trouble == troubles < MAX_TROUBLES /\ troubles' = troubles + 1
NoAnswer(sees, st) ==
  /\ (~Answers(sees) /\ UNCHANGED troubles) \/ Trouble
  /\ cstate' = cstate \/ (Answers(sees) /\ cstate' = st)
  /\ UNCHANGED <<slot, mem>>

Becomes(st) == cstate' = st /\ UNCHANGED <<slot, mem, troubles>>
Others      == UNCHANGED <<fs_type, req, ret, buff, done, home, swaps>>

-----------------------------------------------------------------------------
(* disk_initialize()                                                       *)

\* f_mount() and find_volume(), as ftpServerInit() repeats them; a driver that
\* was found before is not asked again.
Mount ==
  /\ pc = "mount"
  /\ Goto(IF g_sDisk.bStatus = "ok" THEN "boot" ELSE "goIdle")
  /\ UNCHANGED <<card, g_sDisk, fs_type, req, ret, buff, done, home, troubles, swaps>>

\* CMD0 has no response: it completes with no card.
GoIdle ==
  /\ pc = "goIdle" /\ Others /\ UNCHANGED g_sDisk
  /\ \/ Goto("ifCond") /\ Becomes("idle")
     \/ Goto("mount") /\ Trouble /\ cstate' \in {cstate, "idle"} /\ UNCHANGED <<slot, mem>>

\* Only SD 2.0 and later know CMD8.
IfCond ==
  /\ pc = "ifCond" /\ Others /\ UNCHANGED g_sDisk
  /\ LET knows == SdIn /\ Kind[slot] # "sd1" /\ cstate = "idle"
     IN  \/ Answers(knows) /\ Goto("opCond") /\ Becomes("cond")
         \/ NoAnswer(knows, "cond") /\ Goto("opCond1")

\* ACMD41 until the card is ready, whatever becomes of the command: what an
\* unanswered one leaves in ulResp has bit 31 clear.  A card that is ready
\* already does not answer it.
OpCond ==
  /\ pc = "opCond" /\ Others
  /\ LET sees == SdIn /\ cstate \in {"idle", "cond"}
         gets == sees /\ (Kind[slot] # "sdhc" \/ cstate = "cond")
     IN  \/ /\ Answers(gets) /\ Goto("cid") /\ Becomes("ready")
            /\ g_sDisk' = [g_sDisk EXCEPT !.bStatus = "ok",
                             !.ulCapClass = IF Kind[slot] = "sdhc" THEN "sdhc" ELSE @]
         \/ /\ NoAnswer(sees, IF gets THEN "ready" ELSE cstate)
            /\ Goto("opCond") /\ UNCHANGED g_sDisk

\* The same for SD 1.x, without HCS, which ends when the command fails; to it a
\* card of high capacity stays busy.
OpCond1 ==
  /\ pc = "opCond1" /\ Others
  /\ LET sees == SdIn /\ cstate \in {"idle", "cond"}
         gets == sees /\ Kind[slot] # "sdhc"
     IN  \/ /\ Answers(gets) /\ Goto("cid") /\ Becomes("ready")
            /\ g_sDisk' = [g_sDisk EXCEPT !.bStatus = "ok"]
         \/ /\ NoAnswer(sees, IF gets THEN "ready" ELSE cstate)
            /\ Goto("mmcCond") /\ UNCHANGED g_sDisk

\* Mutated form of MmcCond: what did not answer is initialised like the rest.
MmcAccepted ==
  /\ pc = "mmcCond" /\ Others /\ Goto("cid")
  /\ g_sDisk' = [g_sDisk EXCEPT !.bStatus = "ok"]
  /\ UNCHANGED <<card, troubles>>

\* An MMC is recognised, and not supported.
MmcCond ==
  /\ pc = "mmcCond" /\ Others /\ Goto("mount")
  /\ UNCHANGED <<card, g_sDisk, troubles>>

\* CMD2; when it fails the address is not asked for.
AllSendCid ==
  /\ pc = "cid" /\ Others /\ UNCHANGED g_sDisk
  /\ \/ Answers(cstate = "ready") /\ Goto("relAddr") /\ Becomes("ident")
     \/ NoAnswer(cstate = "ready", "ident") /\ Goto("select")

\* CMD3: ulResp is taken for the address even if the command fails.
SendRelAddr ==
  /\ pc = "relAddr" /\ Others /\ Goto("select")
  /\ \/ /\ Answers(cstate = "ident") /\ Becomes("stby")
        /\ g_sDisk' = [g_sDisk EXCEPT !.usRCA = "right"]
     \/ /\ NoAnswer(cstate = "ident", "stby")
        /\ \E rca \in {"right", "wrong"} : g_sDisk' = [g_sDisk EXCEPT !.usRCA = rca]

\* CMD7: bStatus was 0 before and stays 0 if the card is not selected, or if it
\* is and the driver does not learn it.
CardSelect ==
  /\ pc = "select" /\ Goto("boot") /\ UNCHANGED <<g_sDisk, fs_type, req, ret, buff, done, swaps>>
  /\ LET sees == cstate = "stby" /\ g_sDisk.usRCA = "right"
     IN  (Answers(sees) /\ Becomes("tran")) \/ NoAnswer(sees, "tran")
  /\ home' = IF home = NoCard /\ cstate' = "tran" THEN slot ELSE home

-----------------------------------------------------------------------------
(* disk_read(), disk_write()                                               *)

\* check_fs() reads the boot record of the volume.
Boot ==
  /\ pc = "boot" /\ Goto("command")
  /\ req' = [op |-> "read", sector |-> 0, count |-> 1, value |-> Junk]
  /\ ret' = "none" /\ buff' = <<>>
  /\ UNCHANGED <<card, g_sDisk, fs_type, done, home, troubles, swaps>>

\* A write of several sectors begins with SET_BLK_CNT.
Multi(r) == r.count > 1
Begins(r) == IF r.op = "write" /\ Multi(r) THEN "blkCnt" ELSE "command"

\* Any call of ff.c on the mounted volume: find_volume() finds it valid, since
\* disk_status() is 0.
Request ==
  /\ pc = "ready"
  /\ \E s \in Sectors, n \in 1 .. MAX_COUNT :
       /\ s + n - 1 \in Sectors
       /\ \/ req' = [op |-> "read", sector |-> s, count |-> n, value |-> Junk]
          \/ \E v \in Values :
               req' = [op |-> "write", sector |-> s, count |-> n, value |-> v]
  /\ Goto(IF fs_type /\ g_sDisk.bStatus = "ok" THEN Begins(req') ELSE "mount")
  /\ ret' = "none" /\ buff' = <<>>
  /\ UNCHANGED <<card, g_sDisk, fs_type, done, home, troubles, swaps>>

\* Mutated form of Argument: every card is addressed by sectors.
ArgumentBySector(s) == s

\* The argument of the command: SDSC counts bytes, SDHC sectors.
Argument(s) == IF g_sDisk.ulCapClass = "sdsc" THEN s * DISKIO_SECTOR_SIZE ELSE s

\* The sector the card takes it for.
Meant(c, arg) == IF Kind[c] = "sdhc" THEN arg ELSE arg \div DISKIO_SECTOR_SIZE

\* The end of a request, in find_volume() or in another call.
Returns(r) ==
  /\ ret' = r /\ req' = NoReq
  /\ fs_type' = (fs_type \/ r = "ok")
  /\ Goto(IF fs_type' THEN "ready" ELSE "mount")

\* CMD55 and SET_BLK_CNT: the results are not looked at, and the card is told
\* nothing but what it may erase.
BlockCount ==
  /\ pc = "blkCnt" /\ Goto("command") /\ (Trouble \/ UNCHANGED troubles)
  /\ UNCHANGED <<card, g_sDisk, fs_type, req, ret, buff, done, home, swaps>>

\* Mutated form of Command: a card that does not answer is identified again.
CommandIdentifies ==
  /\ pc = "command" /\ UNCHANGED <<buff, done, home, swaps>>
  /\ \/ /\ Answers(cstate = "tran") /\ Becomes("xfer")
        /\ Goto("data") /\ UNCHANGED <<g_sDisk, fs_type, req, ret>>
     \/ /\ NoAnswer(cstate = "tran", "tran") /\ g_sDisk' = NoDisk /\ Goto("goIdle")
        /\ req' = NoReq /\ ret' = "error" /\ UNCHANGED fs_type

\* Mutated form of Command: it is repeated until the card answers.
CommandRepeated ==
  /\ pc = "command" /\ Answers(cstate = "tran") /\ Becomes("xfer") /\ Goto("data")
  /\ UNCHANGED <<g_sDisk, fs_type, req, ret, buff, done, home, swaps>>

\* READ_SINGLE_BLK .. WRITE_MULTI_BLK: a card that is selected answers.  If the
\* driver does not learn of it, the card sends its sector, or is left with a
\* transfer that nobody ends.
Command ==
  /\ pc = "command" /\ UNCHANGED <<g_sDisk, buff, done, home, swaps>>
  /\ \/ /\ Answers(cstate = "tran") /\ Becomes("xfer")
        /\ Goto("data") /\ UNCHANGED <<fs_type, req, ret>>
     \/ /\ NoAnswer(cstate = "tran", IF req.op = "read" /\ ~Multi(req) THEN "tran" ELSE "xfer")
        /\ Returns("error")

\* Mutated form of Data: of several, one sector too many.
DataOneMore ==
  /\ pc = "data" /\ slot # NoCard /\ cstate = "xfer"
  /\ done < req.count \/ (Multi(req) /\ done = req.count)
  /\ done' = done + 1
  /\ cstate' = IF Multi(req) THEN cstate ELSE "tran"
  /\ LET s == Meant(slot, Argument(req.sector)) + done
     IN  /\ s \in Sectors
         /\ IF req.op = "read"
            THEN buff' = Append(buff, mem[slot][s]) /\ UNCHANGED mem
            ELSE mem' = [mem EXCEPT ![slot][s] = req.value] /\ UNCHANGED buff
  /\ UNCHANGED <<slot, g_sDisk, fs_type, pc, req, ret, home, troubles, swaps>>

\* A sector of the data phase, as far as the card is still there: the driver
\* has no other way out.  A single sector ends by itself.
Data ==
  /\ pc = "data" /\ slot # NoCard /\ cstate = "xfer" /\ done < req.count
  /\ done' = done + 1
  /\ cstate' = IF Multi(req) THEN cstate ELSE "tran"
  /\ LET s == Meant(slot, Argument(req.sector)) + done
     IN  /\ s \in Sectors
         /\ IF req.op = "read"
            THEN buff' = Append(buff, mem[slot][s]) /\ UNCHANGED mem
            ELSE mem' = [mem EXCEPT ![slot][s] = req.value] /\ UNCHANGED buff
  /\ UNCHANGED <<slot, g_sDisk, fs_type, pc, req, ret, home, troubles, swaps>>

\* All sectors are there; after a write the card says so too (SDHOST_INT_TC).
Transferred == pc = "data" /\ done = req.count /\ (req.op = "read" \/ cstate # "idle")

\* STOP_TRANS after several sectors.  Its result is not looked at, but the TC
\* that is waited for next was cleared when it was sent (diskio.c:1087), and
\* comes with its response only.
StopTrans ==
  /\ Transferred /\ Multi(req)
  /\ \/ Answers(cstate = "xfer") /\ Becomes("tran") /\ Goto("stop")
     \/ NoAnswer(cstate = "xfer", "tran") /\ Goto("hung")
  /\ UNCHANGED <<g_sDisk, fs_type, req, ret, buff, done, home, swaps>>

\* A single sector is there, or several have been stopped.
Complete ==
  /\ (Transferred /\ ~Multi(req)) \/ pc = "stop"
  /\ done' = 0 /\ Returns("ok")
  /\ UNCHANGED <<card, g_sDisk, buff, home, troubles, swaps>>

-----------------------------------------------------------------------------
(* What happens to the driver.                                             *)

\* A card that is put in knows nothing of what was agreed before.
Insert ==
  /\ slot = NoCard /\ swaps < MAX_SWAPS /\ swaps' = swaps + 1
  /\ \E c \in Cards : slot' = c
  /\ cstate' = "idle"
  /\ UNCHANGED <<mem, g_sDisk, fs_type, pc, req, ret, buff, done, home, troubles>>

Remove ==
  /\ slot # NoCard /\ swaps < MAX_SWAPS /\ swaps' = swaps + 1
  /\ slot' = NoCard /\ cstate' = "idle"
  /\ UNCHANGED <<mem, g_sDisk, fs_type, pc, req, ret, buff, done, home, troubles>>

\* The board starts anew; the card does not lose its power.
Reset ==
  /\ Trouble
  /\ g_sDisk' = NoDisk /\ fs_type' = FALSE
  /\ Goto("mount") /\ req' = NoReq /\ ret' = "none" /\ buff' = <<>> /\ done' = 0
  /\ home' = NoCard
  /\ UNCHANGED <<card, swaps>>

Identify == \/ Mount \/ GoIdle \/ IfCond \/ OpCond \/ OpCond1 \/ MmcCond
            \/ AllSendCid \/ SendRelAddr \/ CardSelect
Transfer == Boot \/ BlockCount \/ Command \/ Data \/ StopTrans \/ Complete

Next == Identify \/ Transfer \/ Request \/ Insert \/ Remove \/ Reset

Spec == Init /\ [][Next]_vars

\* The task is scheduled, and it repeats a command until the card is ready.
FairSpec == Spec /\ WF_vars(Identify \/ Transfer)

-----------------------------------------------------------------------------

\* ff.c has the block device it expects, through removed and swapped cards,
\* commands that fail and resets in the middle of a transfer: every RES_OK is
\* true, of the sector that was meant, and no other sector changes.
Device ==
  INSTANCE BlockDevice WITH
    attached <- home # NoCard,
    buff     <- IF ret = "ok" THEN buff ELSE <<>>,
    store    <- mem[IF home = NoCard THEN CHOOSE c \in Cards : TRUE ELSE home]
IsBlockDevice == Device!Spec

\* disk_status() goes on to say that the drive is initialised when another
\* card is in, so that find_volume() keeps the volume (ff.c:2213); yet nothing
\* of it is ever written to a card it was not mounted from: only a card that
\* the driver has selected takes commands, and it selects one.
OtherCardsUntouched ==
  [][\A c \in Cards : mem'[c] # mem[c] => c = home /\ fs_type]_vars

Calm == troubles = MAX_TROUBLES /\ swaps = MAX_SWAPS

\* ACMD41 has no limit.  A card of high capacity that the host has not told of
\* it is busy for ever, and so is the loop for SD 2.0 when the answer that the
\* card is ready was lost.
BusyForEver ==
  \/ pc = "opCond" /\ Kind[slot] = "sdhc" /\ cstate = "idle"
  \/ pc = "opCond1" /\ Kind[slot] = "sdhc"
  \/ pc = "opCond" /\ cstate = "ready"

\* When nothing fails any more, the loop of ftpServerInit() gets the card
\* mounted that is in, whatever failed before and wherever disk_initialize() is
\* then, but for what it cannot leave: an ACMD41 that never says ready, and
\* bStatus = 0 with a card it has not selected.
MountsAtLast ==
  (Calm /\ SdIn /\ g_sDisk.bStatus = "noinit" /\ ~BusyForEver) ~> fs_type

\* The waits without limit: for a STOP_TRANS that failed, and for the data of a
\* card that was pulled out.
WaitsForEver == pc = "hung" \/ (pc = "data" /\ cstate = "idle")

\* But for these, disk_read() and disk_write() return, whatever fails in them.
TransfersReturn == (req # NoReq) ~> (req = NoReq \/ WaitsForEver)
=============================================================================
