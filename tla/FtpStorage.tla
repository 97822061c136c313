------------------------------ MODULE FtpStorage ------------------------------
(***************************************************************************)
(* ftp/ftp_storage.c: what the commands of the connection task do to the   *)
(* volume, with the table of open objects (Files[], fatfs/ff.c) that FatFs *)
(* keeps because _FS_LOCK is set (ffconf.h:216).  The build has one        *)
(* connection task, so commands follow each other; what matters is which   *)
(* of their library calls and sends fail.  A failing handler ends the      *)
(* session, and all state here outlives sessions: the next command may be  *)
(* another client's.  A refused command changes nothing: it stutters.      *)
(*                                                                         *)
(* A name stands for a path after trimFilename() and create_name(); a file *)
(* is as many blocks as one f_read() or f_write() moves.  A directory is   *)
(* its first cluster, which is also what f_opendir() registers in Files    *)
(* for it, while f_open() registers the place of the name.  A library call *)
(* may fail at any time, before or after it changed the directory.         *)
(***************************************************************************)
EXTENDS Integers

CONSTANTS
  Names,        \* paths on the volume
  Clusters,     \* first clusters of directories
  Root,         \* the root directory, which has no cluster and no lock
  NoKey,        \* the key of a blank entry of Files
  FS_LOCK,      \* entries of Files (ffconf.h:216)
  WRITE_MODE,   \* ctr of an object open for writing (0x100)
  MAX_LOST,     \* bound: opens of one object that are never closed
  MAX_BLOCKS    \* bound: blocks of a file

Kinds == {"none", "file"} \cup Clusters
Keys  == Names \cup Clusters
Slots == 1 .. FS_LOCK

ASSUME VolumeAssumption ==
  /\ Names \cap Clusters = {} /\ NoKey \notin Keys
  /\ Root \notin Clusters /\ {"none", "file"} \cap Clusters = {}
  /\ FS_LOCK \in Nat \ {0} /\ MAX_LOST \in Nat /\ MAX_BLOCKS \in Nat
  /\ WRITE_MODE \in Nat /\ WRITE_MODE > MAX_LOST + 1

VARIABLES
  entry, size,         \* the directory: what a name is, and blocks of a file
  cdir,                \* current directory of the volume
  Files,               \* open objects
  lost,                \* history: opens of a slot whose FIL or DIR is gone
  rn,                  \* source of RNTO: a local of the task, not of a session
  pc, name, fp,        \* the command, its argument, its lock (0: none)
  fsize, moved,        \* FIL.fsize, and blocks that went over the network
  fault                \* a call of this transfer has failed

dirVars  == <<entry, size, cdir>>
lockVars == <<Files, lost>>
xferVars == <<name, fp, fsize, moved, fault>>
vars == <<dirVars, lockVars, rn, pc, xferVars>>

Blocks == 0 .. MAX_BLOCKS
Blank  == [key |-> NoKey, ctr |-> 0]

Reading == {"retr150", "retr", "retrClose"}
Listing == {"list150", "list"}
Writing == {"stor150", "stor", "stor226", "storClose"}

TypeOK ==
  /\ entry \in [Names -> Kinds] /\ size \in [Names -> Blocks]
  /\ cdir \in Clusters \cup {Root}
  /\ Files \in [Slots -> [key : Keys \cup {NoKey}, ctr : 0 .. WRITE_MODE]]
  /\ lost \in [Slots -> 0 .. MAX_LOST]
  /\ rn \in Names
  /\ pc \in {"idle", "retr226", "list226"} \cup Reading \cup Listing \cup Writing
  /\ name \in Names /\ fp \in 0 .. FS_LOCK
  /\ fsize \in Blocks /\ moved \in Blocks
  /\ fault \in {"none", "failed"}

\* The volume may hold anything; rn is an uninitialised local.
Init ==
  /\ entry \in [Names -> {"none", "file"}]
  /\ size \in [Names -> Blocks]
  /\ cdir = Root
  /\ Files = [i \in Slots |-> Blank] /\ lost = [i \in Slots |-> 0]
  /\ rn \in Names
  /\ pc = "idle" /\ name \in Names /\ fp = 0
  /\ fsize = 0 /\ moved = 0 /\ fault = "none"

-----------------------------------------------------------------------------
(* The lock functions of ff.c.                                             *)

Opened(k) == {i \in Slots : Files[i].key = k}
Free      == Opened(NoKey)

\* chk_lock(): FR_OK for access acc to the object with key k.
ChkLock(k, acc) ==
  \/ Opened(k) = {} /\ (Free # {} \/ acc = "delete")
  \/ acc = "read" /\ \E i \in Opened(k) : Files[i].ctr # WRITE_MODE

\* The entry inc_lock() uses: the object's, or else the first blank one.
LockEntry(k) ==
  IF Opened(k) # {} THEN Opened(k) ELSE {i \in Free : \A j \in Free : i <= j}

\* inc_lock() of entry i; an object that is open is never opened for writing.
IncLock(i, k, acc) ==
  /\ acc = "write" => Files[i].ctr = 0
  /\ Files' = [Files EXCEPT ![i] =
                [key |-> k, ctr |-> IF acc = "write" THEN WRITE_MODE ELSE @.ctr + 1]]

\* Mutated form of DecLock: the mark of write mode is counted down.
DecLockByOne(i) ==
  LET n == Files[i].ctr - 1
  IN  Files' = [Files EXCEPT ![i] = IF n = 0 THEN Blank ELSE [@ EXCEPT !.ctr = n]]

\* dec_lock() of entry i.
DecLock(i) ==
  LET n == IF Files[i].ctr = WRITE_MODE THEN 0 ELSE Files[i].ctr - 1
  IN  Files' = [Files EXCEPT ![i] = IF n = 0 THEN Blank ELSE [@ EXCEPT !.ctr = n]]

-----------------------------------------------------------------------------
(* How handlers give an object back, or do not.                            *)

\* The object is open, and the FIL or DIR that could close it is gone.
Loses ==
  /\ IF fp = 0 THEN lost' = lost
     ELSE lost[fp] < MAX_LOST /\ lost' = [lost EXCEPT ![fp] = @ + 1]
  /\ fp' = 0 /\ UNCHANGED Files

Closes ==
  /\ IF fp = 0 THEN UNCHANGED Files ELSE DecLock(fp)
  /\ fp' = 0 /\ UNCHANGED lost

-----------------------------------------------------------------------------
(* RETR                                                                    *)

RetrOpen(n) ==
  /\ pc = "idle" /\ pc' = "retr150"
  /\ entry[n] = "file" /\ ChkLock(n, "read")
  /\ \E i \in LockEntry(n) : IncLock(i, n, "read") /\ fp' = i
  /\ name' = n /\ moved' = 0 /\ fault' = "none"
  /\ UNCHANGED <<dirVars, lost, rn, fsize>>

Retr150 ==
  /\ pc = "retr150" /\ pc' = "retr"
  /\ UNCHANGED <<dirVars, lockVars, rn, xferVars>>

\* 150 cannot be sent: the handler returns and does not close the file.
Retr150Fails ==
  /\ pc = "retr150" /\ pc' = "idle"
  /\ Loses
  /\ UNCHANGED <<dirVars, rn, name, fsize, moved, fault>>

\* Mutated form of RetrBlock: the end of the file is not looked for.
RetrPastEof ==
  /\ pc = "retr" /\ pc' = pc
  /\ moved' = moved + 1
  /\ UNCHANGED <<dirVars, lockVars, rn, name, fp, fsize, fault>>

RetrBlock ==
  /\ pc = "retr" /\ pc' = pc
  /\ moved < size[name] /\ moved' = moved + 1
  /\ UNCHANGED <<dirVars, lockVars, rn, name, fp, fsize, fault>>

\* f_read() fails, or send() does; for EAGAIN, which is not taken for an
\* error, the condition of the loop ends it as well.
RetrFault ==
  /\ pc = "retr" /\ pc' = "retrClose"
  /\ moved < size[name] /\ fault' = "failed"
  /\ UNCHANGED <<dirVars, lockVars, rn, name, fp, fsize, moved>>

\* Mutated form of RetrEof: the last block is taken for the end.
RetrEofEarly ==
  /\ pc = "retr" /\ pc' = "retrClose"
  /\ moved >= size[name] - 1
  /\ UNCHANGED <<dirVars, lockVars, rn, xferVars>>

RetrEof ==
  /\ pc = "retr" /\ pc' = "retrClose"
  /\ moved = size[name]
  /\ UNCHANGED <<dirVars, lockVars, rn, xferVars>>

RetrClose ==
  /\ pc = "retrClose" /\ pc' = "retr226"
  /\ Closes
  /\ UNCHANGED <<dirVars, rn, name, fsize, moved, fault>>

Retr226 ==
  /\ pc = "retr226" /\ pc' = "idle"
  /\ UNCHANGED <<dirVars, lockVars, rn, xferVars>>

-----------------------------------------------------------------------------
(* STOR                                                                    *)

\* Mutated form of StorCreates: chk_lock() is not asked.
StorCreatesBlind(n) ==
  /\ entry[n] = "file" \/ (entry[n] = "none" /\ Free # {})
  /\ entry' = [entry EXCEPT ![n] = "file"]
  /\ size' = [size EXCEPT ![n] = 0]

\* f_open() with FA_CREATE_ALWAYS creates the file or empties it.
StorCreates(n) ==
  /\ \/ entry[n] = "file" /\ ChkLock(n, "write")
     \/ entry[n] = "none" /\ Free # {}
  /\ entry' = [entry EXCEPT ![n] = "file"]
  /\ size' = [size EXCEPT ![n] = 0]

StorOpen(n) ==
  /\ pc = "idle" /\ pc' = "stor150"
  /\ StorCreates(n)
  /\ \E i \in LockEntry(n) : IncLock(i, n, "write") /\ fp' = i
  /\ name' = n /\ fsize' = 0 /\ moved' = 0 /\ fault' = "none"
  /\ UNCHANGED <<cdir, lost, rn>>

\* f_open() fails with the file already created or emptied: 451.
StorOpenFails(n) ==
  /\ pc = "idle" /\ pc' = "idle"
  /\ StorCreates(n)
  /\ UNCHANGED <<cdir, lockVars, rn, xferVars>>

Stor150 ==
  /\ pc = "stor150" /\ pc' = "stor"
  /\ UNCHANGED <<dirVars, lockVars, rn, xferVars>>

\* 150 cannot be sent: fclose() of the C library is no f_close().
Stor150Fails ==
  /\ pc = "stor150" /\ pc' = "idle"
  /\ Loses
  /\ UNCHANGED <<dirVars, rn, name, fsize, moved, fault>>

StorBlock ==
  /\ pc = "stor" /\ pc' = pc /\ fault = "none"
  /\ moved < MAX_BLOCKS /\ moved' = moved + 1
  /\ fsize' = fsize + 1
  /\ UNCHANGED <<dirVars, lockVars, rn, name, fp, fault>>

\* The volume is full: f_write() returns FR_OK, and btf is not looked at.
\* From then on no block finds room.
StorFull ==
  /\ pc = "stor" /\ pc' = pc
  /\ moved < MAX_BLOCKS /\ moved' = moved + 1 /\ fault' = "failed"
  /\ UNCHANGED <<dirVars, lockVars, rn, name, fp, fsize>>

\* f_write() fails, after recv() took a block, or recv() does.
StorFault ==
  /\ pc = "stor" /\ pc' = "stor226"
  /\ moved' \in {moved, moved + 1} \cap Blocks /\ fault' = "failed"
  /\ UNCHANGED <<dirVars, lockVars, rn, name, fp, fsize>>

\* recv() returned 0: the client has sent the file and closed.
StorEnd ==
  /\ pc = "stor" /\ pc' = "stor226"
  /\ UNCHANGED <<dirVars, lockVars, rn, xferVars>>

\* 226 is sent before the file is closed, and may fail.
Stor226 ==
  /\ pc = "stor226" /\ pc' = "storClose"
  /\ UNCHANGED <<dirVars, lockVars, rn, xferVars>>

StorClose ==
  /\ pc = "storClose" /\ pc' = "idle"
  /\ Closes
  /\ size' = [size EXCEPT ![name] = fsize]
  /\ UNCHANGED <<entry, cdir, rn, name, fsize, moved, fault>>

\* f_sync() fails in f_close(), and the lock is kept.
StorCloseFails ==
  /\ pc = "storClose" /\ pc' = "idle"
  /\ Loses /\ fault' = "failed"
  /\ UNCHANGED <<dirVars, rn, name, fsize, moved>>

-----------------------------------------------------------------------------
(* LIST                                                                    *)

ListOpen(c) ==
  /\ pc = "idle" /\ pc' = "list150"
  /\ IF c = Root THEN fp' = 0 /\ UNCHANGED Files
     ELSE \E i \in LockEntry(c) : IncLock(i, c, "read") /\ fp' = i
  /\ UNCHANGED <<dirVars, lost, rn, name, fsize, moved, fault>>

List150 ==
  /\ pc = "list150" /\ pc' = "list"
  /\ UNCHANGED <<dirVars, lockVars, rn, xferVars>>

List150Fails ==
  /\ pc = "list150" /\ pc' = "idle"
  /\ Loses
  /\ UNCHANGED <<dirVars, rn, name, fsize, moved, fault>>

\* The entries are sent; neither f_readdir() nor send() failing matters.
ListClose ==
  /\ pc = "list" /\ pc' = "list226"
  /\ Closes
  /\ UNCHANGED <<dirVars, rn, name, fsize, moved, fault>>

List226 ==
  /\ pc = "list226" /\ pc' = "idle"
  /\ UNCHANGED <<dirVars, lockVars, rn, xferVars>>

-----------------------------------------------------------------------------
(* The commands that only change the directory, or rn.                     *)

\* f_unlink(): neither the current directory nor what is open goes.
Unlink(n) ==
  /\ entry[n] # "none" /\ entry[n] # cdir
  /\ ChkLock(n, "delete")
  /\ entry' = [entry EXCEPT ![n] = "none"]
  /\ size' = [size EXCEPT ![n] = 0]

\* DELE and RMD remove what the name is, a file or an empty directory.
Remove(n) ==
  /\ pc = "idle" /\ pc' = "idle"
  /\ Unlink(n)
  /\ UNCHANGED <<cdir, lockVars, rn, xferVars>>

\* The name is kept for RNTO, of whichever session, even when no such file is.
Rnfr(n) ==
  /\ pc = "idle" /\ pc' = "idle"
  /\ rn' = n
  /\ UNCHANGED <<dirVars, lockVars, xferVars>>

\* f_rename() enters the new name before it removes the old one.
Rnto(n) ==
  /\ pc = "idle" /\ pc' = "idle"
  /\ entry[rn] # "none" /\ entry[n] = "none" /\ ChkLock(rn, "delete")
  /\ \/ /\ entry' = [entry EXCEPT ![n] = entry[rn], ![rn] = "none"]
        /\ size' = [size EXCEPT ![n] = size[rn], ![rn] = 0]
     \/ /\ entry' = [entry EXCEPT ![n] = entry[rn]]
        /\ size' = [size EXCEPT ![n] = size[rn]]
  /\ UNCHANGED <<cdir, lockVars, rn, xferVars>>

Mkd(n, c) ==
  /\ pc = "idle" /\ pc' = "idle"
  /\ entry[n] = "none" /\ \A m \in Names : entry[m] # c
  /\ entry' = [entry EXCEPT ![n] = c]
  /\ UNCHANGED <<size, cdir, lockVars, rn, xferVars>>

Cwd(c) ==
  /\ pc = "idle" /\ pc' = "idle"
  /\ cdir' = c
  /\ UNCHANGED <<entry, size, lockVars, rn, xferVars>>

\* The directories there are.
Dirs == {Root} \cup {c \in Clusters : \E n \in Names : entry[n] = c}

Transfer ==
  \/ Retr150 \/ Retr150Fails \/ RetrBlock \/ RetrFault \/ RetrEof
  \/ RetrClose \/ Retr226
  \/ Stor150 \/ Stor150Fails \/ StorBlock \/ StorFull \/ StorFault
  \/ StorEnd \/ Stor226 \/ StorClose \/ StorCloseFails
  \/ List150 \/ List150Fails \/ ListClose \/ List226

Command ==
  \/ \E n \in Names :
       \/ RetrOpen(n) \/ StorOpen(n) \/ StorOpenFails(n)
       \/ Remove(n) \/ Rnfr(n) \/ Rnto(n)
       \/ \E c \in Clusters : Mkd(n, c)
  \/ \E c \in Dirs : ListOpen(c) \/ Cwd(c)

Next == Command \/ Transfer

Spec == Init /\ [][Next]_vars

-----------------------------------------------------------------------------
(* What the commands keep.                                                 *)

\* Opens of the object in slot i that were not closed.
OpenCount(i) == lost[i] + (IF fp = i THEN 1 ELSE 0)

\* The table says exactly what is open, whatever failed: an entry is blank
\* when nothing has it open, counts the readers, or marks the one writer; no
\* object has two entries (ff.c:651-752).
CountsOpens ==
  /\ \A i \in Slots :
       /\ Files[i].key = NoKey <=> OpenCount(i) = 0
       /\ \/ Files[i].ctr = OpenCount(i)
          \/ /\ Files[i].ctr = WRITE_MODE /\ OpenCount(i) = 1
             /\ Files[i].key \in Names
       /\ Files[i].key \in Names => entry[Files[i].key] = "file"
  /\ \A i, j \in Slots :
       Files[i].key = Files[j].key => i = j \/ Files[i].key = NoKey

\* No command removes, renames, empties or replaces a file that is open, not
\* even one whose session is long gone: only the task that has it open for
\* writing changes it (ff.c:3485, 3672, 2474).
OpenFileStays ==
  [][\A i \in Slots : \A n \in Names :
       Files[i].key = n => /\ entry'[n] = "file"
                           /\ size'[n] # size[n] => pc = "storClose" /\ fp = i]_vars

\* A transfer in which no call failed is complete: after 226 the client has
\* the whole file, or the volume has every block the client sent.
WholeUnlessFault ==
  [][/\ Retr226 /\ fault = "none" => moved = size[name]
     /\ pc = "storClose" /\ pc' = "idle" /\ fault' = "none" => size'[name] = moved]_vars
=============================================================================
