--------------------------- MODULE FtpStorageProofs ---------------------------
(***************************************************************************)
(* The table of open objects is exact, open files are left alone, and a    *)
(* transfer without a fault is whole: for any volume, any number of lock   *)
(* entries and files of any length.  Inv adds to the properties what each  *)
(* label of a handler knows of its lock and of the blocks it has moved.    *)
(***************************************************************************)
EXTENDS FtpStorage, TLAPS

HandlerHolds ==
  /\ pc \in Writing => fp \in Slots /\ Files[fp].key = name /\ Files[fp].ctr = WRITE_MODE
  /\ pc \in Reading => fp \in Slots /\ Files[fp].key = name
  /\ pc \in Listing /\ fp # 0 => Files[fp].key \in Clusters
  /\ pc \in {"idle", "retr226", "list226"} => fp = 0

BlocksMoved ==
  /\ pc \in Reading \cup {"retr226"} => moved <= size[name]
  /\ pc \in {"retrClose", "retr226"} /\ fault = "none" => moved = size[name]
  /\ pc \in Writing => fsize <= moved /\ (fault = "none" => fsize = moved)

Inv == TypeOK /\ CountsOpens /\ HandlerHolds /\ BlocksMoved

LEMMA InitInv == Init => Inv
<1> SUFFICES ASSUME Init PROVE Inv
  OBVIOUS
<1> USE VolumeAssumption
<1>1. TypeOK
  <2>1. Files \in [Slots -> [key : Keys \cup {NoKey}, ctr : 0 .. WRITE_MODE]]
    BY DEF Init, Blank
  <2>2. lost \in [Slots -> 0 .. MAX_LOST] /\ fp \in 0 .. FS_LOCK
    BY DEF Init
  <2>3. fsize \in Blocks /\ moved \in Blocks
    BY DEF Init, Blocks
  <2>4. entry \in [Names -> Kinds]
    BY DEF Init, Kinds
  <2> QED BY <2>1, <2>2, <2>3, <2>4 DEF Init, TypeOK
<1>2. CountsOpens
  BY DEF Init, CountsOpens, OpenCount, Slots, Blank, Keys
<1>3. HandlerHolds /\ BlocksMoved
  BY DEF Init, HandlerHolds, BlocksMoved, Reading, Listing, Writing
<1> QED BY <1>1, <1>2, <1>3 DEF Inv

-----------------------------------------------------------------------------
(* What the lock functions do to the table.                                *)

\* An open that chk_lock() let pass is counted.
LEMMA IncCounts ==
  ASSUME TypeOK, CountsOpens, fp = 0,
         NEW k \in Keys, NEW acc \in {"read", "write"}, NEW i \in LockEntry(k),
         IncLock(i, k, acc), fp' = i, UNCHANGED lost,
         acc = "write" => k \in Names,
         Files[i].key = k => acc = "read" /\ Files[i].ctr # WRITE_MODE,
         k \in Names => entry'[k] = "file",
         \A n \in Names : entry[n] = "file" => entry'[n] = "file"
  PROVE  /\ CountsOpens'
         /\ i \in Slots /\ Files' \in [Slots -> [key : Keys \cup {NoKey}, ctr : 0 .. WRITE_MODE]]
         /\ Files'[i].key = k
         /\ acc = "write" => Files'[i].ctr = WRITE_MODE
<1> USE VolumeAssumption
<1>1. i \in Slots /\ (Files[i].key = k \/ (Files[i].key = NoKey /\ Opened(k) = {}))
  BY DEF LockEntry, Opened, Free
<1>2. k # NoKey /\ i # 0
  BY <1>1 DEF Keys, Slots
<1>3. lost[i] \in 0 .. MAX_LOST /\ OpenCount(i) = lost[i] /\ OpenCount(i)' = lost[i] + 1
  BY <1>1, <1>2 DEF OpenCount, TypeOK
<1>4. \A j \in Slots \ {i} : OpenCount(j)' = OpenCount(j) /\ Files'[j] = Files[j]
  BY <1>1, <1>2 DEF OpenCount, IncLock, TypeOK, Slots
<1>5. CASE Files[i].key = k
  <2>1. Files[i].ctr = lost[i]
    BY <1>1, <1>3, <1>5 DEF CountsOpens
  <2>2. Files'[i] = [key |-> k, ctr |-> lost[i] + 1]
    BY <1>1, <1>5, <2>1 DEF IncLock, TypeOK
  <2>3. CountsOpens'
    BY <1>1, <1>2, <1>3, <1>4, <1>5, <2>2 DEF CountsOpens
  <2>4. lost[i] + 1 \in 0 .. WRITE_MODE
    BY <1>3
  <2> QED BY <1>1, <1>5, <2>2, <2>3, <2>4 DEF IncLock, TypeOK
<1>6. CASE Files[i].key = NoKey /\ Opened(k) = {}
  <2>1. lost[i] = 0 /\ Files[i].ctr = 0
    BY <1>1, <1>3, <1>6 DEF CountsOpens, Keys
  <2>2. Files'[i] = [key |-> k, ctr |-> IF acc = "write" THEN WRITE_MODE ELSE 1]
    BY <1>1, <2>1 DEF IncLock, TypeOK
  <2>3. \A j \in Slots \ {i} : Files'[j].key # k
    BY <1>4, <1>6 DEF Opened
  <2>4. CountsOpens'
    BY <1>1, <1>2, <1>3, <1>4, <2>1, <2>2, <2>3 DEF CountsOpens
  <2> QED BY <1>1, <2>2, <2>4 DEF IncLock, TypeOK
<1> QED BY <1>1, <1>5, <1>6

\* A close is counted, and the last one blanks the entry.
LEMMA CloseCounts ==
  ASSUME TypeOK, CountsOpens, Closes,
         \A n \in Names : entry[n] = "file" => entry'[n] = "file"
  PROVE  /\ CountsOpens' /\ fp' = 0 /\ lost' = lost
         /\ Files' \in [Slots -> [key : Keys \cup {NoKey}, ctr : 0 .. WRITE_MODE]]
<1> USE VolumeAssumption
<1>1. CASE fp = 0
  BY <1>1 DEF Closes, CountsOpens, OpenCount, TypeOK
<1>2. CASE fp # 0
  <2>0. PICK q \in Slots : q = fp
    BY <1>2 DEF TypeOK, Slots
  <2>1. q # 0 /\ DecLock(q) /\ fp' = 0 /\ lost' = lost
    BY <1>2, <2>0 DEF Closes, Slots
  <2>2. lost[q] \in 0 .. MAX_LOST /\ OpenCount(q) = lost[q] + 1 /\ OpenCount(q)' = lost[q]
    BY <2>0, <2>1 DEF OpenCount, TypeOK, Slots
  <2>3. Files[q].key # NoKey
    BY <2>0, <2>1, <2>2 DEF CountsOpens
  <2>4. \A j \in Slots \ {q} : OpenCount(j)' = OpenCount(j) /\ Files'[j] = Files[j]
    BY <2>0, <2>1 DEF OpenCount, DecLock, TypeOK, Slots
  <2>5. Files'[q] = IF lost[q] = 0 THEN Blank ELSE [key |-> Files[q].key, ctr |-> lost[q]]
    <3>1. Files[q] \in [key : Keys \cup {NoKey}, ctr : 0 .. WRITE_MODE]
      BY <2>1 DEF TypeOK
    <3>2. CASE Files[q].ctr = WRITE_MODE
      <4>1. lost[q] = 0
        BY <2>2, <3>2 DEF CountsOpens
      <4> QED BY <2>1, <3>2, <4>1 DEF DecLock, TypeOK
    <3>3. CASE Files[q].ctr # WRITE_MODE
      <4>1. Files[q].ctr = lost[q] + 1
        BY <2>0, <2>1, <2>2, <3>3 DEF CountsOpens
      <4> QED BY <2>0, <2>1, <2>2, <3>1, <3>3, <4>1 DEF DecLock, TypeOK
    <3> QED BY <3>2, <3>3
  <2>6. Files' \in [Slots -> [key : Keys \cup {NoKey}, ctr : 0 .. WRITE_MODE]]
    <3>1. lost[q] \in 0 .. WRITE_MODE
      BY <2>2
    <3>2. Files'[q] \in [key : Keys \cup {NoKey}, ctr : 0 .. WRITE_MODE]
      BY <2>1, <2>5, <3>1 DEF TypeOK, Blank
    <3> QED BY <2>1, <3>2 DEF DecLock, TypeOK
  <2>7. CountsOpens'
    BY <2>0, <2>1, <2>2, <2>3, <2>4, <2>5 DEF CountsOpens, Blank, Keys
  <2> QED BY <2>1, <2>6, <2>7
<1> QED BY <1>1, <1>2

\* An object that stays open for nobody stays open.
LEMMA LossCounts ==
  ASSUME TypeOK, CountsOpens, Loses,
         \A n \in Names : entry[n] = "file" => entry'[n] = "file"
  PROVE  /\ CountsOpens' /\ fp' = 0 /\ Files' = Files
         /\ lost' \in [Slots -> 0 .. MAX_LOST]
<1> USE VolumeAssumption
<1>1. CASE fp = 0
  BY <1>1 DEF Loses, CountsOpens, OpenCount, TypeOK
<1>2. CASE fp # 0
  <2>0. PICK q \in Slots : q = fp
    BY <1>2 DEF TypeOK, Slots
  <2>1. q # 0 /\ fp' = 0 /\ Files' = Files
    BY <1>2, <2>0 DEF Loses
  <2>2. lost[q] + 1 \in 0 .. MAX_LOST /\ lost' = [lost EXCEPT ![q] = lost[q] + 1]
    BY <1>2, <2>0 DEF Loses, TypeOK
  <2>3. \A j \in Slots : OpenCount(j)' = OpenCount(j)
    BY <2>0, <2>1, <2>2 DEF OpenCount, TypeOK, Slots
  <2>4. CountsOpens'
    BY <2>1, <2>3 DEF CountsOpens
  <2> QED BY <2>1, <2>2, <2>4 DEF TypeOK
<1> QED BY <1>1, <1>2

-----------------------------------------------------------------------------
(* Every step keeps Inv.                                                   *)

LEMMA TransferInv == Inv /\ Transfer => Inv'
<1> SUFFICES ASSUME Inv, Transfer PROVE Inv'
  OBVIOUS
<1> USE VolumeAssumption DEF Inv, HandlerHolds, BlocksMoved, Reading, Listing, Writing,
        dirVars, lockVars, xferVars
<1>1. ASSUME UNCHANGED <<dirVars, lockVars>>, fp' = fp PROVE CountsOpens'
  BY <1>1 DEF CountsOpens, OpenCount
<1>2. CASE Retr150 \/ Retr226 \/ Stor150 \/ StorEnd \/ Stor226 \/ List150 \/ List226 \/ RetrEof
  <2>1. CountsOpens'
    BY <1>1, <1>2 DEF Retr150, Retr226, Stor150, StorEnd, Stor226, List150, List226, RetrEof
  <2> QED BY <1>2, <2>1 DEF TypeOK, Blocks,
        Retr150, Retr226, Stor150, StorEnd, Stor226, List150, List226, RetrEof
<1>3. CASE RetrBlock \/ RetrFault
  <2>1. CountsOpens'
    BY <1>1, <1>3 DEF RetrBlock, RetrFault
  <2>2. size[name] \in Blocks /\ moved \in Blocks
    BY DEF TypeOK
  <2> QED BY <1>3, <2>1, <2>2 DEF TypeOK, Blocks, RetrBlock, RetrFault
<1>4. CASE StorBlock \/ StorFull \/ StorFault
  <2>1. CountsOpens'
    BY <1>1, <1>4 DEF StorBlock, StorFull, StorFault
  <2> QED BY <1>4, <2>1 DEF TypeOK, Blocks, StorBlock, StorFull, StorFault
<1>5. CASE Retr150Fails \/ Stor150Fails \/ List150Fails \/ StorCloseFails
  <2>1. Loses /\ entry' = entry /\ pc' = "idle"
    BY <1>5 DEF Retr150Fails, Stor150Fails, List150Fails, StorCloseFails
  <2>2. /\ CountsOpens' /\ fp' = 0 /\ Files' = Files
        /\ lost' \in [Slots -> 0 .. MAX_LOST]
    BY <2>1, LossCounts
  <2>3. TypeOK'
    <3>1. /\ UNCHANGED <<entry, size, cdir, rn, name, fsize, moved>>
          /\ fault' \in {fault, "failed"}
      BY <1>5 DEF Retr150Fails, Stor150Fails, List150Fails, StorCloseFails
    <3>2. fp' \in 0 .. FS_LOCK
      BY <2>2
    <3> QED BY <2>1, <2>2, <3>1, <3>2 DEF TypeOK
  <2> QED BY <2>1, <2>2, <2>3
<1>6. CASE RetrClose \/ StorClose \/ ListClose
  <2>1. Closes /\ entry' = entry /\ pc' \in {"idle", "retr226", "list226"}
    BY <1>6 DEF RetrClose, StorClose, ListClose
  <2>2. /\ CountsOpens' /\ fp' = 0 /\ lost' = lost
        /\ Files' \in [Slots -> [key : Keys \cup {NoKey}, ctr : 0 .. WRITE_MODE]]
    BY <2>1, CloseCounts
  <2>3. size' \in [Names -> Blocks]
    BY <1>6 DEF TypeOK, RetrClose, StorClose, ListClose
  <2> QED BY <1>6, <2>1, <2>2, <2>3 DEF TypeOK, RetrClose, StorClose, ListClose
<1> QED BY <1>2, <1>3, <1>4, <1>5, <1>6 DEF Transfer

\* The two commands that open a file, and the one that opens a directory.
LEMMA OpenInv ==
  ASSUME Inv, NEW n \in Names, NEW c \in Dirs, RetrOpen(n) \/ StorOpen(n) \/ ListOpen(c)
  PROVE  Inv'
<1> USE VolumeAssumption DEF Inv, HandlerHolds, BlocksMoved, Reading, Listing, Writing,
        dirVars, lockVars, xferVars
<1>0. fp = 0 \/ pc # "idle"
  OBVIOUS
<1>1. CASE RetrOpen(n)
  <2>1. PICK i \in LockEntry(n) : IncLock(i, n, "read") /\ fp' = i
    BY <1>1 DEF RetrOpen
  <2>2. Files[i].key = n => Files[i].ctr # WRITE_MODE
    <3>1. SUFFICES ASSUME Files[i].key = n PROVE Files[i].ctr # WRITE_MODE
      OBVIOUS
    <3>2. i \in Slots /\ i \in Opened(n)
      BY <2>1, <3>1 DEF LockEntry, Opened, Free
    <3>3. PICK j \in Opened(n) : Files[j].ctr # WRITE_MODE
      BY <1>1, <3>2 DEF RetrOpen, ChkLock
    <3>4. n # NoKey
      BY DEF Keys
    <3>5. j = i
      BY <3>2, <3>3, <3>4 DEF CountsOpens, Opened
    <3> QED BY <3>3, <3>5
  <2>3. /\ CountsOpens'
        /\ i \in Slots /\ Files' \in [Slots -> [key : Keys \cup {NoKey}, ctr : 0 .. WRITE_MODE]]
        /\ Files'[i].key = n
    BY <1>0, <1>1, <2>1, <2>2, IncCounts DEF RetrOpen, Keys
  <2>4. TypeOK'
    <3>1. fp' \in 0 .. FS_LOCK /\ 0 \in Blocks
      BY <2>1, <2>3 DEF Slots, Blocks
    <3> QED BY <1>1, <2>3, <3>1 DEF RetrOpen, TypeOK
  <2>5. 0 <= size'[n]
    BY <2>4 DEF TypeOK, Blocks
  <2> QED BY <1>1, <2>1, <2>3, <2>4, <2>5 DEF RetrOpen
<1>2. CASE StorOpen(n)
  <2>1. PICK i \in LockEntry(n) : IncLock(i, n, "write") /\ fp' = i
    BY <1>2 DEF StorOpen
  <2>2. Files[i].key # n
    <3>1. SUFFICES ASSUME Files[i].key = n PROVE FALSE
      OBVIOUS
    <3>2. i \in Slots /\ i \in Opened(n)
      BY <2>1, <3>1 DEF LockEntry, Opened, Free
    <3>3. entry[n] = "file"
      BY <3>1, <3>2 DEF CountsOpens
    <3> QED BY <1>2, <3>2, <3>3 DEF StorOpen, StorCreates, ChkLock
  <2>3. /\ entry' = [entry EXCEPT ![n] = "file"] /\ size' = [size EXCEPT ![n] = 0]
        /\ entry'[n] = "file" /\ \A m \in Names : entry[m] = "file" => entry'[m] = "file"
    BY <1>2 DEF StorOpen, StorCreates, TypeOK
  <2>4. /\ CountsOpens'
        /\ i \in Slots /\ Files' \in [Slots -> [key : Keys \cup {NoKey}, ctr : 0 .. WRITE_MODE]]
        /\ Files'[i].key = n /\ Files'[i].ctr = WRITE_MODE
    BY <1>0, <1>2, <2>1, <2>2, <2>3, IncCounts DEF StorOpen, Keys
  <2>5. TypeOK'
    <3>1. 0 \in Blocks
      BY DEF Blocks
    <3>2. entry' \in [Names -> Kinds] /\ size' \in [Names -> Blocks]
      BY <2>3, <3>1 DEF TypeOK, Kinds
    <3>3. fp' \in 0 .. FS_LOCK
      BY <2>1, <2>4 DEF Slots
    <3> QED BY <1>2, <2>4, <3>1, <3>2, <3>3 DEF StorOpen, TypeOK
  <2> QED BY <1>2, <2>1, <2>4, <2>5 DEF StorOpen
<1>3. CASE ListOpen(c)
  <2>1. CASE c = Root
    BY <1>3, <2>1 DEF ListOpen, TypeOK, CountsOpens, OpenCount
  <2>2. CASE c # Root
    <3>1. c \in Clusters
      BY <2>2 DEF Dirs
    <3>2. PICK i \in LockEntry(c) : IncLock(i, c, "read") /\ fp' = i
      BY <1>3, <2>2 DEF ListOpen
    <3>3. i \in Slots /\ c # NoKey
      BY <3>1, <3>2 DEF LockEntry, Opened, Free, Keys
    <3>4. lost[i] \in 0 .. MAX_LOST /\ fp = 0 /\ i # 0
      BY <1>0, <1>3, <3>3 DEF TypeOK, ListOpen, Slots
    <3>5. OpenCount(i) = lost[i]
      BY <3>4 DEF OpenCount
    <3>6. Files[i].key = c => Files[i].ctr # WRITE_MODE
      BY <3>1, <3>3, <3>4, <3>5 DEF CountsOpens
    <3>7. /\ CountsOpens'
          /\ Files' \in [Slots -> [key : Keys \cup {NoKey}, ctr : 0 .. WRITE_MODE]]
          /\ Files'[i].key = c
      BY <1>3, <3>1, <3>2, <3>4, <3>6, IncCounts DEF ListOpen, Keys
    <3> QED BY <1>3, <3>1, <3>2, <3>3, <3>7 DEF ListOpen, TypeOK, Slots
  <2> QED BY <2>1, <2>2
<1> QED BY <1>1, <1>2, <1>3

-----------------------------------------------------------------------------
(* The commands that change the directory leave open files alone.          *)

Untouched == \A i \in Slots : \A n \in Names :
  Files[i].key = n => entry'[n] = "file" /\ size'[n] = size[n]

LEMMA NotOpen ==
  ASSUME Inv, NEW n \in Names,
         entry[n] = "none" \/ ChkLock(n, "delete") \/ ChkLock(n, "write")
  PROVE  \A i \in Slots : Files[i].key # n
  BY DEF Inv, CountsOpens, ChkLock, Opened

LEMMA DirectoryUntouched ==
  ASSUME Inv, NEW n \in Names,
         \/ StorOpen(n) \/ StorOpenFails(n) \/ Remove(n) \/ Rnto(n)
         \/ \E c \in Clusters : Mkd(n, c)
  PROVE  Untouched
<1> USE VolumeAssumption
<1>0. /\ entry \in [Names -> Kinds] /\ size \in [Names -> Blocks] /\ rn \in Names
      /\ \A i \in Slots : \A m \in Names : Files[i].key = m => entry[m] = "file"
  BY DEF Inv, TypeOK, CountsOpens
<1>1. CASE StorOpen(n) \/ StorOpenFails(n)
  <2>1. StorCreates(n)
    BY <1>1 DEF StorOpen, StorOpenFails
  <2>2. \A i \in Slots : Files[i].key # n
    BY <2>1, NotOpen DEF StorCreates
  <2> QED BY <1>0, <2>1, <2>2 DEF StorCreates, Untouched
<1>2. CASE Remove(n)
  <2>1. \A i \in Slots : Files[i].key # n
    BY <1>2, NotOpen DEF Remove, Unlink
  <2> QED BY <1>0, <1>2, <2>1 DEF Remove, Unlink, Untouched
<1>3. CASE Rnto(n)
  <2>1. \A i \in Slots : Files[i].key # n /\ Files[i].key # rn
    BY <1>0, <1>3, NotOpen DEF Rnto
  <2> QED BY <1>0, <1>3, <2>1 DEF Rnto, Untouched
<1>4. CASE \E c \in Clusters : Mkd(n, c)
  <2>1. \A i \in Slots : Files[i].key # n
    BY <1>4, NotOpen DEF Mkd
  <2> QED BY <1>0, <1>4, <2>1 DEF Mkd, Untouched
<1> QED BY <1>1, <1>2, <1>3, <1>4

\* The commands that open nothing.
LEMMA DirectoryInv ==
  ASSUME Inv, NEW n \in Names,
         \/ StorOpenFails(n) \/ Remove(n) \/ Rnfr(n) \/ Rnto(n)
         \/ \E c \in Clusters : Mkd(n, c)
         \/ \E c \in Dirs : Cwd(c)
  PROVE  Inv'
<1> USE VolumeAssumption DEF dirVars, lockVars, xferVars
<1>1. pc' = "idle" /\ UNCHANGED <<Files, lost, xferVars>> /\ pc = "idle"
  BY DEF StorOpenFails, Remove, Rnfr, Rnto, Mkd, Cwd
<1>2. \A i \in Slots : \A m \in Names : Files[i].key = m => entry'[m] = "file"
  <2>1. CASE Rnfr(n) \/ \E c \in Dirs : Cwd(c)
    BY <2>1 DEF Inv, CountsOpens, Rnfr, Cwd
  <2>2. CASE ~(Rnfr(n) \/ \E c \in Dirs : Cwd(c))
    BY <2>2, DirectoryUntouched DEF Untouched
  <2> QED BY <2>1, <2>2
<1>3. CountsOpens'
  BY <1>1, <1>2 DEF Inv, CountsOpens, OpenCount
<1>4. HandlerHolds' /\ BlocksMoved'
  BY <1>1 DEF Inv, HandlerHolds, BlocksMoved, Reading, Writing, Listing
<1>5. entry' \in [Names -> Kinds] /\ size' \in [Names -> Blocks]
  <2>1. /\ 0 \in Blocks /\ {"none", "file"} \subseteq Kinds /\ Clusters \subseteq Kinds
        /\ rn \in Names /\ entry[rn] \in Kinds /\ size[rn] \in Blocks
    BY DEF Inv, TypeOK, Blocks, Kinds
  <2>2. CASE Rnto(n)
    BY <2>1, <2>2 DEF Inv, TypeOK, Rnto
  <2>3. CASE StorOpenFails(n) \/ Remove(n) \/ \E c \in Clusters : Mkd(n, c)
    BY <2>1, <2>3 DEF Inv, TypeOK, StorOpenFails, StorCreates, Remove, Unlink, Mkd
  <2>4. CASE Rnfr(n) \/ \E c \in Dirs : Cwd(c)
    BY <2>4 DEF Inv, TypeOK, Rnfr, Cwd
  <2> QED BY <2>2, <2>3, <2>4
<1>6. cdir' \in Clusters \cup {Root} /\ rn' \in Names
  BY DEF Inv, TypeOK, StorOpenFails, Remove, Rnfr, Rnto, Mkd, Cwd, Dirs
<1>7. TypeOK'
  BY <1>1, <1>5, <1>6 DEF Inv, TypeOK
<1> QED BY <1>3, <1>4, <1>7 DEF Inv

LEMMA StepInv == Inv /\ [Next]_vars => Inv'
<1> SUFFICES ASSUME Inv, [Next]_vars PROVE Inv'
  OBVIOUS
<1>0. name \in Names
  BY DEF Inv, TypeOK
<1>1. CASE Transfer
  BY <1>1, TransferInv
<1>2. CASE Command
  <2>1. CASE \E c \in Dirs : Cwd(c)
    BY <1>0, <2>1, DirectoryInv
  <2>2. CASE \E c \in Dirs : ListOpen(c)
    BY <1>0, <2>2, OpenInv
  <2>3. ASSUME NEW n \in Names, RetrOpen(n) \/ StorOpen(n) PROVE Inv'
    <3>1. Root \in Dirs
      BY DEF Dirs
    <3> QED BY <2>3, <3>1, OpenInv
  <2>4. ASSUME NEW n \in Names,
               \/ StorOpenFails(n) \/ Remove(n) \/ Rnfr(n) \/ Rnto(n)
               \/ \E c \in Clusters : Mkd(n, c)
        PROVE  Inv'
    BY <2>4, DirectoryInv
  <2> QED BY <1>2, <2>1, <2>2, <2>3, <2>4 DEF Command
<1>3. CASE UNCHANGED vars
  BY <1>3 DEF vars, dirVars, lockVars, xferVars, Inv, TypeOK, CountsOpens, OpenCount,
              HandlerHolds, BlocksMoved
<1> QED BY <1>1, <1>2, <1>3 DEF Next

-----------------------------------------------------------------------------

\* Inv holds at every state of every behaviour.
THEOREM SpecInv == Spec => []Inv
<1>1. Init => Inv
  BY InitInv
<1>2. Inv /\ [Next]_vars => Inv'
  BY StepInv
<1> QED BY <1>1, <1>2, PTL DEF Spec

\* The types of the storage, for any volume and any FS_LOCK.
THEOREM TypeThm == Spec => []TypeOK
<1>1. Inv => TypeOK
  BY DEF Inv
<1> QED BY <1>1, SpecInv, PTL

\* The table of ff.c says exactly what is open, with what is never closed
\* counted in, whatever calls of the handlers fail.
THEOREM CountsOpensThm == Spec => []CountsOpens
<1>1. Inv => CountsOpens
  BY DEF Inv
<1> QED BY <1>1, SpecInv, PTL

\* No command touches a file that is open: only the STOR that has it open.
THEOREM OpenFileStaysThm == Spec => OpenFileStays
<1> DEFINE Stays == \A i \in Slots : \A n \in Names :
             Files[i].key = n => /\ entry'[n] = "file"
                                 /\ size'[n] # size[n] => pc = "storClose" /\ fp = i
<1>1. ASSUME Inv, [Next]_vars PROVE Stays
  <2> USE <1>1 DEF dirVars
  <2>1. ASSUME UNCHANGED <<entry, size>> PROVE Stays
    BY <2>1 DEF Inv, CountsOpens
  <2>2. ASSUME Untouched PROVE Stays
    BY <2>2 DEF Untouched
  <2>3. CASE StorClose
    <3>1. /\ fp \in Slots /\ Files[fp].key = name /\ name # NoKey
          /\ pc = "storClose" /\ UNCHANGED entry
      BY <2>3, VolumeAssumption DEF StorClose, Inv, HandlerHolds, Writing, TypeOK, Keys
    <3>2. \A n \in Names : size'[n] # size[n] => n = name
      BY <2>3 DEF StorClose, Inv, TypeOK
    <3>3. \A i \in Slots : Files[i].key = name => i = fp
      BY <3>1 DEF Inv, CountsOpens
    <3> QED BY <3>1, <3>2, <3>3 DEF Inv, CountsOpens
  <2>4. CASE Transfer /\ ~StorClose
    BY <2>1, <2>4 DEF Transfer, Retr150, Retr150Fails, RetrBlock, RetrFault, RetrEof, RetrClose,
       Retr226, Stor150, Stor150Fails, StorBlock, StorFull, StorFault, StorEnd, Stor226,
       StorCloseFails, List150, List150Fails, ListClose, List226
  <2>5. CASE Command
    <3>1. CASE \E c \in Dirs : ListOpen(c)
      BY <2>1, <3>1 DEF ListOpen
    <3>2. CASE \E c \in Dirs : Cwd(c)
      BY <2>1, <3>2 DEF Cwd
    <3>3. ASSUME NEW n \in Names, RetrOpen(n) \/ Rnfr(n) PROVE Stays
      BY <2>1, <3>3 DEF RetrOpen, Rnfr
    <3>4. ASSUME NEW n \in Names,
                 \/ StorOpen(n) \/ StorOpenFails(n) \/ Remove(n) \/ Rnto(n)
                 \/ \E c \in Clusters : Mkd(n, c)
          PROVE  Stays
      BY <2>2, <3>4, DirectoryUntouched
    <3> QED BY <2>5, <3>1, <3>2, <3>3, <3>4 DEF Command
  <2>6. CASE UNCHANGED vars
    BY <2>1, <2>6 DEF vars
  <2> QED BY <2>3, <2>4, <2>5, <2>6 DEF Next
<1>2. ASSUME Inv, [Next]_vars PROVE [Stays]_vars
  BY <1>1, <1>2
<1> QED BY <1>2, SpecInv, PTL DEF Spec, OpenFileStays

\* A transfer without a fault moved the whole file.
THEOREM WholeUnlessFaultThm == Spec => WholeUnlessFault
<1>1. Inv => (Retr226 /\ fault = "none" => moved = size[name])
  BY DEF Inv, BlocksMoved, Retr226
<1>2. ASSUME Inv, [Next]_vars
      PROVE  pc = "storClose" /\ pc' = "idle" /\ fault' = "none" => size'[name] = moved
  <2> SUFFICES ASSUME pc = "storClose", pc' = "idle", fault' = "none"
               PROVE  size'[name] = moved
    OBVIOUS
  <2>1. Transfer
    BY <1>2 DEF Next, vars, Command, RetrOpen, StorOpen, StorOpenFails, Remove, Rnfr,
       Rnto, Mkd, ListOpen, Cwd
  <2>2. StorClose
    BY <2>1 DEF Transfer, Retr150, Retr150Fails, RetrBlock, RetrFault, RetrEof, RetrClose,
       Retr226, Stor150, Stor150Fails, StorBlock, StorFull, StorFault, StorEnd, Stor226,
       StorCloseFails, List150, List150Fails, ListClose, List226
  <2>3. fault = "none" /\ fsize = moved
    BY <1>2, <2>2 DEF StorClose, Inv, BlocksMoved, Writing
  <2> QED BY <1>2, <2>2, <2>3 DEF StorClose, Inv, TypeOK
<1>3. ASSUME Inv, [Next]_vars
      PROVE  [/\ Retr226 /\ fault = "none" => moved = size[name]
              /\ pc = "storClose" /\ pc' = "idle" /\ fault' = "none" => size'[name] = moved]_vars
  BY <1>1, <1>2, <1>3
<1> QED BY <1>3, SpecInv, PTL DEF Spec, WholeUnlessFault
=============================================================================
