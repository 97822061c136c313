------------------------------ MODULE FatVolume ------------------------------
(***************************************************************************)
(* fatfs/ff.c below the names: clusters, the FAT, directory tables and the *)
(* one sector window (_FS_TINY) through which all of them are reached, as  *)
(* STOR, DELE, RMD, MKD and RNTO use them.  A call is in steps between     *)
(* disk accesses, each of which may fail; the power may go at any time:    *)
(* what the window held and the card did not is gone then.                 *)
(*                                                                         *)
(* view is the volume as ff.c sees it, with the window's sector from       *)
(* memory; card is what the card holds.  One sector is one cluster of one  *)
(* block (csize 1), writing a sector is atomic, the volume is FAT32, so    *)
(* the root is a chain.  The second FAT is never read and is left out; so  *)
(* are FSINFO (which only moves the window and suggests where to search),  *)
(* and the FR_INT_ERR returns: that no step gets stuck for want of them is *)
(* what the deadlock check shows.                                          *)
(***************************************************************************)
EXTENDS Integers, FiniteSets

CONSTANTS
  Names,        \* names of directory entries
  LAST,         \* the last cluster: n_fatent - 1
  PER,          \* FAT entries in a sector
  ENTS,         \* directory entries in a sector
  MAX_BLOCKS,   \* bound: blocks of a file
  MAX_CALLS,    \* bound: commands in a behaviour
  MAX_TROUBLES  \* bound: disk accesses that fail, and power failures

Root     == 2
Clusters == Root .. LAST
EOC      == LAST + 1
Slots    == 1 .. ENTS
NoSector == 0           \* winsect 0xFFFFFFFF, or a sector that is none of these
FatOf(c) == EOC + 1 + c \div PER
Sectors  == Clusters \cup {FatOf(c) : c \in Clusters}

ASSUME FatAssumption ==
  /\ LAST \in Nat /\ LAST > Root /\ PER \in Nat \ {0} /\ ENTS \in Nat \ {0}
  /\ {"end", "gone"} \cap Names = {}
  /\ MAX_BLOCKS \in Nat /\ MAX_CALLS \in Nat /\ MAX_TROUBLES \in Nat

\* What a sector holds: a directory, the text of one STOR, or what was there
\* before.
Tab   == 0
Old   == -1
Texts == 1 .. MAX_CALLS

Links   == {0, EOC} \cup Clusters
Blocks  == 0 .. MAX_BLOCKS
Starts  == {0} \cup Clusters
Entry   == [name : Names \cup {"end", "gone"}, kind : {"file", "dir"},
            start : Starts, size : Blocks]
Content == [text : Texts \cup {Tab, Old}, up : Starts, ents : [Slots -> Entry]]
Volume  == [fat : [Clusters -> Links], data : [Clusters -> Content]]
Promise == [text : Texts, size : Blocks]
NoPromise == [text |-> Old, size |-> 0]
Place   == Starts \X (0 .. ENTS)
NoPlace == <<0, 0>>

\* Only a table has entries here.  What the bytes of any other sector would read
\* as is left out: no call reads entries there (TablesSound), and no property
\* looks at those of a directory (WithoutRaw).  The mark of a free entry tells
\* whether used ones may follow.
Unused(mark) == [name |-> mark, kind |-> "file", start |-> 0, size |-> 0]
Table(up)    == [text |-> Tab, up |-> up, ents |-> [s \in Slots |-> Unused("end")]]
Datum(t)     == [Table(0) EXCEPT !.text = t]

VARIABLES
  view, card,       \* the volume as ff.c sees it, and on the card
  win, wflag,       \* the sector in the window, and whether it was changed
  last_clust,       \* where create_chain() begins to search
  pc, call,         \* the step a call is at, and its locals
  open,             \* the file that is open, as Files[] knows it
  kept,             \* history: what f_close() has said is stored
  dropped,          \* history: clusters of deleted files, directories cut off
  crossed,          \* history: a rename was left with both names
  raw,              \* history: clusters of a directory not cleared yet
  calls, troubles   \* commands; accesses that failed, and power failures

diskVars == <<view, card, win, wflag, last_clust>>
history  == <<kept, dropped, crossed, raw, calls, troubles>>
vars     == <<diskVars, pc, call, open, history>>

\* DIR (dir, name, clust, slot), the entry it found, the DIR of the old name,
\* create_chain (prev, scl, ncl), remove_chain (clst), f_mkdir (dcl) and the
\* FIL (sclust, last, size, text); promise is history.
NoCall ==
  [cmd |-> "none", dir |-> 0, name |-> "end", clust |-> 0, slot |-> 0,
   entry |-> Unused("end"), odir |-> 0, oclust |-> 0, oslot |-> 0, walk |-> 0,
   prev |-> 0, scl |-> 0, ncl |-> 0, clst |-> 0, dcl |-> 0,
   sclust |-> 0, last |-> 0, size |-> 0, text |-> Old, promise |-> NoPromise]

\* Steps that wait for sync_window(), steps at the directory sector of call,
\* and steps at the FAT entry of it.
Syncing == {"part", "stretch", "stretched", "mkdSync", "mkdDots", "sync"}
InDir   == {"find", "alloc", "register", "reopen", "close"}
InFat   == {"findNext", "allocNext"}
Others  == {"idle", "found", "missing", "empty", "emptyNext", "seek", "remove",
            "dotdot", "free", "scan", "link", "more", "data", "whole"}

Locals ==
  [cmd : {"none", "stor", "unlink", "mkd", "rnto"}, dir : Starts,
   name : Names \cup {"end"}, clust : Starts, slot : 0 .. ENTS, entry : Entry,
   odir : Starts, oclust : Starts, oslot : 0 .. ENTS, walk : Starts,
   prev : Starts, scl : 0 .. LAST, ncl : Starts, clst : Starts, dcl : Starts,
   sclust : Starts, last : Starts, size : Blocks, text : Texts \cup {Old},
   promise : Promise \cup {NoPromise}]

TypeOK ==
  /\ view \in Volume /\ card \in Volume
  /\ win \in Sectors \cup {NoSector} /\ wflag \in BOOLEAN
  /\ last_clust \in 0 .. LAST
  /\ pc \in Syncing \cup InDir \cup InFat \cup Others
  /\ call \in Locals
  /\ open \in Place
  /\ kept \in [Clusters -> [Names -> Promise \cup {NoPromise}]]
  /\ dropped \subseteq Clusters /\ raw \subseteq Clusters /\ crossed \in BOOLEAN
  /\ calls \in 0 .. MAX_CALLS /\ troubles \in 0 .. MAX_TROUBLES

-----------------------------------------------------------------------------
(* What is on a volume m.                                                  *)

\* The clusters of the chain that begins with c, and whether it has an end.
Chain(m, c) ==
  LET f[i \in 0 .. LAST] ==
        IF i = 0 THEN {c} \cap Clusters
        ELSE LET cs == f[i - 1] IN cs \cup ({m.fat[b] : b \in cs} \cap Clusters)
  IN  f[LAST - Root]
Ends(m, c) == \E b \in Chain(m, c) : m.fat[b] = EOC

\* The cluster of block i of the file that begins with c.
BlockAt(m, c, i) ==
  LET f[j \in 0 .. MAX_BLOCKS] ==
        IF j = 0 THEN c
        ELSE LET b == f[j - 1] IN IF b \in Clusters THEN m.fat[b] ELSE b
  IN  f[i]

Used(e) == e.name \in Names
EntriesOf(m, d) ==
  {e \in {m.data[c].ents[s] : c \in Chain(m, d), s \in Slots} : Used(e)}

\* The directories that can be reached from the root.
Dirs(m) ==
  LET R[i \in 0 .. LAST - Root] ==
        IF i = 0 THEN {Root}
        ELSE LET ds == R[i - 1]
             IN  ds \cup {e.start : e \in {x \in UNION {EntriesOf(m, d) : d \in ds} :
                                           x.kind = "dir"}}
  IN  R[LAST - Root]

\* Where the entries in use are: directory, cluster and slot.
Places(m) ==
  {p \in UNION {{d} \X Chain(m, d) \X Slots : d \in Dirs(m)} :
     Used(m.data[p[2]].ents[p[3]])}
EntryAt(m, p) == m.data[p[2]].ents[p[3]]

Reached(m) ==
  Chain(m, Root) \cup UNION {Chain(m, EntryAt(m, p).start) : p \in Places(m)}

\* The file of d and n is there, and has what f_close() said is stored.
Intact(m, d, n, p) ==
  \E e \in EntriesOf(m, d) :
    /\ e.name = n /\ e.kind = "file" /\ e.size = p.size
    /\ \A i \in 0 .. p.size - 1 :
         LET c == BlockAt(m, e.start, i)
         IN  c \in Clusters /\ m.data[c].text = p.text

-----------------------------------------------------------------------------
(* The window.                                                             *)

\* The volume may have any files that are whole; here it is freshly formatted,
\* with whatever the free clusters held before.
Init ==
  /\ view = [fat  |-> [c \in Clusters |-> IF c = Root THEN EOC ELSE 0],
             data |-> [c \in Clusters |-> IF c = Root THEN Table(0) ELSE Datum(Old)]]
  /\ card = view /\ win = NoSector /\ wflag = FALSE /\ last_clust = 0
  /\ pc = "idle" /\ call = NoCall /\ open = NoPlace
  /\ kept = [d \in Clusters |-> [n \in Names |-> NoPromise]]
  /\ dropped = {} /\ raw = {} /\ crossed = FALSE
  /\ calls = 0 /\ troubles = 0

\* The sector the next step works on; win when it needs none.
Needs ==
  CASE pc \in InDir -> call.clust
    [] pc \in InFat -> FatOf(call.clust)
    [] pc = "empty" -> call.clst
    [] pc \in {"emptyNext", "free"} -> FatOf(call.clst)
    [] pc = "remove" -> call.oclust
    [] pc = "seek" /\ call.walk # call.oclust -> FatOf(call.walk)
    [] pc = "dotdot" -> call.entry.start
    [] pc = "scan" -> FatOf(call.ncl)
    [] pc = "link" -> FatOf(call.prev)
    [] pc = "more" -> FatOf(call.last)
    [] OTHER -> win

Elsewhere == Needs # win
At(step)  == pc = step /\ IF step \in Syncing THEN ~wflag ELSE ~Elsewhere

\* The card with the sector of the window written to it.
Written ==
  [fat  |-> [c \in Clusters |-> IF FatOf(c) = win THEN view.fat[c] ELSE card.fat[c]],
   data |-> [c \in Clusters |-> IF c = win THEN view.data[c] ELSE card.data[c]]]

\* sync_window() of a sector that was changed.
Flush ==
  /\ wflag /\ (pc \in Syncing \/ Elsewhere)
  /\ card' = Written /\ wflag' = FALSE
  /\ UNCHANGED <<view, win, last_clust, pc, call, open, history>>

\* Mutated form of Load: what the window held is not written back first.
LoadOver ==
  /\ Elsewhere /\ win' = Needs /\ wflag' = FALSE
  /\ UNCHANGED <<view, card, last_clust, pc, call, open, history>>

\* move_window() reads the sector.
Load ==
  /\ Elsewhere /\ ~wflag
  /\ win' = Needs
  /\ UNCHANGED <<view, card, wflag, last_clust, pc, call, open, history>>

-----------------------------------------------------------------------------
(* Ends of a call.                                                         *)

Return == pc' = "idle" /\ call' = NoCall
\* The place of the entry, and whether the call has opened it for writing.
Here   == <<call.clust, call.slot>>
Opened == call.cmd = "stor" /\ open = Here

Local  == UNCHANGED <<diskVars, open, history>>
Goto(step) == pc' = step /\ UNCHANGED call

\* The call gives up without having changed anything.
Refused == Return /\ Local

\* Both names of a rename are on volume m.
BothOn(m) ==
  /\ call.cmd = "rnto" /\ call.entry.start # 0
  /\ Cardinality({p \in Places(m) : EntryAt(m, p).start = call.entry.start}) > 1

\* Where a disk error leads: STOR goes on to f_close(), f_mkdir() frees its
\* cluster, the others return.
GivesUp ==
  IF Opened /\ pc \notin {"close", "sync"}
  THEN pc' = "close" /\ UNCHANGED <<call, crossed>>
  ELSE IF call.cmd = "mkd" /\ call.dcl # 0 /\ pc \notin {"free", "sync"}
  THEN pc' = "free" /\ call' = [call EXCEPT !.clst = call.dcl] /\ UNCHANGED crossed
  ELSE Return /\ crossed' = (crossed \/ BothOn(view) \/ BothOn(card))

Fault ==
  /\ troubles < MAX_TROUBLES /\ troubles' = troubles + 1
  /\ GivesUp
  /\ UNCHANGED <<view, card, last_clust, open, kept, dropped, raw, calls>>

\* disk_write() fails; the window stays as it is.
FlushFails ==
  /\ wflag /\ (pc \in Syncing \/ Elsewhere)
  /\ Fault /\ UNCHANGED <<win, wflag>>

\* disk_read() fails: the window is of no sector.
LoadFails ==
  /\ Elsewhere /\ ~wflag
  /\ Fault /\ win' = NoSector /\ UNCHANGED wflag

-----------------------------------------------------------------------------
(* The helpers: directory search, allocation, chains.                      *)

Ents(c)  == view.data[c].ents
SetEntry(c, s, e) == view' = [view EXCEPT !.data[c].ents[s] = e]
SetLink(c, v)     == view' = [view EXCEPT !.fat[c] = v]

\* dir_find() in one sector; the mark "end" ends the search.
Find ==
  /\ At("find") /\ Local
  /\ LET hits == {s \in Slots : Ents(call.clust)[s].name = call.name}
     IN  IF hits # {}
         THEN \E s \in hits :
                pc' = "found" /\ call' = [call EXCEPT !.slot = s]
         ELSE Goto(IF \E s \in Slots : Ents(call.clust)[s].name = "end"
                   THEN "missing" ELSE "findNext")

\* dir_next() to the next cluster of the table; dir_alloc() starts again.
Follow(step, back, last) ==
  /\ At(step) /\ Local
  /\ LET nxt == view.fat[call.clust]
     IN  \/ nxt \in Clusters /\ pc' = back /\ call' = [call EXCEPT !.clust = nxt]
         \/ nxt = EOC /\ last

FindNext  == Follow("findNext", "find", Goto("missing"))

\* dir_alloc() in one sector.
Alloc ==
  /\ At("alloc") /\ Local
  /\ LET unused == {s \in Slots : ~Used(Ents(call.clust)[s])}
     IN  IF unused = {} THEN Goto("allocNext")
         ELSE \E s \in unused :
                /\ \A r \in unused : s <= r
                /\ pc' = "register" /\ call' = [call EXCEPT !.slot = s]

\* The cluster after c, in the order of create_chain().
After(c) == IF c >= LAST THEN Root ELSE c + 1

\* create_chain() looks for a free cluster after prev, or with prev 0 after
\* the hint, to start a chain.
Scans(prev) ==
  LET scl == IF prev # 0 THEN prev ELSE IF last_clust = 0 THEN 1 ELSE last_clust
  IN  /\ pc' = "scan"
      /\ call' = [call EXCEPT !.prev = prev, !.scl = scl, !.ncl = After(scl)]
AllocNext ==
  Follow("allocNext", "alloc", Scans(call.clust))

\* What is done with the new cluster: f_write() fills it, f_mkdir() makes it
\* a table, dir_next() lengthens one with it.
Allocated ==
  LET rest == [call EXCEPT !.prev = 0, !.scl = 0]
      ncl  == call.ncl
  IN  /\ last_clust' = ncl
      /\ IF Opened
         THEN /\ pc' \in {"whole", "part"}
              /\ call' = [rest EXCEPT !.last = ncl, !.sclust = IF @ = 0 THEN ncl ELSE @]
         ELSE IF call.cmd = "mkd" /\ call.dcl = 0
         THEN pc' = "mkdSync" /\ call' = [rest EXCEPT !.dcl = ncl]
         ELSE pc' = "stretch" /\ call' = rest

\* No cluster is free: f_write() writes less than asked, the rest is denied.
NoSpace ==
  IF Opened
  THEN pc' = "data" /\ call' = [call EXCEPT !.prev = 0, !.scl = 0, !.ncl = 0]
  ELSE IF call.cmd = "mkd" /\ call.dcl # 0
  THEN pc' = "free" /\ call' = [call EXCEPT !.clst = call.dcl]
  ELSE Return

Scan ==
  /\ At("scan") /\ UNCHANGED <<card, win, open, history>>
  /\ IF view.fat[call.ncl] = 0
     THEN /\ SetLink(call.ncl, EOC) /\ wflag' = TRUE
          /\ IF call.prev = 0 THEN Allocated
             ELSE Goto("link") /\ UNCHANGED last_clust
     ELSE /\ UNCHANGED <<view, wflag, last_clust>>
          /\ IF call.ncl = call.scl \/ (call.scl = 1 /\ call.ncl = LAST)
             THEN NoSpace
             ELSE pc' = "scan" /\ call' = [call EXCEPT !.ncl = After(@)]

Link ==
  /\ At("link") /\ UNCHANGED <<card, win, open>>
  /\ SetLink(call.prev, call.ncl) /\ wflag' = TRUE
  /\ Allocated
  /\ raw' = IF pc' = "stretch" THEN raw \cup {call.ncl} ELSE raw
  /\ UNCHANGED <<kept, dropped, crossed, calls, troubles>>

\* dir_next() clears the new cluster of the table, after the FAT is written.
Stretch ==
  /\ At("stretch") /\ Goto("stretched")
  /\ view' = [view EXCEPT !.data[call.ncl] = Table(0)]
  /\ win' = call.ncl /\ wflag' = TRUE
  /\ UNCHANGED <<card, last_clust, open, history>>

Stretched ==
  /\ At("stretched") /\ pc' = "alloc"
  /\ call' = [call EXCEPT !.clust = call.ncl, !.ncl = 0]
  /\ raw' = {}
  /\ UNCHANGED <<diskVars, open, kept, dropped, crossed, calls, troubles>>

\* Mutated form of Free: the mark of the last link is taken for a cluster.
FreePastEnd ==
  /\ At("free") /\ UNCHANGED <<card, win, last_clust, open, history>>
  /\ SetLink(call.clst, 0) /\ wflag' = TRUE
  /\ pc' = "free" /\ call' = [call EXCEPT !.clst = view.fat[call.clst]]

\* remove_chain(), one link at a time.
Free ==
  /\ At("free") /\ UNCHANGED <<card, win, open, history>>
  /\ last_clust' = IF call.cmd = "stor" /\ view.fat[call.clst] \notin Clusters
                   THEN call.entry.start - 1 ELSE last_clust
  /\ SetLink(call.clst, 0) /\ wflag' = TRUE
  /\ LET nxt == view.fat[call.clst]
     IN  IF nxt \in Clusters
         THEN pc' = "free" /\ call' = [call EXCEPT !.clst = nxt]
         ELSE CASE call.cmd = "stor" ->
                     pc' = "reopen" /\ call' = [call EXCEPT !.clst = 0]
                [] call.cmd = "unlink" ->
                     pc' = "sync" /\ call' = [call EXCEPT !.clst = 0]
                [] OTHER -> Return

\* dir_sdi() of dir_remove() follows the table to the cluster of the entry.
Seek ==
  /\ At("seek") /\ Local
  /\ IF call.walk = call.oclust THEN Goto("remove")
     ELSE /\ view.fat[call.walk] \in Clusters
          /\ pc' = "seek" /\ call' = [call EXCEPT !.walk = view.fat[@]]

-----------------------------------------------------------------------------
(* The calls.                                                              *)

\* A command, on a name of some directory; f_rename() has the old one first.
Begin(cmd, d, n) ==
  /\ pc = "idle" /\ pc' = "find" /\ ~crossed /\ raw = {}
  /\ d \in Dirs(view)
  /\ calls < MAX_CALLS /\ calls' = calls + 1
  /\ call' = [NoCall EXCEPT !.cmd = cmd, !.dir = d, !.clust = d, !.name = n,
                            !.text = IF cmd = "stor" THEN calls' ELSE Old]
  /\ UNCHANGED <<diskVars, open, kept, dropped, crossed, raw, troubles>>

Found   == Ents(call.clust)[call.slot]
Forget(d, n) == kept' = [kept EXCEPT ![d][n] = NoPromise]
OnlyKept == UNCHANGED <<dropped, crossed, raw, calls, troubles>>

\* Mutated form of StorFound: the entry keeps its start when the chain is freed.
StorFoundLeads ==
  /\ At("found") /\ call.cmd = "stor"
  /\ IF open # NoPlace \/ Found.kind = "dir" \/ Found.start = 0 THEN Refused
     ELSE /\ SetEntry(call.clust, call.slot, [Found EXCEPT !.size = 0])
          /\ wflag' = TRUE /\ Forget(call.dir, call.name) /\ OnlyKept
          /\ pc' = "free" /\ call' = [call EXCEPT !.clst = Found.start, !.entry = Found]
          /\ UNCHANGED <<card, win, last_clust, open>>

\* Mutated form of StorFound: the chain is not freed.
StorFoundLoses ==
  /\ At("found") /\ call.cmd = "stor"
  /\ IF open # NoPlace \/ Found.kind = "dir" THEN Refused
     ELSE /\ SetEntry(call.clust, call.slot, [Found EXCEPT !.start = 0, !.size = 0])
          /\ wflag' = TRUE /\ Forget(call.dir, call.name) /\ OnlyKept
          /\ Goto("data") /\ open' = Here
          /\ UNCHANGED <<card, win, last_clust>>

\* f_open() of an existing file: emptied in the window, then in the FAT.  With
\* one entry in Files[] nothing may be open.
StorFound ==
  /\ At("found") /\ call.cmd = "stor"
  /\ IF open # NoPlace \/ Found.kind = "dir" THEN Refused
     ELSE /\ SetEntry(call.clust, call.slot, [Found EXCEPT !.start = 0, !.size = 0])
          /\ wflag' = TRUE /\ Forget(call.dir, call.name) /\ OnlyKept
          /\ IF Found.start = 0
             THEN pc' = "data" /\ open' = Here /\ UNCHANGED call
             ELSE /\ pc' = "free" /\ call' = [call EXCEPT !.clst = Found.start, !.entry = Found]
                  /\ UNCHANGED open
          /\ UNCHANGED <<card, win, last_clust>>

StorMissing ==
  /\ At("missing") /\ call.cmd = "stor"
  /\ IF open # NoPlace THEN Refused
     ELSE /\ pc' = "alloc" /\ call' = [call EXCEPT !.clust = call.dir]
          /\ Local

\* The directory sector is in the window again, and the file is open.
Reopen ==
  /\ At("reopen") /\ Goto("data")
  /\ open' = Here
  /\ UNCHANGED <<diskVars, history>>

\* dir_register() and what the caller puts into the new entry.
Register ==
  /\ At("register") /\ wflag' = TRUE
  /\ LET new == [name |-> call.name, kind |-> "file", start |-> 0, size |-> 0]
     IN  CASE call.cmd = "stor" ->
                /\ SetEntry(call.clust, call.slot, new)
                /\ open' = Here /\ Goto("data") /\ UNCHANGED history
           [] call.cmd = "mkd" ->
                /\ SetEntry(call.clust, call.slot,
                            [new EXCEPT !.kind = "dir", !.start = call.dcl])
                /\ Goto("sync") /\ UNCHANGED <<open, history>>
           [] OTHER ->
                /\ SetEntry(call.clust, call.slot,
                            [call.entry EXCEPT !.name = call.name])
                /\ Forget(call.odir, call.entry.name) /\ OnlyKept
                /\ pc' = IF call.entry.kind = "dir" /\ call.odir # call.dir
                         THEN "dotdot" ELSE "seek"
                /\ call' = [call EXCEPT !.promise = kept[call.odir][call.entry.name]]
                /\ UNCHANGED open
  /\ UNCHANGED <<card, win, last_clust>>

\* The handler returns and the file stays open: 150 could not be sent.
StorAbandoned ==
  /\ pc = "data" /\ call.size = 0 /\ call.sclust = 0
  /\ Refused

\* f_write() of a block.
StorMore ==
  /\ pc = "data" /\ call.size < MAX_BLOCKS /\ Local
  /\ IF call.sclust = 0 THEN Scans(0) ELSE Goto("more")

More ==
  /\ At("more") /\ Local
  /\ view.fat[call.last] = EOC
  /\ Scans(call.last)

Stored ==
  /\ pc' = "data" /\ call' = [call EXCEPT !.ncl = 0, !.size = @ + 1]
  /\ view' = [view EXCEPT !.data[call.ncl] = Datum(call.text)]
  /\ UNCHANGED <<last_clust, open, history>>

\* Full sectors go to the card past the window; clust2sect() has the place.
StorWhole ==
  /\ At("whole") /\ call.ncl \in Clusters /\ Stored
  /\ card' = [card EXCEPT !.data[call.ncl] = Datum(call.text)]
  /\ wflag' = (wflag /\ win # call.ncl) /\ UNCHANGED win

StorWholeFails ==
  /\ At("whole") /\ Fault /\ UNCHANGED <<win, wflag>>

\* The rest of a file goes to the card by the window, which is not read first.
StorPart ==
  /\ At("part") /\ Stored
  /\ win' = call.ncl /\ wflag' = TRUE /\ UNCHANGED card

StorEnd ==
  /\ pc = "data" /\ Goto("close") /\ Local

\* f_sync() enters the start and the size of the file.
Close ==
  /\ At("close") /\ Goto("sync")
  /\ SetEntry(call.clust, call.slot,
              [Found EXCEPT !.start = call.sclust, !.size = call.size])
  /\ wflag' = TRUE /\ UNCHANGED <<card, win, last_clust, open, history>>

\* Mutated form of Sync: the call ends with its sector still in the window.
SyncLate ==
  /\ pc = "sync" /\ Return
  /\ call.cmd = "stor" /\ open' = NoPlace
  /\ kept' = [kept EXCEPT ![call.dir][call.name] =
                [text |-> call.text, size |-> call.size]]
  /\ OnlyKept /\ UNCHANGED diskVars

\* sync_fs(), and the end of the call.
Sync ==
  /\ At("sync") /\ Return
  /\ CASE call.cmd = "stor" ->
            /\ open' = NoPlace
            /\ kept' = [kept EXCEPT ![call.dir][call.name] =
                          [text |-> call.text, size |-> call.size]]
       [] call.cmd = "rnto" ->
            /\ kept' = [kept EXCEPT ![call.dir][call.name] = call.promise]
            /\ UNCHANGED open
       [] OTHER -> UNCHANGED <<kept, open>>
  /\ OnlyKept /\ UNCHANGED diskVars

\* f_unlink(): what is open stays; a directory must be empty.
OldIsHere ==
  [call EXCEPT !.odir = call.dir, !.oclust = call.clust, !.oslot = call.slot,
               !.walk = call.dir, !.entry = Found]
UnlinkFound ==
  /\ At("found") /\ call.cmd = "unlink" /\ Local
  /\ IF open = Here THEN Return
     ELSE IF Found.kind = "dir"
     THEN pc' = "empty" /\ call' = [OldIsHere EXCEPT !.clst = Found.start]
     ELSE pc' = "seek" /\ call' = OldIsHere

UnlinkMissing == At("missing") /\ call.cmd = "unlink" /\ Refused

\* dir_read() of the directory to be removed.
Empty ==
  /\ At("empty") /\ Local
  /\ IF \E s \in Slots : Used(Ents(call.clst)[s]) THEN Return
     ELSE Goto(IF \E s \in Slots : Ents(call.clst)[s].name = "end"
               THEN "seek" ELSE "emptyNext")

EmptyNext ==
  /\ At("emptyNext") /\ Local
  /\ LET nxt == view.fat[call.clst]
     IN  IF nxt \in Clusters
         THEN pc' = "empty" /\ call' = [call EXCEPT !.clst = nxt]
         ELSE Goto("seek")

\* What a removed entry leads to and nothing leads to any more: the chain of
\* a file, or a directory that was moved into itself.
CutOff(m) ==
  LET gone == [view EXCEPT !.data[call.oclust].ents[call.oslot] = Unused("gone")]
  IN  {c \in Clusters : c \in Reached(m) \ Reached(gone)}

\* dir_remove(), and in f_unlink() the chain of a directory.
Remove ==
  /\ At("remove")
  /\ SetEntry(call.oclust, call.oslot, Unused("gone")) /\ wflag' = TRUE
  /\ IF call.cmd = "unlink" /\ call.entry.kind = "dir"
     THEN /\ pc' = "free" /\ call' = [call EXCEPT !.clst = call.entry.start]
          /\ UNCHANGED dropped
     ELSE Goto("sync") /\ dropped' = dropped \cup CutOff(view)
  /\ IF call.cmd = "unlink" THEN Forget(call.odir, call.entry.name) ELSE UNCHANGED kept
  /\ UNCHANGED <<card, win, last_clust, open, crossed, raw, calls, troubles>>

\* f_mkdir(): the cluster is taken, then made a table, then entered.
MkdFound == At("found") /\ call.cmd = "mkd" /\ Refused

MkdMissing ==
  /\ At("missing") /\ call.cmd = "mkd" /\ Local
  /\ Scans(0)

MkdTable ==
  /\ At("mkdSync") /\ Goto("mkdDots")
  /\ view' = [view EXCEPT !.data[call.dcl] = Table(call.dir)]
  /\ win' = call.dcl /\ wflag' = TRUE
  /\ UNCHANGED <<card, last_clust, open, history>>

MkdDots ==
  /\ At("mkdDots") /\ Local
  /\ pc' = "alloc" /\ call' = [call EXCEPT !.clust = call.dir, !.ncl = 0]

\* f_rename(): the old name, then the new one.
RntoFound ==
  /\ At("found") /\ call.cmd = "rnto" /\ Local
  /\ IF call.odir # 0 \/ open = Here THEN Return
     ELSE \E d \in Clusters, n \in Names :
            /\ d \in Dirs(view) /\ pc' = "find"
            /\ call' = [OldIsHere EXCEPT !.dir = d, !.clust = d, !.name = n, !.slot = 0]

RntoMissing ==
  /\ At("missing") /\ call.cmd = "rnto" /\ Local
  /\ IF call.odir = 0 THEN Return
     ELSE pc' = "alloc" /\ call' = [call EXCEPT !.clust = call.dir]

\* Mutated form of Dotdot: a directory that is moved keeps its old ..
DotdotKept == At("dotdot") /\ Goto("seek") /\ Local

\* The .. of a directory that goes to another one.
Dotdot ==
  /\ At("dotdot") /\ Goto("seek")
  /\ view' = [view EXCEPT !.data[call.entry.start].up = call.dir]
  /\ wflag' = TRUE /\ UNCHANGED <<card, win, last_clust, open, history>>

\* Power failure or reset: the volume is mounted again from the card.
Crash ==
  /\ troubles < MAX_TROUBLES /\ troubles' = troubles + 1
  /\ view' = card /\ win' = NoSector /\ wflag' = FALSE /\ last_clust' = 0
  /\ Return /\ open' = NoPlace
  /\ crossed' = (crossed \/ BothOn(card))
  /\ raw' = {c \in raw : \E b \in Clusters : card.fat[b] = c}
  /\ UNCHANGED <<card, kept, dropped, calls>>

\* Bound: nothing more is done with a volume whose directory is not whole, or
\* which has a file under two names.
Stopped ==
  /\ pc = "idle" /\ (crossed \/ raw # {} \/ calls = MAX_CALLS)
  /\ UNCHANGED vars

Command ==
  \E d \in Clusters, n \in Names, cmd \in {"stor", "unlink", "mkd", "rnto"} :
    Begin(cmd, d, n)

Step ==
  \/ Find \/ FindNext \/ Alloc \/ AllocNext \/ Scan \/ Link \/ Stretch \/ Stretched
  \/ Free \/ Seek
  \/ StorFound \/ StorMissing \/ Reopen \/ Register \/ StorAbandoned \/ StorMore
  \/ More \/ StorWhole \/ StorPart \/ StorEnd \/ Close \/ Sync
  \/ UnlinkFound \/ UnlinkMissing \/ Empty \/ EmptyNext \/ Remove
  \/ MkdFound \/ MkdMissing \/ MkdTable \/ MkdDots
  \/ RntoFound \/ RntoMissing \/ Dotdot

Next ==
  \/ Command \/ Step \/ Flush \/ Load
  \/ FlushFails \/ LoadFails \/ StorWholeFails \/ Crash \/ Stopped

Spec == Init /\ [][Next]_vars

-----------------------------------------------------------------------------
(* What the volume keeps.                                                  *)

\* What ff.c sees is on the card, but for the one sector of the window.
CardBehindWindow ==
  \A c \in Clusters :
    /\ view.fat[c] = card.fat[c] \/ (wflag /\ win = FatOf(c))
    /\ view.data[c] = card.data[c] \/ (wflag /\ win = c)

\* An unfinished rename: both names are there, and .. may lag behind.
Renaming == call.cmd = "rnto" /\ pc \in {"dotdot", "seek", "remove", "sync"}

\* A volume but for what its raw clusters hold: a power failure or an error before
\* dir_next() clears the cluster it has linked (ff.c:1225, 1230) leaves bytes of
\* another time in the directory, which are read as any entries at all.
WithoutRaw(m) ==
  [m EXCEPT !.data = [c \in Clusters |->
     IF c \in raw THEN [m.data[c] EXCEPT !.ents = Table(0).ents] ELSE m.data[c]]]

Sound(m) ==
  LET places   == Places(m)
      start(p) == EntryAt(m, p).start
      chains   == [p \in places |-> Chain(m, start(p))]
  IN  /\ Ends(m, Root)
      /\ \A p \in places :
           /\ start(p) = 0 \/ Ends(m, start(p))
           /\ EntryAt(m, p).size <= Cardinality(chains[p])
           /\ chains[p] \cap Chain(m, Root) = {}
           /\ \A q \in places \ {p} :
                \/ chains[p] \cap chains[q] = {}
                \/ start(p) = start(q) /\ (Renaming \/ crossed)

\* No power failure and no disk error at any step leaves a chain that ends in
\* a free cluster, a file longer than its chain, or a cluster in two chains,
\* except that an interrupted rename leaves one file two names (ff.c:3690), and
\* that nothing is said of what is read out of a raw cluster, nor of what that
\* leads to.
ChainsSound == \A m \in {card, view} : Sound(WithoutRaw(m))

\* Where a step of a call reads or writes an entry.
EntriesAt ==
  CASE pc \in InDir \cup {"found"} -> {call.clust}
    [] pc = "empty"  -> {call.clst}
    [] pc = "remove" -> {call.oclust}
    [] OTHER         -> {}

\* Every sector of a directory holds a table, with the .. of its parent, unless
\* it is raw; and no call takes the bytes of another sector for entries.
TablesSound ==
  /\ \A m \in {card, view} : \A d \in Dirs(WithoutRaw(m)) :
       /\ \A c \in Chain(m, d) : m.data[c].text = Tab \/ c \in raw
       /\ \A e \in EntriesOf(WithoutRaw(m), d) :
            e.kind = "dir" => m.data[e.start].up = d \/ Renaming \/ crossed
  /\ \A c \in EntriesAt : view.data[c].text = Tab

\* A file whose f_close() has returned is on the card, with all it was given,
\* until a command of its own changes it: through every crash, every error of
\* another command and in the middle of each; a rename has it under the old
\* name or the new one.
ClosedFilesStay ==
  ~crossed =>
    /\ \A d \in Clusters, n \in Names :
         kept[d][n] # NoPromise => Intact(card, d, n, kept[d][n])
    /\ call.promise # NoPromise =>
         \/ Intact(card, call.odir, call.entry.name, call.promise)
         \/ Intact(card, call.dir, call.name, call.promise)

\* As long as nothing has failed, clusters are lost to deleted files only: f_unlink()
\* frees the chain of a directory, but not that of a file, whatever its comment
\* says (ff.c:3516).
OnlyDeletedIsLost ==
  pc = "idle" /\ troubles = 0 =>
    \A c \in Clusters : view.fat[c] # 0 => c \in Reached(view) \cup dropped
=============================================================================
