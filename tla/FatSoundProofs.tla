---------------------------- MODULE FatSoundProofs ----------------------------
(***************************************************************************)
(* The volume is sound at every step of every call, through errors of the  *)
(* disk and power failures: for cards of any size, files of any length and *)
(* tables of any number of sectors.                                        *)
(*                                                                         *)
(* The properties are about the volume, and none is inductive: whether a   *)
(* step keeps them depends on what the call has found out before.  Held    *)
(* adds that.  Known says of every step of a call what it knows: that the  *)
(* name is not in the sectors it has looked through, that the cluster it   *)
(* has taken is in no chain, how much of the text is written, that the     *)
(* directory to be removed is empty.  Sure says that a volume is whole,    *)
(* with the files that were closed, and holds of what ff.c sees and of the *)
(* card.  FreeApart is what keeps the card whole when the FAT sector and   *)
(* the table are written in either order: what is free in the FAT is in no *)
(* use on the card.                                                        *)
(*                                                                         *)
(* Owned is for what gets lost: while nothing has failed, a cluster that   *)
(* is taken is in a chain an entry leads to, or of a deleted file, or in   *)
(* the hands of the call.                                                  *)
(***************************************************************************)
EXTENDS FatVolumeProofs

-----------------------------------------------------------------------------
(* What a call knows of the volume at each step.                           *)

\* A rename has both names on m.
Renamed(m) ==
  /\ Renaming /\ call.entry.start # 0
  /\ UsedIn(m, call.oclust, call.oslot)
  /\ EntryIn(m, call.oclust, call.oslot).start = call.entry.start
  /\ UsedIn(m, call.clust, call.slot)
  /\ EntryIn(m, call.clust, call.slot).start = call.entry.start

\* What may have two names.
Twice(m) == IF crossed THEN Clusters ELSE IF Renamed(m) THEN {call.entry.start} ELSE {}

\* Both names of a rename are in directories that can be reached.
InBoth(m) ==
  Renamed(m) => /\ call.odir \in Dirs(m) /\ call.dir \in Dirs(m)
                /\ call.oclust \in Chain(m, call.odir) /\ call.clust \in Chain(m, call.dir)

\* The file a rename moves has one of its two names.
Promised(m) ==
  call.promise # NoPromise =>
    \/ Intact(m, call.odir, call.entry.name, call.promise)
    \/ Intact(m, call.dir, call.name, call.promise)

\* What holds of what ff.c sees and of the card alike.
Sure(m) ==
  /\ Whole(m, Twice(m), raw)
  /\ ~crossed => FilesHold(m, kept) /\ Promised(m)
  /\ InBoth(m)

\* What is free in the FAT is in no use on the card.
FreeApart == \A c \in Clusters : view.fat[c] = 0 => Outside(card, c)

\* A chain that nothing leads to yet, on the card neither.
Loose(m, k, h) ==
  /\ Head(m, h) /\ ~Lead(m, h)
  /\ \A c \in Chain(m, h) : Bare(m, c) /\ Outside(k, c)
Fresh(m, k, h) == Loose(m, k, h) /\ m.fat[h] = EOC

\* create_chain() is called for the open file, or for a table.
Filling    == Opened /\ pc \in Taking \cup Writing
Stretching == ~Opened /\ pc \in Taking

\* Where the name is not.
NotIn(m, c, name)     == \A s \in Slots : EntryIn(m, c, s).name # name
Absent(m, d, name)    == \A c \in Chain(m, d) : NotIn(m, c, name)
SoFar(m, d, to, name) == \A c \in Chain(m, d) \ Chain(m, to) : NotIn(m, c, name)

\* Full and empty tables.
AllUsed(m, c) == \A s \in Slots : UsedIn(m, c, s)
AllBare(m, h) == \A c \in Chain(m, h) : Bare(m, c)

\* The first n blocks of a chain hold the text t.
BlocksHold(m, h, n, t) ==
  \A i \in 0 .. n - 1 :
    BlockAt(m, h, i) \in Clusters /\ m.data[BlockAt(m, h, i)].text = t

\* A call is in a directory, whose chain it walks.
KnowHere ==
  pc # "idle" =>
    ~crossed /\ DirHead(view, call.dir) /\ call.clust \in Chain(view, call.dir)

\* A sector of a table that was not written yet.
KnowRaw ==
  /\ raw # {} => pc \in {"idle", "stretch", "stretched"} \/ (pc = "free" /\ call.cmd = "mkd")
  /\ pc \in {"stretch", "stretched"} => raw = {call.ncl}

\* The name is not in what was looked through.
KnowSearch ==
  /\ pc \in {"find", "findNext"} => SoFar(view, call.dir, call.clust, call.name)
  /\ pc = "findNext" => NotIn(view, call.clust, call.name)
  /\ pc \in {"missing", "mkdSync", "mkdDots"} \cup Entering \/ Stretching =>
       Absent(view, call.dir, call.name)

\* Where there is room for an entry, or why a table is made longer.
KnowRoom ==
  /\ pc = "allocNext" => AllUsed(view, call.clust)
  /\ pc = "register" => ~UsedIn(view, call.clust, call.slot)
  /\ Stretching => IF call.cmd = "mkd" /\ call.dcl = 0 THEN call.prev = 0
                 ELSE /\ call.prev \in Chain(view, call.dir) /\ view.fat[call.prev] = EOC
                      /\ AllUsed(view, call.prev)
  /\ pc \in {"stretch", "stretched"} =>
       /\ call.ncl \in Chain(view, call.dir) /\ call.ncl # call.dir
       /\ view.fat[call.ncl] = EOC /\ Bare(view, call.ncl)
  /\ pc = "stretched" => view.data[call.ncl].text = Tab

\* The cluster that was taken is linked to nothing yet.
KnowLink ==
  pc = "link" =>
    /\ Fresh(view, card, call.ncl) /\ call.prev # 0
    /\ call.cmd = "mkd" => call.ncl # call.dcl
    /\ Filling => call.ncl # call.sclust

\* How far STOR has written its file, whose chain has no entry yet.
KnowText ==
  Filling =>
    /\ call.sclust = 0 => call.size = 0 /\ pc # "more"
    /\ pc \in Taking => call.prev = IF call.sclust = 0 THEN 0 ELSE call.last
    /\ pc \in Taking /\ call.prev # 0 => view.fat[call.prev] = EOC
    /\ call.sclust # 0 =>
         /\ Loose(view, card, call.sclust) /\ call.last \in Chain(view, call.sclust)
         /\ call.size <= Cardinality(Chain(view, call.sclust))
         /\ BlocksHold(view, call.sclust, call.size, call.text)
         /\ pc \notin {"whole", "part", "close"} =>
              call.size > 0 /\ BlockAt(view, call.sclust, call.size - 1) = call.last
    /\ pc \in {"whole", "part"} =>
         /\ call.sclust # 0 /\ call.ncl = call.last
         /\ BlockAt(view, call.sclust, call.size) = call.ncl
         /\ call.size < Cardinality(Chain(view, call.sclust))
         /\ view.fat[call.ncl] = EOC

\* STOR before it has a cluster.
KnowBlank ==
  call.cmd = "stor" /\ ~Filling /\ pc # "sync" => call.sclust = 0 /\ call.size = 0

\* The entry of the file STOR has open is empty until the file is closed.
KnowFile ==
  call.cmd = "stor" =>
    /\ Filling \/ pc \in {"free", "reopen"} =>
         /\ Found.name = call.name /\ Found.start = 0 /\ Found.size = 0
         /\ kept[call.dir][call.name] = NoPromise
    /\ pc = "sync" =>
         /\ Found.name = call.name
         /\ FileIs(view, Found, [text |-> call.text, size |-> call.size])

\* The entry to be removed is where it was found.
KnowOld ==
  \/ call.cmd = "unlink" /\ pc \in {"empty", "emptyNext", "seek", "remove"}
  \/ call.cmd = "rnto" /\ pc # "sync" /\ call.odir # 0
  =>
  /\ EntryIn(view, call.oclust, call.oslot) = call.entry
  /\ DirHead(view, call.odir) /\ call.oclust \in Chain(view, call.odir)

\* A directory to be removed has no entries, as far as it was looked at.
KnowEmpty ==
  /\ call.cmd = "unlink" /\ pc \in {"empty", "emptyNext", "seek", "remove"} => call.odir = call.dir
  /\ pc \in {"empty", "emptyNext"} =>
       /\ call.clst \in Chain(view, call.entry.start)
       /\ \A c \in Chain(view, call.entry.start) \ Chain(view, call.clst) : Bare(view, c)
  /\ pc = "emptyNext" => Bare(view, call.clst)
  /\ pc \in {"seek", "remove"} /\ call.cmd = "unlink" /\ call.entry.kind = "dir" =>
       AllBare(view, call.entry.start)

\* RNTO found both directories from the root.
KnowDirs ==
  call.cmd = "rnto" /\ ~Renaming =>
    call.dir \in Dirs(view) /\ (call.odir # 0 => call.odir \in Dirs(view))

\* The two names of a rename, and what .. says meanwhile.
KnowNames ==
  Renaming =>
    /\ call.clust # call.oclust \/ call.slot # call.oslot
    /\ call.slot \in Slots
    /\ pc = "dotdot" => call.entry.kind = "dir"
    /\ EntryIn(view, call.clust, call.slot) = [call.entry EXCEPT !.name = call.name]
    /\ call.entry.kind = "dir" /\ pc # "dotdot" => view.data[call.entry.start].up = call.dir
    /\ call.entry.start # 0 =>
         \A c \in Clusters, s \in Slots :
           UsedIn(view, c, s) /\ EntryIn(view, c, s).start = call.entry.start =>
             \/ c = call.clust /\ s = call.slot
             \/ c = call.oclust /\ s = call.oslot
    /\ call.promise # NoPromise => FileIs(view, call.entry, call.promise)
    /\ pc = "sync" => ~UsedIn(view, call.oclust, call.oslot)
    /\ kept[call.odir][call.entry.name] = NoPromise

\* Only a rename has a promise to keep while it is at work.
KnowPromise == call.promise # NoPromise => Renaming

\* Nothing leads to a chain that is freed, on the card neither, or the window
\* has the change.
KnowFree ==
  pc = "free" =>
    /\ Head(view, call.clst) /\ ~Lead(view, call.clst)
    /\ AllBare(view, call.clst)
    /\ (wflag /\ win \in Clusters) \/ (\A c \in Chain(view, call.clst) : Outside(card, c))

\* The cluster of a new directory, before it has an entry.
KnowMade ==
  call.cmd = "mkd" =>
    /\ pc \in {"find", "findNext", "found", "missing"} => call.dcl = 0
    /\ call.dcl # 0 /\ pc \notin {"sync", "free"} =>
         Fresh(view, card, call.dcl) /\ (pc # "mkdSync" => view.data[call.dcl] = Table(call.dir))

\* All of it: the invariant that is inductive.
Known ==
  /\ KnowHere /\ KnowRaw /\ KnowSearch /\ KnowRoom /\ KnowLink /\ KnowText /\ KnowBlank
  /\ KnowFile  /\ KnowOld /\ KnowEmpty /\ KnowDirs /\ KnowNames /\ KnowPromise /\ KnowFree
  /\ KnowMade
Held == Known /\ Sure(view) /\ Sure(card) /\ FreeApart

-----------------------------------------------------------------------------
(* The invariant between calls, and how Whole changes with its exceptions. *)

\* Whole with more exceptions.
LEMMA WholeMore ==
  ASSUME NEW m, NEW X, NEW r, Whole(m, X, r), NEW Y, X \subseteq Y, NEW q, r \subseteq q
  PROVE  Whole(m, Y, q)
<1>1. StartsHold(m, Y)
  BY DEF Whole, StartsHold
<1>2. UpsHold(m, Y)
  BY DEF Whole, UpsHold
<1>3. TablesHold(m, q)
  BY DEF Whole, TablesHold
<1> QED BY <1>1, <1>2, <1>3 DEF Whole

\* A volume when no rename is at work.
Plain(m, x, r, k) ==
  Whole(m, IF x THEN Clusters ELSE {}, r) /\ (~x => FilesHold(m, k))

LEMMA SurePlain ==
  ASSUME ~Renaming
  PROVE  /\ Sure(view) => Plain(view, crossed, raw, kept)
         /\ Sure(card) => Plain(card, crossed, raw, kept)
BY DEF Sure, Plain, Twice, Renamed

LEMMA PlainSure ==
  ASSUME ~Renaming', call'.promise = NoPromise
  PROVE  /\ Plain(view', crossed', raw', kept') => Sure(view)'
         /\ Plain(card', crossed', raw', kept') => Sure(card)'
<1>1. ~Renamed(view)' /\ ~Renamed(card)'
  BY DEF Renamed
<1>2. Twice(view)' = IF crossed' THEN Clusters ELSE {}
  BY <1>1 DEF Twice
<1>3. Twice(card)' = IF crossed' THEN Clusters ELSE {}
  BY <1>1 DEF Twice
<1>4. Plain(view', crossed', raw', kept') => Sure(view)'
  BY <1>1, <1>2 DEF Sure, Plain, InBoth, Promised
<1>5. Plain(card', crossed', raw', kept') => Sure(card)'
  BY <1>1, <1>3 DEF Sure, Plain, InBoth, Promised
<1> QED BY <1>4, <1>5

LEMMA QuietSure ==
  ASSUME Held, ~Renaming, ~Renaming', call'.promise = NoPromise,
         UNCHANGED <<view, card, crossed, raw, kept>>
  PROVE  Sure(view)' /\ Sure(card)' /\ FreeApart'
<1>1. Plain(view', crossed', raw', kept') /\ Plain(card', crossed', raw', kept')
  BY SurePlain DEF Held
<1>2. FreeApart'
  BY DEF Held, FreeApart
<1> QED BY <1>1, <1>2, PlainSure

\* Between calls nothing needs to be known.
LEMMA IdleKnown ==
  ASSUME Return PROVE Known'
<1>1. /\ pc' = "idle" /\ call'.cmd = "none" /\ call'.odir = 0
      /\ call'.promise = NoPromise
  BY DEF Return, NoCall
<1>2. KnowHere' /\ KnowRaw' /\ KnowSearch' /\ KnowRoom' /\ KnowLink' /\ KnowText' /\ KnowBlank'
      /\ KnowFile'
  BY <1>1 DEF KnowHere, KnowRaw, KnowSearch, KnowRoom, KnowLink, KnowText, KnowBlank,
              KnowFile, Entering,
     Taking, Writing, Stretching, Filling
<1>3. KnowOld' /\ KnowEmpty' /\ KnowDirs' /\ KnowNames' /\ KnowPromise' /\ KnowFree' /\ KnowMade'
  BY <1>1 DEF KnowOld, KnowEmpty, KnowDirs, KnowNames, KnowPromise, KnowFree, KnowMade,
              Renaming
<1> QED BY <1>2, <1>3 DEF Known

-----------------------------------------------------------------------------
(* The search for a name, and for room for it.                             *)

\* Of a table without raw sectors, a sector with an end mark is the last.
LEMMA EndIsLast ==
  ASSUME NEW m, NEW X, Whole(m, X, {}), NEW d, DirHead(m, d), NEW c \in Chain(m, d),
         NEW s \in Slots, EntryIn(m, c, s).name = "end"
  PROVE  Chain(m, c) = {c}
<1>1. m.data[c].text = Tab /\ Linked(m) /\ c \in Clusters
  BY LeadIsHead, ChainIs DEF Whole, TablesHold
<1>2. m.fat[c] \notin Clusters
  BY <1>1 DEF Whole, EndMarksHold
<1> QED BY <1>1, <1>2, ChainUnrolls, ChainNone

\* What is known while a name is looked for.
Looking == pc \in {"find", "findNext", "found", "missing"}

\* While a name is looked for, no rename is at work.
LEMMA InCall ==
  ASSUME Typed, Held, pc # "idle"
  PROVE  /\ ~crossed /\ call \in Locals /\ call.name \in Names
         /\ call.dir \in Clusters /\ call.clust \in Clusters
         /\ DirHead(view, call.dir) /\ call.clust \in Chain(view, call.dir)
         /\ Linked(view) /\ Linked(card) /\ VolumeTyped(view) /\ VolumeTyped(card)
         /\ raw = {} \/ pc \in {"stretch", "stretched", "free"}
<1>1. ~crossed /\ DirHead(view, call.dir) /\ call.clust \in Chain(view, call.dir)
      /\ (raw = {} \/ pc \in {"stretch", "stretched", "free"})
  BY DEF Held, Known, KnowHere, KnowRaw
<1> QED BY <1>1, TypedIsLinked DEF Typed, CallTyped, DiskTyped

LEMMA InCallWhole ==
  ASSUME Typed, Held, pc \notin {"idle", "stretch", "stretched", "free"}, ~Renaming
  PROVE  /\ Whole(view, {}, {}) /\ Whole(card, {}, {}) /\ raw = {}
         /\ FilesHold(view, kept) /\ FilesHold(card, kept) /\ call.promise = NoPromise
<1>1. ~crossed /\ raw = {}
  BY InCall
<1>2. Plain(view, crossed, raw, kept) /\ Plain(card, crossed, raw, kept)
  BY SurePlain DEF Held
<1> QED BY <1>1, <1>2 DEF Plain, Held, Known, KnowPromise

\* Of the steps of a search, what remains to be shown.
LEMMA LookKnown ==
  ASSUME Looking', KnowHere', KnowRaw', KnowSearch', KnowBlank', KnowOld', KnowDirs', KnowPromise',
         KnowMade'
  PROVE  Known'
<1>1. KnowRoom' /\ KnowLink' /\ KnowText' /\ KnowFile'
  BY DEF Looking, KnowRoom, KnowLink, KnowText, KnowFile, Taking, Writing, Stretching,
         Filling
<1>2. KnowEmpty' /\ KnowNames' /\ KnowFree'
  BY DEF Looking, KnowEmpty, KnowNames, KnowFree, Renaming
<1> QED BY <1>1, <1>2 DEF Known

\* Of the steps that make room for a name, what remains to be shown.
LEMMA EnterKnown ==
  ASSUME pc' \in Entering \cup Taking \cup {"mkdSync", "mkdDots"}, ~Opened',
         KnowHere', KnowRaw', KnowSearch', KnowRoom', KnowLink', KnowBlank', KnowOld', KnowDirs',
         KnowPromise', KnowMade'
  PROVE  Known'
<1>1. KnowText' /\ KnowFile'
  BY DEF KnowText, KnowFile, Filling, Entering, Taking
<1>2. KnowEmpty' /\ KnowNames' /\ KnowFree'
  BY DEF KnowEmpty, KnowNames, KnowFree, Renaming, Entering, Taking
<1> QED BY <1>1, <1>2 DEF Known

\* Of the steps of STOR with its file, what remains to be shown.
LEMMA FillKnown ==
  ASSUME pc' \in Taking \cup Writing, Opened',
         KnowHere', KnowRaw', KnowLink', KnowText', KnowFile', KnowPromise'
  PROVE  Known'
<1>1. call'.cmd = "stor"
  BY DEF Opened
<1>2. KnowSearch' /\ KnowRoom' /\ KnowBlank' /\ KnowOld' /\ KnowEmpty' /\ KnowDirs'
  BY <1>1 DEF KnowSearch, KnowRoom, KnowBlank, Filling, KnowOld, KnowEmpty, KnowDirs,
              Stretching, Taking, Writing,
     Entering
<1>3. KnowNames' /\ KnowFree' /\ KnowMade'
  BY <1>1 DEF KnowNames, KnowFree, KnowMade, Renaming, Taking, Writing
<1> QED BY <1>1, <1>2, <1>3 DEF Known

\* The volume, and the name a call works on, stay.
SameVolume == UNCHANGED <<view, card, crossed, raw, kept>>
SameName ==
  /\ call'.cmd = call.cmd /\ call'.dir = call.dir /\ call'.name = call.name
  /\ call'.odir = call.odir /\ call'.oclust = call.oclust /\ call'.oslot = call.oslot
  /\ call'.entry = call.entry /\ call'.promise = call.promise /\ call'.dcl = call.dcl
  /\ call'.sclust = call.sclust /\ call'.size = call.size
Entered == {"find", "findNext", "found", "missing", "alloc", "allocNext", "register",
            "mkdSync", "mkdDots", "scan"}

\* A step of the search for a name, or for room for it.
LEMMA CarriesOn ==
  ASSUME Held, SameVolume, SameName, pc \in Entered \ {"mkdSync", "scan"}, pc' \in Entered,
         pc' \in {"find", "findNext", "found", "missing"} =>
           pc \in {"find", "findNext", "found", "missing"},
         call'.clust \in Chain(view, call.dir)
  PROVE  /\ KnowHere' /\ KnowRaw' /\ KnowBlank' /\ KnowOld' /\ KnowDirs' /\ KnowPromise'
         /\ KnowMade'
         /\ Sure(view)' /\ Sure(card)' /\ FreeApart'
<1>1. ~Renaming /\ ~Renaming'
  BY DEF Renaming, Entered
<1>2. KnowHere /\ KnowRaw /\ KnowBlank /\ KnowOld /\ KnowDirs /\ KnowPromise /\ KnowMade
  BY DEF Held, Known
<1>3. KnowHere' /\ KnowRaw'
  BY <1>2 DEF KnowHere, KnowRaw, SameVolume, SameName, Entered
<1>4. KnowDirs' /\ KnowPromise'
  BY <1>1, <1>2 DEF KnowDirs, KnowPromise, SameVolume, SameName
<1>5. KnowOld'
  BY <1>2 DEF KnowOld, SameVolume, SameName, Entered
<1>6. KnowMade'
  BY <1>2 DEF KnowMade, SameVolume, SameName, Entered
<1>7. Sure(view)' /\ Sure(card)' /\ FreeApart'
  BY <1>1, <1>4, QuietSure DEF KnowPromise, SameVolume
<1>8. KnowBlank'
  <2>1. ~Filling
    BY DEF Filling, Entered, Taking, Writing
  <2> QED BY <1>2, <2>1 DEF KnowBlank, SameName, Entered
<1> QED BY <1>3, <1>4, <1>5, <1>6, <1>7, <1>8

LEMMA FindHeld == Typed /\ Held /\ Find => Held'
<1> SUFFICES ASSUME Typed, Held, Find PROVE Held'
  OBVIOUS
<1>1. pc = "find" /\ Local
  BY DEF Find, At
<1>2. PICK s \in 0 .. ENTS :
        /\ call' = [call EXCEPT !.slot = s]
        /\ \/ pc' = "found"
           \/ /\ pc' \in {"missing", "findNext"} /\ NotIn(view, call.clust, call.name)
              /\ pc' = "missing" => \E t \in Slots : EntryIn(view, call.clust, t).name = "end"
  <2> DEFINE hits == {s \in Slots : Ents(call.clust)[s].name = call.name}
  <2>1. CASE hits # {}
    <3>1. PICK s \in hits : pc' = "found" /\ call' = [call EXCEPT !.slot = s]
      BY <2>1 DEF Find
    <3> QED BY <3>1 DEF Slots
  <2>2. CASE hits = {}
    <3>1. /\ call' = call
          /\ pc' = IF \E s \in Slots : Ents(call.clust)[s].name = "end"
                   THEN "missing" ELSE "findNext"
      BY <2>2 DEF Find, Goto
    <3>2. NotIn(view, call.clust, call.name)
      BY <2>2 DEF NotIn, Ents, EntryIn
    <3>3. call.slot \in 0 .. ENTS /\ call' = [call EXCEPT !.slot = call.slot]
      BY <1>1, <3>1, InCall DEF Locals
    <3> QED BY <3>1, <3>2, <3>3 DEF Ents, EntryIn
  <2> QED BY <2>1, <2>2
<1>3. SameName /\ call'.clust = call.clust
  BY <1>1, <1>2, InCall DEF SameName, Locals
<1>4. SameVolume /\ open' = open
  BY <1>1 DEF Local, diskVars, history, SameVolume
<1>5. ~Renaming /\ Looking' /\ pc \in Entered /\ pc' \in Entered /\ pc \notin {"scan", "mkdSync"}
  BY <1>1, <1>2 DEF Renaming, Looking, Entered
<1>6. SoFar(view, call.dir, call.clust, call.name)
  BY <1>1 DEF Held, Known, KnowSearch
<1>7. KnowSearch'
  <2>1. pc' = "missing" => Absent(view, call.dir, call.name)
    <3>1. Whole(view, {}, {}) /\ DirHead(view, call.dir) /\ call.clust \in Chain(view, call.dir)
      BY <1>1, <1>5, InCall, InCallWhole
    <3>2. ASSUME pc' = "missing" PROVE Chain(view, call.clust) = {call.clust}
      BY <1>2, <3>1, <3>2, EndIsLast
    <3> QED BY <1>2, <1>6, <3>2 DEF SoFar, Absent
  <2> QED BY <1>2, <1>3, <1>4, <1>6, <2>1
          DEF KnowSearch, Stretching, Taking, Entering, SameName, SameVolume
<1>8. call.clust \in Chain(view, call.dir)
  BY <1>1, InCall
<1> QED BY <1>1, <1>3, <1>4, <1>5, <1>7, <1>8, CarriesOn, LookKnown DEF Held

LEMMA FindNextHeld == Typed /\ Held /\ FindNext => Held'
<1> SUFFICES ASSUME Typed, Held, FindNext PROVE Held'
  OBVIOUS
<1>1. pc = "findNext" /\ SameVolume /\ open' = open
  BY DEF FindNext, Follow, At, Local, diskVars, history, SameVolume
<1>2. /\ call \in Locals /\ call.clust \in Chain(view, call.dir) /\ Linked(view)
      /\ call.clust \in Clusters /\ call.dir \in Clusters
  BY <1>1, InCall
<1>3. /\ SoFar(view, call.dir, call.clust, call.name) /\ NotIn(view, call.clust, call.name)
  BY <1>1 DEF Held, Known, KnowSearch
<1>4. Chain(view, call.clust) = {call.clust} \cup Chain(view, view.fat[call.clust])
  BY <1>2, ChainUnrolls
<1>5. CASE /\ view.fat[call.clust] \in Clusters /\ pc' = "find"
           /\ call' = [call EXCEPT !.clust = view.fat[call.clust]]
  <2>1. SameName /\ call'.clust = view.fat[call.clust]
    BY <1>2, <1>5 DEF SameName, Locals
  <2>2. call'.clust \in Chain(view, call.dir)
    BY <1>2, <1>5, <2>1, ChainIs
  <2>3. SoFar(view, call.dir, call'.clust, call.name)
    BY <1>3, <1>4, <2>1 DEF SoFar
  <2>4. KnowSearch'
    BY <1>1, <1>5, <2>1, <2>3 DEF KnowSearch, Stretching, Taking, Entering, SameName,
                                  SameVolume
  <2>5. pc \in Entered /\ pc' \in Entered /\ pc \notin {"mkdSync", "scan"} /\ Looking'
    BY <1>1, <1>5 DEF Entered, Looking
  <2> QED BY <1>1, <2>1, <2>2, <2>4, <2>5, CarriesOn, LookKnown DEF Held
<1>6. CASE view.fat[call.clust] = EOC /\ pc' = "missing" /\ call' = call
  <2>1. SameName /\ call'.clust = call.clust
    BY <1>6 DEF SameName
  <2>2. Chain(view, call.clust) = {call.clust}
    BY <1>2, <1>4, <1>6, ChainNone, LinkValues
  <2>3. Absent(view, call.dir, call.name)
    BY <1>3, <2>2 DEF Absent, SoFar
  <2>4. KnowSearch'
    BY <1>1, <1>6, <2>1, <2>3 DEF KnowSearch, Stretching, Taking, Entering, SameName,
                                  SameVolume
  <2>5. pc \in Entered /\ pc' \in Entered /\ pc \notin {"mkdSync", "scan"} /\ Looking'
    BY <1>1, <1>6 DEF Entered, Looking
  <2> QED BY <1>1, <1>2, <2>1, <2>4, <2>5, CarriesOn, LookKnown DEF Held
<1> QED BY <1>5, <1>6 DEF FindNext, Follow, Goto

\* The name is missing: room for it is looked for.
LEMMA StartsEntering ==
  ASSUME Typed, Held, pc = "missing" \/ pc = "mkdDots", pc' = "alloc", SameVolume, SameName,
         call'.clust = call.dir, ~Opened'
  PROVE  Held'
<1>1. Absent(view, call.dir, call.name) /\ call.dir \in Chain(view, call.dir)
  <2>1. call.dir \in Clusters /\ Linked(view)
    BY InCall
  <2> QED BY <2>1, ChainIs DEF Held, Known, KnowSearch
<1>2. KnowSearch'
  BY <1>1 DEF KnowSearch, SameName, SameVolume, Stretching, Taking, Entering
<1>3. KnowRoom' /\ KnowLink'
  BY DEF KnowRoom, KnowLink, Stretching, Taking
<1>4. pc \in Entered /\ pc' \in Entered /\ pc \notin {"mkdSync", "scan"} /\ pc' \in Entering
  BY DEF Entered, Entering
<1> QED BY <1>1, <1>2, <1>3, <1>4, CarriesOn, EnterKnown DEF Held

LEMMA AllocHeld == Typed /\ Held /\ Alloc => Held'
<1> SUFFICES ASSUME Typed, Held, Alloc PROVE Held'
  OBVIOUS
<1>1. pc = "alloc" /\ SameVolume /\ open' = open
  BY DEF Alloc, At, Local, diskVars, history, SameVolume
<1>2. /\ call \in Locals /\ call.clust \in Chain(view, call.dir)
      /\ Absent(view, call.dir, call.name)
  BY <1>1, InCall DEF Held, Known, KnowSearch, Entering
<1>3. PICK s \in 0 .. ENTS :
        /\ call' = [call EXCEPT !.slot = s]
        /\ \/ pc' = "register" /\ s \in Slots /\ ~UsedIn(view, call.clust, s)
           \/ pc' = "allocNext" /\ s = call.slot /\ AllUsed(view, call.clust)
  <2> DEFINE unused == {s \in Slots : ~Used(Ents(call.clust)[s])}
  <2>1. CASE unused # {}
    <3>1. PICK s \in unused : pc' = "register" /\ call' = [call EXCEPT !.slot = s]
      BY <2>1 DEF Alloc
    <3> QED BY <3>1 DEF Slots, UsedIn, EntryIn, Ents
  <2>2. CASE unused = {}
    <3>1. call' = call /\ pc' = "allocNext"
      BY <2>2 DEF Alloc, Goto
    <3>2. AllUsed(view, call.clust)
      BY <2>2 DEF AllUsed, UsedIn, EntryIn, Ents
    <3>3. call.slot \in 0 .. ENTS /\ call' = [call EXCEPT !.slot = call.slot]
      BY <1>2, <3>1 DEF Locals
    <3> QED BY <3>1, <3>2, <3>3
  <2> QED BY <2>1, <2>2
<1>4. SameName /\ call'.clust = call.clust /\ (pc' = "register" => call'.slot \in Slots
        /\ ~UsedIn(view, call.clust, call'.slot))
  BY <1>2, <1>3 DEF SameName, Locals
<1>5. KnowSearch'
  BY <1>1, <1>2, <1>3, <1>4 DEF KnowSearch, SameName, SameVolume, Stretching, Taking,
                                Entering
<1>6. KnowRoom' /\ KnowLink'
  BY <1>1, <1>3, <1>4 DEF KnowRoom, KnowLink, Stretching, Taking, SameVolume, AllUsed,
                          UsedIn
<1>7. pc \in Entered /\ pc' \in Entered /\ pc \notin {"mkdSync", "scan"} /\ pc' \in Entering
      /\ pc' \notin {"find", "findNext", "found", "missing"}
  BY <1>1, <1>3 DEF Entered, Entering
<1>8. ~Opened'
  <2>1. call.cmd = "stor" => open = NoPlace
    BY <1>1 DEF Typed, StorTyped, Entering
  <2>2. call.clust # 0
    BY <1>1, InCall, Zeros
  <2> QED BY <1>1, <1>4, <2>1, <2>2 DEF Opened, Here, NoPlace, SameName
<1> QED BY <1>1, <1>2, <1>4, <1>5, <1>6, <1>7, <1>8, CarriesOn, EnterKnown DEF Held

-----------------------------------------------------------------------------
(* Calls that end, or go on without writing anything.                      *)

\* A call that is at its end, or gives up where nothing has changed.
LEMMA ReturnHeld ==
  ASSUME Held, ~Renaming, Return, SameVolume
  PROVE  Held'
<1>1. ~Renaming' /\ call'.promise = NoPromise
  BY DEF Return, NoCall, Renaming
<1> QED BY <1>1, IdleKnown, QuietSure DEF Held, SameVolume

\* create_chain() is called.
LEMMA ScansIs ==
  ASSUME call \in Locals, NEW prev \in Starts, Scans(prev)
  PROVE  SameName /\ pc' = "scan" /\ call'.clust = call.clust /\ call'.prev = prev
         /\ call'.last = call.last /\ call'.text = call.text /\ call'.slot = call.slot
BY DEF Scans, SameName, Locals

LEMMA AllocNextHeld == Typed /\ Held /\ AllocNext => Held'
<1> SUFFICES ASSUME Typed, Held, AllocNext PROVE Held'
  OBVIOUS
<1>1. pc = "allocNext" /\ SameVolume /\ open' = open
  BY DEF AllocNext, Follow, At, Local, diskVars, history, SameVolume
<1>2. /\ call \in Locals /\ call.clust \in Chain(view, call.dir) /\ Linked(view)
      /\ call.clust \in Clusters /\ call.dir \in Clusters
      /\ Absent(view, call.dir, call.name) /\ AllUsed(view, call.clust)
  BY <1>1, InCall DEF Held, Known, KnowSearch, KnowRoom, Entering
<1>3. call.cmd = "stor" => open = NoPlace
  BY <1>1 DEF Typed, StorTyped, Entering
<1>4. call.cmd = "mkd" => call.dcl # 0
  BY <1>1 DEF Typed, OtherTyped, Entering
<1>5. pc \in Entered /\ pc \notin {"mkdSync", "scan"}
  BY <1>1 DEF Entered
<1>6. CASE /\ view.fat[call.clust] \in Clusters /\ pc' = "alloc"
           /\ call' = [call EXCEPT !.clust = view.fat[call.clust]]
  <2>1. SameName /\ call'.clust = view.fat[call.clust] /\ call'.clust # 0
    BY <1>2, <1>6, Zeros DEF SameName, Locals
  <2>2. call'.clust \in Chain(view, call.dir)
    BY <1>2, <1>6, <2>1, ChainIs
  <2>3. KnowSearch'
    BY <1>1, <1>2, <1>6, <2>1 DEF KnowSearch, Stretching, Taking, Entering, SameName,
                                  SameVolume
  <2>4. KnowRoom' /\ KnowLink'
    BY <1>6 DEF KnowRoom, KnowLink, Stretching, Taking
  <2>5. ~Opened'
    BY <1>1, <1>3, <2>1 DEF Opened, Here, NoPlace, SameName
  <2>6. pc' \in Entered /\ pc' \in Entering /\ pc' \notin {"find", "findNext", "found", "missing"}
    BY <1>6 DEF Entered, Entering
  <2> QED BY <1>1, <1>5, <2>1, <2>2, <2>3, <2>4, <2>5, <2>6, CarriesOn, EnterKnown DEF Held
<1>7. CASE view.fat[call.clust] = EOC /\ Scans(call.clust)
  <2>1. SameName /\ call'.clust = call.clust /\ pc' = "scan" /\ call'.prev = call.clust
    BY <1>2, <1>7, Zeros, ScansIs
  <2>2. KnowSearch'
    BY <1>1, <1>2, <1>7, <2>1 DEF KnowSearch, Stretching, Taking, Entering, SameName,
                                  SameVolume
  <2>3. KnowRoom' /\ KnowLink'
    BY <1>1, <1>2, <1>4, <1>7, <2>1
       DEF KnowRoom, KnowLink, Stretching, Taking, SameVolume, SameName, AllUsed, UsedIn
  <2>4. ~Opened'
    BY <1>1, <1>2, <1>3, <2>1, Zeros DEF Opened, Here, NoPlace, SameName
  <2>5. pc' \in Entered /\ pc' \in Taking /\ pc' \notin {"find", "findNext", "found", "missing"}
    BY <2>1 DEF Entered, Taking
  <2> QED BY <1>1, <1>2, <1>5, <2>1, <2>2, <2>3, <2>4, <2>5, CarriesOn, EnterKnown DEF Held
<1> QED BY <1>6, <1>7 DEF AllocNext, Follow

LEMMA MkdMissingHeld == Typed /\ Held /\ MkdMissing => Held'
<1> SUFFICES ASSUME Typed, Held, MkdMissing PROVE Held'
  OBVIOUS
<1>1. pc = "missing" /\ call.cmd = "mkd" /\ SameVolume /\ open' = open /\ Scans(0)
  BY DEF MkdMissing, At, Local, diskVars, history, SameVolume
<1>2. /\ call \in Locals /\ call.clust \in Chain(view, call.dir)
      /\ Absent(view, call.dir, call.name) /\ call.dcl = 0
  BY <1>1, InCall DEF Held, Known, KnowSearch, KnowMade
<1>3. SameName /\ call'.clust = call.clust /\ pc' = "scan" /\ call'.prev = 0
  BY <1>1, <1>2, Zeros, ScansIs
<1>4. KnowSearch'
  BY <1>1, <1>2, <1>3 DEF KnowSearch, Stretching, Taking, Entering, SameName, SameVolume
<1>5. KnowRoom' /\ KnowLink' /\ ~Opened'
  BY <1>1, <1>2, <1>3 DEF KnowRoom, KnowLink, Stretching, Taking, SameName, Opened
<1>6. pc \in Entered /\ pc \notin {"mkdSync", "scan"} /\ pc' \in Entered /\ pc' \in Taking
      /\ pc' \notin {"find", "findNext", "found", "missing"}
  BY <1>1, <1>3 DEF Entered, Taking
<1> QED BY <1>1, <1>2, <1>3, <1>4, <1>5, <1>6, CarriesOn, EnterKnown DEF Held

LEMMA ToEntryHeld == Typed /\ Held /\ (StorMissing \/ RntoMissing \/ MkdDots) => Held'
<1> SUFFICES ASSUME Typed, Held, StorMissing \/ RntoMissing \/ MkdDots PROVE Held'
  OBVIOUS
<1>1. pc \in {"missing", "mkdDots"} /\ SameVolume /\ open' = open
  BY DEF StorMissing, RntoMissing, MkdDots, At, Refused, Local, diskVars, history,
         SameVolume
<1>2. ~Renaming /\ call \in Locals /\ call.dir \in Clusters
  BY <1>1, InCall DEF Renaming
<1>3. CASE Return
  BY <1>1, <1>2, <1>3, ReturnHeld
<1>4. CASE ~Return
  <2>1. /\ pc' = "alloc"
        /\ call.cmd = "stor" => open = NoPlace
        /\ \/ call' = [call EXCEPT !.clust = call.dir]
           \/ call' = [call EXCEPT !.clust = call.dir, !.ncl = 0]
    <3>1. pc = "mkdDots" => call.cmd # "stor"
      BY DEF Typed, StorTyped, Searching, Entering, Taking, Writing
    <3>2. MkdDots => pc = "mkdDots"
      BY DEF MkdDots, At
    <3> QED BY <1>4, <3>1, <3>2 DEF StorMissing, RntoMissing, MkdDots, Refused
  <2>2. SameName /\ call'.clust = call.dir /\ call'.clust # 0
    BY <1>2, <2>1, Zeros DEF SameName, Locals
  <2>3. ~Opened'
    BY <1>1, <2>1, <2>2 DEF Opened, Here, NoPlace, SameName
  <2> QED BY <1>1, <2>1, <2>2, <2>3, StartsEntering
<1> QED BY <1>3, <1>4

LEMMA RefusedHeld ==
  Typed /\ Held /\ (UnlinkMissing \/ MkdFound \/ StorAbandoned) => Held'
<1> SUFFICES ASSUME Typed, Held, UnlinkMissing \/ MkdFound \/ StorAbandoned PROVE Held'
  OBVIOUS
<1>1. Return /\ SameVolume /\ ~Renaming
  BY DEF UnlinkMissing, MkdFound, StorAbandoned, At, Refused, Local, diskVars, history,
         SameVolume,
         Renaming
<1> QED BY <1>1, ReturnHeld

-----------------------------------------------------------------------------
(* The first steps of a command.                                           *)

LEMMA BeginHeld ==
  ASSUME Typed, Held, NEW d \in Clusters, NEW n \in Names,
         NEW cmd \in {"stor", "unlink", "mkd", "rnto"}, Begin(cmd, d, n)
  PROVE  Held'
<1>1. /\ pc = "idle" /\ pc' = "find" /\ ~crossed /\ raw = {} /\ d \in Dirs(view) /\ SameVolume
      /\ \E t : call' = [NoCall EXCEPT !.cmd = cmd, !.dir = d, !.clust = d, !.name = n, !.text = t]
  BY DEF Begin, SameVolume, diskVars
<1>2. /\ call'.cmd = cmd /\ call'.dir = d /\ call'.clust = d /\ call'.name = n
      /\ call'.odir = 0 /\ call'.dcl = 0 /\ call'.sclust = 0 /\ call'.size = 0
      /\ call'.promise = NoPromise
  BY <1>1 DEF NoCall
<1>3. /\ DirHead(view, d) /\ d \in Chain(view, d)
  <2>1. VolumeTyped(view)
    BY DEF Typed, DiskTyped
  <2> QED BY <1>1, <2>1, DirsAreHeads, TypedIsLinked, ChainIs
<1>4. ~Renaming /\ ~Renaming' /\ Looking'
  BY <1>1 DEF Renaming, Looking
<1>5. KnowHere' /\ KnowRaw' /\ KnowSearch' /\ KnowBlank'
  BY <1>1, <1>2, <1>3 DEF KnowHere, KnowRaw, KnowSearch, KnowBlank, SoFar, SameVolume,
     Stretching, Taking, Entering
<1>6. KnowOld' /\ KnowDirs' /\ KnowPromise' /\ KnowMade'
  BY <1>1, <1>2 DEF KnowOld, KnowDirs, KnowPromise, KnowMade, SameVolume
<1> QED BY <1>1, <1>2, <1>4, <1>5, <1>6, LookKnown, QuietSure DEF Held, SameVolume

\* What was found becomes the old entry.
LEMMA OldIsHereIs ==
  ASSUME Typed, pc = "found"
  PROVE  /\ OldIsHere.cmd = call.cmd /\ OldIsHere.dir = call.dir
         /\ OldIsHere.name = call.name /\ OldIsHere.clust = call.clust
         /\ OldIsHere.odir = call.dir /\ OldIsHere.oclust = call.clust
         /\ OldIsHere.oslot = call.slot /\ OldIsHere.walk = call.dir
         /\ OldIsHere.entry = Found /\ OldIsHere.slot = call.slot
         /\ OldIsHere.promise = call.promise /\ OldIsHere.clst = call.clst
         /\ OldIsHere.dcl = call.dcl /\ OldIsHere.sclust = call.sclust
         /\ OldIsHere.size = call.size
         /\ Found = EntryIn(view, call.clust, call.slot)
         /\ OldIsHere \in Locals
<1>1. Found \in Entry /\ call \in Locals /\ call.clust \in Clusters /\ call.dir \in Clusters
      /\ call.slot \in 0 .. ENTS
  BY FoundIs DEF Typed, CallTyped, Slots
<1>2. Found = EntryIn(view, call.clust, call.slot)
  BY DEF Found, EntryIn, Ents
<1> QED BY <1>1, <1>2, Zeros DEF OldIsHere, Locals

LEMMA RntoFoundHeld == Typed /\ Held /\ RntoFound => Held'
<1> SUFFICES ASSUME Typed, Held, RntoFound PROVE Held'
  OBVIOUS
<1>1. pc = "found" /\ call.cmd = "rnto" /\ SameVolume /\ open' = open /\ ~Renaming
  BY DEF RntoFound, At, Local, diskVars, history, SameVolume, Renaming
<1>2. CASE Return
  BY <1>1, <1>2, ReturnHeld
<1>3. CASE ~Return
  <2>1. PICK d \in Clusters, n \in Names :
          /\ d \in Dirs(view) /\ pc' = "find"
          /\ call' = [OldIsHere EXCEPT !.dir = d, !.clust = d, !.name = n, !.slot = 0]
    BY <1>3 DEF RntoFound
  <2>2. /\ call'.cmd = "rnto" /\ call'.dir = d /\ call'.clust = d /\ call'.name = n
        /\ call'.odir = call.dir /\ call'.oclust = call.clust /\ call'.oslot = call.slot
        /\ call'.entry = EntryIn(view, call.clust, call.slot)
        /\ call'.promise = call.promise
    BY <1>1, <2>1, OldIsHereIs DEF Locals
  <2>3. DirHead(view, d) /\ d \in Chain(view, d)
    <3>1. VolumeTyped(view)
      BY DEF Typed, DiskTyped
    <3> QED BY <2>1, <3>1, DirsAreHeads, TypedIsLinked, ChainIs
  <2>4. ~Renaming' /\ Looking'
    BY <2>1 DEF Renaming, Looking
  <2>5. /\ ~crossed /\ DirHead(view, call.dir) /\ call.clust \in Chain(view, call.dir)
        /\ raw = {} /\ call.promise = NoPromise /\ call.dir \in Dirs(view)
    BY <1>1, InCall DEF Held, Known, KnowPromise, KnowDirs
  <2>6. KnowHere' /\ KnowRaw' /\ KnowSearch' /\ KnowBlank'
    BY <2>1, <1>1, <2>2, <2>3, <2>5 DEF KnowHere, KnowRaw, KnowSearch, KnowBlank, SoFar,
                                        SameVolume,
       Stretching, Taking, Entering
  <2>7. KnowOld' /\ KnowDirs' /\ KnowPromise' /\ KnowMade'
    BY <1>1, <2>1, <2>2, <2>5 DEF KnowOld, KnowDirs, KnowPromise, KnowMade, SameVolume
  <2> QED BY <1>1, <2>2, <2>4, <2>5, <2>6, <2>7, LookKnown, QuietSure DEF Held, SameVolume
<1> QED BY <1>2, <1>3

\* Of the steps that come to remove an entry, what remains to be shown.
LEMMA RemoveKnown ==
  ASSUME call'.cmd = "unlink", pc' \in {"empty", "emptyNext", "seek", "remove"},
         KnowHere', KnowRaw', KnowOld', KnowEmpty', KnowPromise'
  PROVE  Known'
<1>1. KnowSearch' /\ KnowRoom' /\ KnowLink' /\ KnowText' /\ KnowBlank' /\ KnowFile'
  BY DEF KnowSearch, KnowRoom, KnowLink, KnowText, KnowBlank, KnowFile, Stretching, Filling,
     Opened, Taking, Entering
<1>2. KnowDirs' /\ KnowNames' /\ KnowFree' /\ KnowMade'
  BY DEF KnowDirs, KnowNames, KnowFree, KnowMade, Renaming
<1> QED BY <1>1, <1>2 DEF Known

LEMMA UnlinkFoundHeld == Typed /\ Held /\ UnlinkFound => Held'
<1> SUFFICES ASSUME Typed, Held, UnlinkFound PROVE Held'
  OBVIOUS
<1>1. pc = "found" /\ call.cmd = "unlink" /\ SameVolume /\ ~Renaming
  BY DEF UnlinkFound, At, Local, diskVars, history, SameVolume, Renaming
<1>2. CASE Return
  BY <1>1, <1>2, ReturnHeld
<1>3. CASE ~Return
  <2>1. \/ /\ Found.kind = "dir" /\ pc' = "empty" /\ call' = [OldIsHere EXCEPT !.clst = Found.start]
        \/ /\ Found.kind # "dir" /\ pc' = "seek" /\ call' = OldIsHere
    BY <1>3 DEF UnlinkFound
  <2>2. /\ call'.cmd = "unlink" /\ call'.dir = call.dir /\ call'.clust = call.clust
        /\ call'.odir = call.dir /\ call'.oclust = call.clust /\ call'.oslot = call.slot
        /\ call'.entry = Found /\ Found = EntryIn(view, call.clust, call.slot)
        /\ call'.promise = call.promise
        /\ pc' = "empty" => call'.clst = Found.start
    BY <1>1, <2>1, OldIsHereIs DEF Locals
  <2>3. /\ ~crossed /\ DirHead(view, call.dir) /\ call.clust \in Chain(view, call.dir)
        /\ raw = {} /\ call.promise = NoPromise /\ Linked(view)
    BY <1>1, InCall DEF Held, Known, KnowPromise
  <2>4. KnowHere' /\ KnowRaw' /\ KnowOld' /\ KnowPromise'
    BY <1>1, <2>1, <2>2, <2>3 DEF KnowHere, KnowRaw, KnowOld, KnowPromise, SameVolume
  <2>5. Found.kind = "dir" => Found.start \in Chain(view, Found.start)
    BY <1>1, <2>3, FoundIs, ChainIs
  <2>6. KnowEmpty'
    BY <1>1, <2>1, <2>2, <2>5 DEF KnowEmpty, SameVolume
  <2>7. ~Renaming' /\ pc' \in {"empty", "emptyNext", "seek", "remove"}
    BY <2>1, <2>2 DEF Renaming
  <2> QED BY <1>1, <2>2, <2>3, <2>4, <2>6, <2>7, RemoveKnown, QuietSure DEF Held, SameVolume
<1> QED BY <1>2, <1>3

LEMMA EmptyHeld == Typed /\ Held /\ (Empty \/ EmptyNext) => Held'
<1> SUFFICES ASSUME Typed, Held, Empty \/ EmptyNext PROVE Held'
  OBVIOUS
<1>1. pc \in {"empty", "emptyNext"} /\ SameVolume /\ ~Renaming
  BY DEF Empty, EmptyNext, At, Local, diskVars, history, SameVolume, Renaming
<1>2. CASE Return
  BY <1>1, <1>2, ReturnHeld
<1>3. CASE ~Return
  <2>1. call.cmd = "unlink"
    BY <1>1 DEF Typed, CallTyped, StorTyped, OtherTyped, Locals, Searching, Entering,
                Taking,
       Writing, Removing
  <2> DEFINE h == call.entry.start
  <2> DEFINE c == call.clst
  <2>2. /\ h \in Clusters /\ DirHead(view, h) /\ c \in Chain(view, h) /\ c \in Clusters
        /\ \A b \in Chain(view, h) \ Chain(view, c) : Bare(view, b)
        /\ call \in Locals /\ Linked(view) /\ Whole(view, {}, {})
    <3>1. KnowOld /\ KnowEmpty
      BY DEF Held, Known
    <3>2. call.entry.kind = "dir" /\ h \in Clusters /\ call.odir # 0 /\ c \in Clusters
      BY <1>1, <2>1 DEF Typed, OtherTyped, StepTyped
    <3>3. /\ EntryIn(view, call.oclust, call.oslot) = call.entry /\ call.oclust \in Clusters
          /\ call.oslot \in Slots /\ Used(call.entry)
      BY <1>1, <2>1, <3>1, <3>2 DEF KnowOld, Typed, StepTyped, Used
    <3>4. DirHead(view, h)
      BY <3>2, <3>3 DEF DirHead, UsedIn
    <3> QED BY <1>1, <3>1, <3>2, <3>4, InCall, InCallWhole DEF KnowEmpty
  <2>3. \/ /\ pc' = "empty" /\ view.fat[c] \in Clusters /\ Bare(view, c)
           /\ call' = [call EXCEPT !.clst = view.fat[c]]
        \/ /\ pc' = "emptyNext" /\ call' = call /\ Bare(view, c)
        \/ /\ pc' = "seek" /\ call' = call /\ Bare(view, c)
           /\ \/ view.fat[c] \notin Clusters
              \/ \E s \in Slots : EntryIn(view, c, s).name = "end"
    <3>1. CASE Empty
      BY <1>3, <3>1 DEF Empty, Goto, Ents, EntryIn, UsedIn, Bare
    <3>2. CASE EmptyNext
      <4>1. Bare(view, c)
        BY <3>2 DEF Held, Known, KnowEmpty, EmptyNext, At
      <4> QED BY <3>2, <4>1 DEF EmptyNext, Goto
    <3> QED BY <3>1, <3>2
  <2>4. Chain(view, c) = {c} \cup Chain(view, view.fat[c])
    BY <2>2, ChainUnrolls
  <2>5. /\ SameName /\ call'.clust = call.clust
        /\ call'.clst = IF pc' = "empty" THEN view.fat[c] ELSE c
    BY <2>2, <2>3 DEF SameName, Locals
  <2>9. call'.odir = call'.dir
    BY <1>1, <2>1, <2>5 DEF Held, Known, KnowEmpty, SameName
  <2>6. KnowEmpty'
    <3>1. CASE pc' = "empty"
      <4>1. view.fat[c] \in Chain(view, h)
        BY <2>2, <2>3, <3>1, ChainIs
      <4>2. \A b \in Chain(view, h) \ Chain(view, view.fat[c]) : Bare(view, b)
        BY <2>2, <2>3, <2>4, <3>1
      <4> QED BY <1>1, <2>5, <2>9, <3>1, <4>1, <4>2 DEF KnowEmpty, SameVolume, SameName
    <3>2. CASE pc' = "emptyNext"
      BY <1>1, <2>2, <2>3, <2>5, <2>9, <3>2 DEF KnowEmpty, SameVolume, SameName
    <3>3. CASE pc' = "seek"
      <4>1. Chain(view, c) = {c}
        BY <2>2, <2>3, <2>4, <3>3, EndIsLast, ChainNone
      <4>2. AllBare(view, h)
        BY <2>2, <2>3, <3>3, <4>1 DEF AllBare
      <4> QED BY <1>1, <2>5, <2>9, <3>3, <4>2 DEF KnowEmpty, SameVolume, SameName
    <3> QED BY <2>3, <3>1, <3>2, <3>3
  <2>7. KnowHere' /\ KnowRaw' /\ KnowOld' /\ KnowPromise'
    <3>1. KnowHere /\ KnowRaw /\ KnowOld /\ KnowPromise
      BY DEF Held, Known
    <3> QED BY <1>1, <2>1, <2>3, <2>5, <3>1
            DEF KnowHere, KnowRaw, KnowOld, KnowPromise, SameVolume, SameName
  <2>8. ~Renaming' /\ call'.cmd = "unlink" /\ pc' \in {"empty", "emptyNext", "seek", "remove"}
    BY <2>1, <2>3, <2>5 DEF Renaming, SameName
  <2> QED BY <1>1, <2>6, <2>7, <2>8, RemoveKnown, QuietSure DEF Held, SameVolume, KnowPromise
<1> QED BY <1>2, <1>3

-----------------------------------------------------------------------------
(* The end of a call: sync() brings the card up to date.                   *)

\* Without a change in the window the card is what ff.c sees.
LEMMA CardIsView ==
  ASSUME Typed, CardBehindWindow
  PROVE  /\ ~wflag => card = view
         /\ wflag => Written = view
<1>1. view \in Volume /\ card \in Volume
  BY DEF Typed, DiskTyped, VolumeTyped
<1>2. ASSUME ~wflag PROVE card = view
  <2>1. card.fat = view.fat
    BY <1>1, <1>2 DEF Volume, CardBehindWindow
  <2>2. card.data = view.data
    BY <1>1, <1>2 DEF Volume, CardBehindWindow
  <2> QED BY <1>1, <2>1, <2>2 DEF Volume
<1>3. Written = view
  <2>1. /\ Written.fat = [c \in Clusters |-> IF FatOf(c) = win THEN view.fat[c] ELSE card.fat[c]]
        /\ Written.data = [c \in Clusters |-> IF c = win THEN view.data[c] ELSE card.data[c]]
        /\ Written = [fat |-> Written.fat, data |-> Written.data]
    BY DEF Written
  <2>2. Written.fat = view.fat
    BY <1>1, <2>1 DEF Volume, CardBehindWindow
  <2>3. Written.data = view.data
    BY <1>1, <2>1 DEF Volume, CardBehindWindow
  <2> QED BY <1>1, <2>1, <2>2, <2>3 DEF Volume
<1> QED BY <1>2, <1>3

\* A kept file is added.
LEMMA KeptMore ==
  ASSUME NEW m, NEW k, FilesHold(m, k), k \in [Clusters -> [Names -> Promise \cup {NoPromise}]],
         NEW d \in Clusters, NEW n \in Names, NEW p,
         p # NoPromise => DirHead(m, d) /\ Intact(m, d, n, p),
         NEW k2, k2 = [k EXCEPT ![d][n] = p]
  PROVE  FilesHold(m, k2)
<1> SUFFICES ASSUME NEW e \in Clusters, NEW x \in Names, k2[e][x] # NoPromise
             PROVE  DirHead(m, e) /\ Intact(m, e, x, k2[e][x])
  BY DEF FilesHold
<1>1. k2[e][x] = IF e = d /\ x = n THEN p ELSE k[e][x]
  OBVIOUS
<1> QED BY <1>1 DEF FilesHold

LEMMA SyncHeld == Typed /\ CardBehindWindow /\ Held /\ Sync => Held'
<1> SUFFICES ASSUME Typed, CardBehindWindow, Held, Sync PROVE Held'
  OBVIOUS
<1>1. /\ pc = "sync" /\ ~wflag /\ Return /\ view' = view /\ card' = card
      /\ crossed' = crossed /\ raw' = raw
  BY DEF Sync, At, Syncing, diskVars, OnlyKept
<1>2. card = view
  BY <1>1, CardIsView
<1>3. /\ ~crossed /\ raw = {} /\ call \in Locals /\ call.dir \in Clusters /\ call.name \in Names
      /\ DirHead(view, call.dir) /\ call.clust \in Chain(view, call.dir) /\ call.clust \in Clusters
      /\ Linked(view)
  BY <1>1, InCall
<1>4. Whole(view, {}, {}) /\ FilesHold(view, kept)
  <2>1. CASE ~Renaming
    BY <1>1, <2>1, InCallWhole
  <2>2. CASE Renaming
    <3>1. ~Renamed(view)
      BY <1>1, <2>2 DEF Held, Known, KnowNames, Renamed
    <3> QED BY <1>3, <3>1 DEF Held, Sure, Twice
  <2> QED BY <2>1, <2>2
<1>5. FilesHold(view, kept')
  <2>1. kept \in [Clusters -> [Names -> Promise \cup {NoPromise}]]
    BY DEF Typed, HistoryTyped
  <2>2. CASE call.cmd = "stor"
    <3> DEFINE p == [text |-> call.text, size |-> call.size]
    <3>1. Found = EntryIn(view, call.clust, call.slot)
      BY DEF Found, EntryIn, Ents
    <3>2. Found.name = call.name /\ FileIs(view, Found, p)
      BY <1>1, <2>2 DEF Held, Known, KnowFile
    <3>3. call.slot \in Slots
      <4>1. open = Here /\ open # NoPlace
        BY <1>1, <1>3, <2>2, Zeros DEF Typed, StorTyped, Here, NoPlace
      <4> QED BY <4>1 DEF Typed, CallTyped, Here
    <3>4. Intact(view, call.dir, call.name, p)
      <4> HIDE DEF p
      <4> QED BY <1>3, <1>4, <3>1, <3>2, <3>3, IntactIs
    <3>5. kept' = [kept EXCEPT ![call.dir][call.name] = p]
      BY <2>2 DEF Sync
    <3> HIDE DEF p
    <3> QED BY <1>3, <1>4, <2>1, <3>4, <3>5, KeptMore
  <2>3. CASE call.cmd = "rnto"
    <3>1. kept' = [kept EXCEPT ![call.dir][call.name] = call.promise]
      BY <2>3 DEF Sync
    <3>2. ASSUME call.promise # NoPromise PROVE Intact(view, call.dir, call.name, call.promise)
      <4>1. Renaming
        BY <1>1, <2>3 DEF Renaming
      <4>2. /\ EntryIn(view, call.clust, call.slot) = [call.entry EXCEPT !.name = call.name]
            /\ FileIs(view, call.entry, call.promise) /\ call.slot \in Slots
        BY <3>2, <4>1 DEF Held, Known, KnowNames
      <4>3. call.entry \in Entry
        BY <1>3 DEF Locals
      <4>4. /\ EntryIn(view, call.clust, call.slot).name = call.name
            /\ FileIs(view, EntryIn(view, call.clust, call.slot), call.promise)
        BY <4>2, <4>3 DEF FileIs, Entry
      <4> QED BY <1>3, <1>4, <4>2, <4>4, IntactIs
    <3> QED BY <1>3, <1>4, <2>1, <3>1, <3>2, KeptMore
  <2>4. CASE call.cmd \notin {"stor", "rnto"}
    <3>1. kept' = kept
      BY <2>4 DEF Sync
    <3> QED BY <1>4, <3>1
  <2> QED BY <2>2, <2>3, <2>4
<1>6. Plain(view', crossed', raw', kept') /\ Plain(card', crossed', raw', kept')
  BY <1>1, <1>2, <1>3, <1>4, <1>5 DEF Plain
<1>7. ~Renaming' /\ call'.promise = NoPromise
  BY <1>1 DEF Return, NoCall, Renaming
<1>8. FreeApart'
  BY <1>1 DEF Held, FreeApart
<1> QED BY <1>1, <1>6, <1>7, <1>8, PlainSure, IdleKnown DEF Held

\* A step of a rename that leaves the volume alone.
LEMMA SeekHeld == Typed /\ Held /\ Seek => Held'
<1> SUFFICES ASSUME Typed, Held, Seek PROVE Held'
  OBVIOUS
<1>1. pc = "seek" /\ SameVolume
  BY DEF Seek, At, Local, diskVars, history, SameVolume
<1>2. /\ pc' \in {"seek", "remove"} /\ call \in Locals
      /\ SameName /\ call'.clust = call.clust /\ call'.slot = call.slot
  <2>1. call \in Locals
    BY DEF Typed, CallTyped
  <2> QED BY <2>1 DEF Seek, Goto, SameName, Locals
<1>3. call.cmd \in {"unlink", "rnto"}
  BY <1>1 DEF Typed, CallTyped, StorTyped, OtherTyped, Locals, Searching, Entering, Taking,
     Writing
<1>4. KnowHere' /\ KnowRaw' /\ KnowOld'
  <2>1. KnowHere /\ KnowRaw /\ KnowOld
    BY DEF Held, Known
  <2> QED BY <1>1, <1>2, <1>3, <2>1 DEF KnowHere, KnowRaw, KnowOld, SameName, SameVolume
<1>5. CASE call.cmd = "unlink"
  <2>1. KnowEmpty' /\ KnowPromise' /\ ~Renaming /\ ~Renaming'
    <3>1. KnowEmpty /\ KnowPromise
      BY DEF Held, Known
    <3> QED BY <1>1, <1>2, <1>5, <3>1 DEF KnowEmpty, KnowPromise, SameName, SameVolume, Renaming
  <2> QED BY <1>1, <1>2, <1>4, <1>5, <2>1, RemoveKnown, QuietSure
          DEF Held, SameVolume, SameName, KnowPromise
<1>6. CASE call.cmd = "rnto"
  <2>1. Renaming /\ Renaming'
    BY <1>1, <1>2, <1>6 DEF Renaming, SameName
  <2>2. KnowNames' /\ KnowPromise'
    <3>1. KnowNames
      BY DEF Held, Known
    <3> QED BY <1>1, <1>2, <2>1, <3>1 DEF KnowNames, KnowPromise, SameName, SameVolume
  <2>3. Known'
    <3>1. KnowSearch' /\ KnowRoom' /\ KnowLink' /\ KnowText' /\ KnowBlank' /\ KnowFile'
      BY <1>2, <1>6 DEF KnowSearch, KnowRoom, KnowLink, KnowText, KnowBlank, KnowFile,
         Stretching, Filling, Opened, Taking, Entering, SameName
    <3>2. KnowEmpty' /\ KnowDirs' /\ KnowFree' /\ KnowMade'
      BY <1>2, <1>6, <2>1 DEF KnowEmpty, KnowDirs, KnowFree, KnowMade, SameName
    <3> QED BY <1>4, <2>2, <3>1, <3>2 DEF Known
  <2>4. /\ Renamed(view)' <=> Renamed(view)
        /\ Renamed(card)' <=> Renamed(card)
    BY <1>1, <1>2, <2>1 DEF Renamed, SameName, SameVolume
  <2>5. Sure(view)'
    <3>1. Twice(view)' = Twice(view)
      BY <1>1, <1>2, <2>4 DEF Twice, SameName, SameVolume
    <3>2. Promised(view) => Promised(view)'
      BY <1>1, <1>2 DEF Promised, SameName, SameVolume
    <3>3. InBoth(view) => InBoth(view)'
      BY <1>1, <1>2, <2>4 DEF InBoth, SameName, SameVolume
    <3> QED BY <1>1, <3>1, <3>2, <3>3 DEF Held, Sure, SameVolume
  <2>6. Sure(card)'
    <3>1. Twice(card)' = Twice(card)
      BY <1>1, <1>2, <2>4 DEF Twice, SameName, SameVolume
    <3>2. Promised(card) => Promised(card)'
      BY <1>1, <1>2 DEF Promised, SameName, SameVolume
    <3>3. InBoth(card) => InBoth(card)'
      BY <1>1, <1>2, <2>4 DEF InBoth, SameName, SameVolume
    <3> QED BY <1>1, <3>1, <3>2, <3>3 DEF Held, Sure, SameVolume
  <2>7. FreeApart'
    BY <1>1 DEF Held, FreeApart, SameVolume
  <2> QED BY <2>3, <2>5, <2>6, <2>7 DEF Held
<1> QED BY <1>3, <1>5, <1>6

-----------------------------------------------------------------------------
(* STOR between two writes.                                                *)

\* What is known of the open file.
LEMMA WritingIs ==
  ASSUME Typed, pc \in Writing
  PROVE  call.cmd = "stor" /\ open = Here /\ Opened /\ Filling
<1>1. call.cmd = "stor"
  BY DEF Typed, CallTyped, OtherTyped, Locals, Searching, Entering, Taking, Writing,
         Removing
<1>2. open = Here
  BY <1>1 DEF Typed, StorTyped
<1> QED BY <1>1, <1>2 DEF Opened, Filling

\* STOR goes on with its file.
LEMMA FillsOn ==
  ASSUME Typed, Held, Filling, SameVolume, SameName, open' = open,
         call'.clust = call.clust, call'.slot = call.slot, call'.last = call.last,
         call'.text = call.text,
         pc \in {"data", "more", "scan"}, pc' \in {"scan", "more", "close", "data"},
         pc' = "more" => call.sclust # 0,
         pc' = "scan" => /\ call'.prev = IF call.sclust = 0 THEN 0 ELSE call.last
                         /\ call.sclust # 0 => view.fat[call.last] = EOC
  PROVE  Held'
<1>1. KnowHere /\ KnowRaw /\ KnowText /\ KnowFile /\ KnowPromise
  BY DEF Held, Known
<1>2. Opened' /\ pc' \in Taking \cup Writing /\ Filling'
  BY DEF Filling, Opened, Here, SameName, Taking, Writing
<1>3. KnowHere' /\ KnowRaw' /\ KnowLink'
  BY <1>1 DEF KnowHere, KnowRaw, KnowLink, SameVolume, SameName
<1>4. KnowText'
  BY <1>1, <1>2 DEF KnowText, SameVolume, SameName, Taking
<1>5. Found' = Found
  BY DEF Found, Ents, SameVolume
<1>6. KnowFile'
  BY <1>1, <1>2, <1>5 DEF KnowFile, SameVolume, SameName
<1>7. ~Renaming /\ ~Renaming' /\ KnowPromise'
  BY <1>1 DEF KnowPromise, SameName, Renaming
<1> QED BY <1>1, <1>2, <1>3, <1>4, <1>6, <1>7, FillKnown, QuietSure
        DEF Held, SameVolume, SameName, KnowPromise

LEMMA FillingHeld == Typed /\ Held /\ (StorMore \/ More \/ StorEnd) => Held'
<1> SUFFICES ASSUME Typed, Held, StorMore \/ More \/ StorEnd PROVE Held'
  OBVIOUS
<1>1. pc \in {"data", "more"} /\ SameVolume /\ open' = open /\ call \in Locals
  BY DEF StorMore, More, StorEnd, At, Local, diskVars, history, SameVolume, Typed, CallTyped
<1>2. Filling
  BY <1>1, WritingIs DEF Writing
<1>3. CASE call' = call /\ pc' \in {"more", "close"} /\ (pc' = "more" => call.sclust # 0)
  BY <1>1, <1>2, <1>3, FillsOn DEF SameName
<1>4. CASE StorMore /\ call.sclust = 0
  <2>1. Scans(0)
    BY <1>4 DEF StorMore
  <2> QED BY <1>1, <1>2, <1>4, <2>1, Zeros, ScansIs, FillsOn
<1>5. CASE More
  <2>1. Scans(call.last) /\ call.last \in Starts /\ view.fat[call.last] = EOC /\ pc = "more"
    BY <1>1, <1>5 DEF More, At, Locals
  <2>2. call.sclust # 0
    BY <1>2, <2>1 DEF Held, Known, KnowText
  <2> QED BY <1>1, <1>2, <2>1, <2>2, ScansIs, FillsOn
<1> QED BY <1>3, <1>4, <1>5 DEF StorMore, StorEnd, Goto

LEMMA ReopenHeld == Typed /\ Held /\ Reopen => Held'
<1> SUFFICES ASSUME Typed, Held, Reopen PROVE Held'
  OBVIOUS
<1>1. /\ pc = "reopen" /\ pc' = "data" /\ call' = call /\ open' = Here /\ SameVolume
  BY DEF Reopen, At, Goto, diskVars, history, SameVolume
<1>2. call.cmd = "stor"
  BY <1>1 DEF Typed, CallTyped, OtherTyped, Locals, Searching, Entering, Taking, Removing
<1>3. Opened' /\ ~Filling
  BY <1>1, <1>2 DEF Opened, Here, Filling, Taking, Writing
<1>4. KnowHere /\ KnowRaw /\ KnowBlank /\ KnowFile /\ KnowPromise
  BY DEF Held, Known
<1>5. call.sclust = 0 /\ call.size = 0
  BY <1>1, <1>2, <1>3, <1>4 DEF KnowBlank
<1>6. KnowHere' /\ KnowRaw' /\ KnowLink' /\ KnowText' /\ KnowPromise'
  BY <1>1, <1>2, <1>4, <1>5
     DEF KnowHere, KnowRaw, KnowLink, KnowText, KnowPromise, SameVolume, Taking, Renaming
<1>7. Found' = Found
  BY <1>1 DEF Found, Ents, SameVolume
<1>8. KnowFile'
  BY <1>1, <1>4, <1>7 DEF KnowFile, SameVolume
<1>9. ~Renaming /\ ~Renaming' /\ call'.promise = NoPromise
  BY <1>1, <1>4 DEF Renaming, KnowPromise
<1>10. pc' \in Taking \cup Writing
  BY <1>1 DEF Writing
<1> QED BY <1>1, <1>3, <1>6, <1>8, <1>9, <1>10, FillKnown, QuietSure DEF Held, SameVolume

LEMMA StretchedHeld == Typed /\ CardBehindWindow /\ Held /\ Stretched => Held'
<1> SUFFICES ASSUME Typed, CardBehindWindow, Held, Stretched PROVE Held'
  OBVIOUS
<1>1. /\ pc = "stretched" /\ ~wflag /\ pc' = "alloc" /\ raw' = {}
      /\ call' = [call EXCEPT !.clust = call.ncl, !.ncl = 0]
      /\ view' = view /\ card' = card /\ open' = open /\ kept' = kept /\ crossed' = crossed
  BY DEF Stretched, At, Syncing, diskVars
<1>2. card = view
  BY <1>1, CardIsView
<1>3. /\ ~crossed /\ call \in Locals /\ DirHead(view, call.dir) /\ Linked(view)
  BY <1>1, InCall
<1>4. SameName /\ call'.clust = call.ncl
  BY <1>1, <1>3 DEF SameName, Locals
<1>5. /\ KnowRaw /\ KnowSearch /\ KnowRoom /\ KnowBlank /\ KnowOld /\ KnowDirs /\ KnowPromise
      /\ KnowMade
  BY DEF Held, Known
<1>6. /\ raw = {call.ncl} /\ call.ncl \in Chain(view, call.dir)
      /\ view.data[call.ncl].text = Tab /\ call.ncl \in Clusters
  BY <1>1, <1>5 DEF KnowRaw, KnowRoom, Typed, StepTyped
<1>7. ~Renaming /\ ~Renaming'
  BY <1>1 DEF Renaming
<1>8. Whole(view, {}, {}) /\ FilesHold(view, kept)
  <2>1. Whole(view, {}, raw) /\ FilesHold(view, kept)
    BY <1>3, <1>7, SurePlain DEF Plain, Held
  <2>2. TablesHold(view, {})
    BY <1>6, <2>1 DEF Whole, TablesHold
  <2> QED BY <2>1, <2>2 DEF Whole
<1>9. Sure(view)' /\ Sure(card)' /\ FreeApart'
  <2>1. Plain(view', crossed', raw', kept') /\ Plain(card', crossed', raw', kept')
    BY <1>1, <1>2, <1>3, <1>8 DEF Plain
  <2>2. call'.promise = NoPromise
    BY <1>4, <1>5, <1>7 DEF KnowPromise, SameName
  <2> QED BY <1>1, <1>7, <2>1, <2>2, PlainSure DEF Held, FreeApart
<1>10. KnowHere' /\ KnowRaw'
  BY <1>1, <1>3, <1>4, <1>6 DEF KnowHere, KnowRaw, SameName
<1>11. KnowSearch'
  BY <1>1, <1>4, <1>5 DEF KnowSearch, SameName, Entering, Stretching, Taking
<1>12. KnowRoom' /\ KnowLink'
  BY <1>1 DEF KnowRoom, KnowLink, Stretching, Taking
<1>13. KnowBlank'
  BY <1>1, <1>4, <1>5 DEF KnowBlank, SameName, Filling, Taking, Writing
<1>14. KnowOld' /\ KnowDirs' /\ KnowPromise'
  BY <1>1, <1>4, <1>5, <1>7 DEF KnowOld, KnowDirs, KnowPromise, SameName
<1>15. KnowMade'
  BY <1>1, <1>4, <1>5 DEF KnowMade, SameName
<1>16. ~Opened'
  <2>1. call.cmd = "stor" => open = NoPlace
    BY <1>1 DEF Typed, StorTyped, Entering
  <2> QED BY <1>1, <1>4, <1>6, <2>1, Zeros DEF Opened, Here, NoPlace, SameName
<1>17. pc' \in Entering \cup Taking \cup {"mkdSync", "mkdDots"}
  BY <1>1 DEF Entering
<1> QED BY <1>9, <1>10, <1>11, <1>12, <1>13, <1>14, <1>15, <1>16, <1>17, EnterKnown DEF Held

-----------------------------------------------------------------------------
(* Steps that take, link and free clusters: nothing that leads to a chain  *)
(* changes.                                                                *)

\* The name and the entry a call works on.
SameWork ==
  /\ call'.cmd = call.cmd /\ call'.dir = call.dir /\ call'.name = call.name
  /\ call'.odir = call.odir /\ call'.oclust = call.oclust /\ call'.oslot = call.oslot
  /\ call'.entry = call.entry /\ call'.promise = call.promise

\* A name that is missing stays missing, and a full table full.
LEMMA GrowsAbsent ==
  ASSUME NEW m, NEW n, NEW q, NEW X, NEW r, Whole(m, X, r), Grows(m, n, q, X),
         NEW d, DirHead(m, d), NEW name \in Names, Absent(m, d, name)
  PROVE  Absent(n, d, name)
<1> SUFFICES ASSUME NEW c \in Chain(n, d), NEW s \in Slots, EntryIn(n, c, s).name = name
             PROVE  FALSE
  BY DEF Absent, NotIn
<1>1. d \in Clusters /\ Lead(m, d)
  BY LeadIsHead
<1>2. c \in Clusters
  BY <1>1, GrownChain
<1>3. UsedIn(n, c, s)
  BY DEF UsedIn, Used
<1>4. EntryIn(m, c, s) = EntryIn(n, c, s)
  BY <1>2, <1>3 DEF Grows, SameEntries
<1>5. c \notin Chain(m, d)
  BY <1>4 DEF Absent, NotIn
<1>6. Bare(n, c)
  BY <1>1, <1>5 DEF Grows, ChainGrows
<1> QED BY <1>3, <1>6 DEF Bare

LEMMA GrowsUsed ==
  ASSUME NEW m, NEW n, NEW q, NEW X, Grows(m, n, q, X), NEW c \in Clusters, AllUsed(m, c)
  PROVE  AllUsed(n, c)
<1>1. SameEntries(m, n)
  BY DEF Grows
<1> QED BY <1>1, SameLeads DEF AllUsed

\* A step that lets the volume grow, between commands' names.
LEMMA GrowsSure ==
  ASSUME Typed, Held, pc # "idle", ~Renaming, ~Renaming', call'.promise = call.promise,
         card' = card, kept' = kept, crossed' = crossed, raw \subseteq raw',
         Grows(view, view', raw', {})
  PROVE  /\ Sure(view)' /\ Sure(card)'
         /\ Whole(view, {}, raw) /\ FilesHold(view, kept)
<1>1. ~crossed /\ call.promise = NoPromise
  BY InCall DEF Held, Known, KnowPromise
<1>2. /\ Whole(view, {}, raw) /\ FilesHold(view, kept)
      /\ Whole(card, {}, raw) /\ FilesHold(card, kept)
  BY <1>1, SurePlain DEF Held, Plain
<1>3. Whole(view', {}, raw')
  BY <1>2, GrowsWhole
<1>4. FilesHold(view', kept')
  BY <1>2, GrowsFiles
<1>5. Whole(card', {}, raw') /\ FilesHold(card', kept')
  BY <1>2, WholeMore
<1>6. Plain(view', crossed', raw', kept') /\ Plain(card', crossed', raw', kept')
  BY <1>1, <1>3, <1>4, <1>5 DEF Plain
<1> QED BY <1>1, <1>2, <1>6, PlainSure

LEMMA GrowsKnown ==
  ASSUME Typed, Held, pc # "idle", ~Renaming, ~Renaming', SameWork,
         card' = card, kept' = kept, crossed' = crossed, raw \subseteq raw',
         Grows(view, view', raw', {}),
         pc \notin {"sync", "empty", "emptyNext", "seek", "remove"},
         pc' \notin {"idle", "empty", "emptyNext", "seek", "remove"},
         call'.clust = call.clust
  PROVE  /\ KnowHere' /\ KnowOld' /\ KnowDirs' /\ KnowPromise'
         /\ Absent(view, call.dir, call.name) => Absent(view', call.dir, call.name)
<1>1. /\ ~crossed /\ call.name \in Names /\ call.dir \in Clusters
      /\ DirHead(view, call.dir) /\ call.clust \in Chain(view, call.dir)
      /\ KnowOld /\ KnowDirs /\ KnowPromise
  BY InCall DEF Held, Known
<1>2. Whole(view, {}, raw)
  BY GrowsSure DEF SameWork
<1>3. Absent(view, call.dir, call.name) => Absent(view', call.dir, call.name)
  BY <1>1, <1>2, GrowsAbsent
<1>4. \A h : DirHead(view, h) => DirHead(view', h) /\ Chain(view, h) \subseteq Chain(view', h)
  <2>1. SameEntries(view, view')
    BY DEF Grows
  <2> QED BY <1>2, <2>1, SameLeads, LeadIsHead, GrownChain
<1>5. KnowHere'
  BY <1>1, <1>4 DEF KnowHere, SameWork
<1>6. KnowOld'
  <2> SUFFICES ASSUME call.cmd = "rnto", call.odir # 0 PROVE KnowOld'
    BY DEF KnowOld, SameWork
  <2>1. /\ EntryIn(view, call.oclust, call.oslot) = call.entry
        /\ DirHead(view, call.odir) /\ call.oclust \in Chain(view, call.odir)
    BY <1>1 DEF KnowOld
  <2>2. call.oclust \in Clusters /\ call.oslot \in Slots /\ call.entry.name \in Names
    BY DEF Typed, StepTyped
  <2>3. EntryIn(view', call.oclust, call.oslot) = call.entry
    <3>1. UsedIn(view, call.oclust, call.oslot)
      BY <2>1, <2>2 DEF UsedIn, Used
    <3> QED BY <2>1, <2>2, <3>1 DEF Grows, SameEntries
  <2>4. DirHead(view', call.odir) /\ call.oclust \in Chain(view', call.odir)
    BY <1>4, <2>1
  <2> QED BY <2>3, <2>4 DEF KnowOld, SameWork
<1>7. KnowDirs'
  <2>1. Dirs(view) \subseteq Dirs(view')
    BY <1>2, GrowsDirs
  <2> QED BY <1>1, <2>1 DEF KnowDirs, SameWork
<1>8. KnowPromise'
  BY <1>1 DEF KnowPromise, SameWork
<1> QED BY <1>3, <1>5, <1>6, <1>7, <1>8

\* Of the steps at the end of a call that is no rename, what remains to be shown.
LEMMA RestKnown ==
  ASSUME pc' \in {"free", "reopen", "sync"}, call'.cmd # "rnto",
         pc' = "reopen" => call'.cmd = "stor",
         KnowHere', KnowRaw', KnowBlank', KnowFile', KnowFree', KnowPromise'
  PROVE  Known'
<1>1. KnowSearch' /\ KnowRoom' /\ KnowLink' /\ KnowText'
  BY DEF KnowSearch, KnowRoom, KnowLink, KnowText, Stretching, Filling, Taking, Writing,
         Entering
<1>2. KnowOld' /\ KnowEmpty' /\ KnowDirs' /\ KnowNames' /\ KnowMade'
  BY DEF KnowOld, KnowEmpty, KnowDirs, KnowNames, KnowMade, Renaming
<1> QED BY <1>1, <1>2 DEF Known

-----------------------------------------------------------------------------
(* remove_chain().                                                         *)

\* The sectors of the FAT are no clusters.
LEMMA WindowOfFat == \A c \in Clusters : FatOf(c) \notin Clusters
<1> SUFFICES ASSUME NEW c \in Clusters PROVE FatOf(c) \notin Clusters
  OBVIOUS
<1>1. c \in Nat /\ PER \in Nat \ {0} /\ LAST \in Nat
  BY FatAssumption DEF Clusters, Root
<1>2. c \div PER >= 0
  BY <1>1
<1> QED BY <1>1, <1>2 DEF FatOf, Clusters, EOC

LEMMA FreeHeld == Typed /\ Held /\ Free => Held'
<1> SUFFICES ASSUME Typed, Held, Free PROVE Held'
  OBVIOUS
<1> DEFINE c == call.clst
<1> DEFINE nxt == view.fat[c]
<1>1. /\ pc = "free" /\ ~Elsewhere /\ card' = card /\ kept' = kept /\ crossed' = crossed
      /\ raw' = raw /\ LinkIs(view, view', c, 0)
  BY DEF Free, At, Syncing, history, SetLink, LinkIs
<1>2. /\ call.cmd \in {"stor", "unlink", "mkd"} /\ c \in Clusters
  BY <1>1 DEF Typed, CallTyped, OtherTyped, StepTyped, Locals, Searching, Entering, Taking,
     Removing
<1>3. \/ nxt \in Clusters /\ pc' = "free" /\ call' = [call EXCEPT !.clst = nxt]
      \/ nxt \notin Clusters /\ call.cmd = "stor" /\ pc' = "reopen" /\ call' = [call EXCEPT !.clst = 0]
      \/ nxt \notin Clusters /\ call.cmd = "unlink" /\ pc' = "sync" /\ call' = [call EXCEPT !.clst = 0]
      \/ Return /\ call.cmd = "mkd"
  BY <1>2 DEF Free
<1>4. /\ ~crossed /\ call \in Locals /\ call.dir \in Clusters /\ call.clust \in Clusters
      /\ VolumeTyped(view) /\ Linked(view)
  BY <1>1, InCall
<1>5. ~Renaming
  BY <1>1 DEF Renaming
<1>6. Whole(view, {}, raw) /\ KnowRaw /\ KnowFree /\ KnowPromise /\ KnowBlank /\ KnowFile
      /\ call.promise = NoPromise
  BY <1>4, <1>5, SurePlain DEF Held, Plain, Known, KnowPromise
<1>7. /\ Head(view, c) /\ ~Lead(view, c) /\ AllBare(view, c)
      /\ \A b \in Chain(view, c) : Outside(card, b)
  <2>1. win = FatOf(c)
    BY <1>1 DEF Elsewhere, Needs, InDir, InFat
  <2>2. win \notin Clusters
    BY <1>2, <2>1, WindowOfFat
  <2> QED BY <1>1, <1>6, <2>2 DEF KnowFree
<1>8. c \in Chain(view, c)
  BY <1>2, <1>4, ChainIs
<1>9. OnlyLink(view, view', c, 0)
  BY <1>1, <1>2, <1>4, LinkSetIs, LinkValues
<1>10. /\ Grows(view, view', raw', {})
       /\ nxt \in Clusters =>
            /\ Head(view', nxt) /\ ~Lead(view', nxt)
            /\ Chain(view', nxt) \subseteq Chain(view, c)
  BY <1>1, <1>6, <1>7, <1>8, FreeGrows DEF AllBare
<1>11. FreeApart'
  <2> SUFFICES ASSUME NEW b \in Clusters, view'.fat[b] = 0 PROVE Outside(card, b)
    BY <1>1 DEF FreeApart
  <2> QED BY <1>7, <1>8, <1>9 DEF OnlyLink, Held, FreeApart
<1>12. ~Renaming'
  BY <1>2, <1>3, <1>4 DEF Renaming, Locals, Return
<1>13. CASE Return
  <2>1. call'.promise = NoPromise
    BY <1>13 DEF Return, NoCall
  <2>2. Sure(view)' /\ Sure(card)'
    BY <1>1, <1>5, <1>6, <1>10, <1>12, <2>1, GrowsSure
  <2> QED BY <1>11, <1>13, <2>2, IdleKnown DEF Held
<1>14. CASE ~Return
  <2>1. /\ SameWork /\ call'.clust = call.clust /\ call'.slot = call.slot
        /\ call'.sclust = call.sclust /\ call'.size = call.size /\ call'.text = call.text
        /\ pc' = "free" => call'.clst = nxt
    BY <1>3, <1>4, <1>14 DEF SameWork, Locals
  <2>2. pc' \in {"free", "reopen", "sync"} /\ (pc' = "reopen" => call'.cmd = "stor")
        /\ call'.cmd # "rnto" /\ (pc' = "sync" => call'.cmd = "unlink")
        /\ (pc' = "free" => nxt \in Clusters)
    BY <1>2, <1>3, <1>14, <2>1 DEF SameWork
  <2>3. Sure(view)' /\ Sure(card)'
    BY <1>1, <1>5, <1>10, <1>12, <2>1, GrowsSure DEF SameWork
  <2>4. KnowHere' /\ KnowPromise'
    <3>1. /\ pc \notin {"idle", "sync", "empty", "emptyNext", "seek", "remove"}
          /\ pc' \notin {"idle", "empty", "emptyNext", "seek", "remove"}
          /\ raw \subseteq raw'
      BY <1>1, <2>2
    <3> QED BY <1>1, <1>5, <1>10, <1>12, <2>1, <3>1, GrowsKnown
  <2>5. KnowRaw'
    BY <1>1, <1>6, <2>1, <2>2, <1>2 DEF KnowRaw, SameWork
  <2>6. KnowBlank' /\ KnowFile'
    <3>1. ~Filling /\ ~Filling'
      BY <1>1, <2>2 DEF Filling, Taking, Writing
    <3>2. KnowBlank'
      BY <1>1, <1>6, <2>1, <3>1 DEF KnowBlank, SameWork
    <3>3. Found' = Found
      <4>1. /\ Found = EntryIn(view, call.clust, call.slot)
            /\ Found' = EntryIn(view', call'.clust, call'.slot)
        BY DEF Found, Ents, EntryIn
      <4> QED BY <1>9, <2>1, <4>1 DEF OnlyLink
    <3>4. KnowFile'
      BY <1>1, <1>6, <2>1, <2>2, <3>1, <3>3 DEF KnowFile, SameWork
    <3> QED BY <3>2, <3>4
  <2>7. KnowFree'
    <3> SUFFICES ASSUME pc' = "free" PROVE KnowFree'
      BY DEF KnowFree
    <3>1. Head(view', nxt) /\ ~Lead(view', nxt) /\ Chain(view', nxt) \subseteq Chain(view, c)
      BY <1>10, <2>2
    <3>2. AllBare(view', nxt)
      BY <1>7, <1>9, <3>1 DEF AllBare, OnlyLink
    <3>3. \A b \in Chain(view', nxt) : Outside(card', b)
      BY <1>1, <1>7, <3>1
    <3> QED BY <2>1, <3>1, <3>2, <3>3 DEF KnowFree
  <2> QED BY <1>11, <2>2, <2>3, <2>4, <2>5, <2>6, <2>7, RestKnown DEF Held
<1> QED BY <1>13, <1>14

-----------------------------------------------------------------------------
(* create_chain(): a free cluster is looked for, and taken.                *)

\* At a step that takes a cluster, for a file or for a table.
LEMMA ScanIs ==
  ASSUME Typed, Held, Scan \/ Link
  PROVE  /\ pc \in {"scan", "link"} /\ card' = card /\ open' = open /\ kept' = kept
         /\ crossed' = crossed /\ call \in Locals /\ call.ncl \in Clusters
         /\ ~Renaming /\ (Filling <=> Opened) /\ (Stretching <=> ~Opened)
         /\ raw = {} /\ ~crossed /\ Whole(view, {}, {}) /\ call.promise = NoPromise
         /\ call.dir \in Clusters /\ DirHead(view, call.dir) /\ call.clust \in Clusters
         /\ Linked(view) /\ VolumeTyped(view)
<1>1. pc \in {"scan", "link"} /\ card' = card /\ open' = open /\ kept' = kept
      /\ crossed' = crossed
  BY DEF Scan, Link, At, history
<1>2. call.ncl \in Clusters
  BY <1>1 DEF Typed, StepTyped, Taking
<1>3. ~Renaming /\ (Filling <=> Opened) /\ (Stretching <=> ~Opened)
  BY <1>1 DEF Renaming, Filling, Stretching, Taking
<1>4. pc \notin {"idle", "stretch", "stretched", "free"}
  BY <1>1
<1> QED BY <1>1, <1>2, <1>3, <1>4, InCall, InCallWhole

\* The next one is looked at, or there is none.
LEMMA ScanOnHeld == Typed /\ Held /\ Scan /\ view.fat[call.ncl] # 0 => Held'
<1> SUFFICES ASSUME Typed, Held, Scan, view.fat[call.ncl] # 0 PROVE Held'
  OBVIOUS
<1>1. /\ pc = "scan" /\ SameVolume /\ open' = open
      /\ NoSpace \/ (pc' = "scan" /\ call' = [call EXCEPT !.ncl = After(@)])
  BY DEF Scan, At, history, SameVolume
<1>2. /\ call \in Locals /\ ~Renaming /\ (Filling <=> Opened) /\ (Stretching <=> ~Opened)
      /\ raw = {} /\ ~crossed
  BY ScanIs
<1>3. CASE Opened /\ ((pc' = "scan" /\ call' = [call EXCEPT !.ncl = After(@)]) \/ NoSpace)
  <2>1. /\ SameName /\ call'.clust = call.clust /\ call'.slot = call.slot
        /\ call'.last = call.last /\ call'.text = call.text
        /\ pc' \in {"scan", "data"} /\ (pc' = "scan" => call'.prev = call.prev)
    BY <1>2, <1>3 DEF NoSpace, SameName, Locals
  <2>2. /\ call.prev = IF call.sclust = 0 THEN 0 ELSE call.last
        /\ call.prev # 0 => view.fat[call.prev] = EOC
    BY <1>1, <1>2, <1>3 DEF Held, Known, KnowText, Taking
  <2>3. call.sclust # 0 => call.last # 0
    BY Zeros DEF Typed, StepTyped
  <2> QED BY <1>1, <1>2, <1>3, <2>1, <2>2, <2>3, FillsOn
<1>4. CASE ~Opened /\ pc' = "scan" /\ call' = [call EXCEPT !.ncl = After(@)]
  <2>1. /\ SameName /\ call'.clust = call.clust /\ call'.slot = call.slot
        /\ call'.prev = call.prev
    BY <1>2, <1>4 DEF SameName, Locals
  <2>2. ~Opened' /\ Stretching' /\ ~Renaming'
    BY <1>1, <1>4, <2>1 DEF Opened, Here, SameName, Stretching, Taking, Renaming
  <2>3. /\ KnowHere /\ KnowRaw /\ KnowSearch /\ KnowRoom /\ KnowBlank /\ KnowOld /\ KnowDirs
        /\ KnowPromise /\ KnowMade
    BY DEF Held, Known
  <2>4. KnowHere' /\ KnowRaw' /\ KnowLink' /\ KnowPromise'
    BY <1>1, <1>2, <1>4, <2>1, <2>2, <2>3
       DEF KnowHere, KnowRaw, KnowLink, KnowPromise, SameVolume, SameName, Renaming
  <2>5. KnowSearch'
    BY <1>1, <1>2, <1>4, <2>1, <2>2, <2>3 DEF KnowSearch, SameVolume, SameName, Entering
  <2>6. KnowRoom'
    BY <1>1, <1>2, <1>4, <2>1, <2>2, <2>3 DEF KnowRoom, SameVolume, SameName, AllUsed,
                                              UsedIn
  <2>7. KnowBlank'
    <3>1. ~Filling
      BY <1>2, <1>4
    <3> QED BY <1>1, <1>4, <2>1, <2>3, <3>1 DEF KnowBlank, SameName
  <2>8. KnowOld' /\ KnowDirs'
    BY <1>1, <1>2, <1>4, <2>1, <2>2, <2>3 DEF KnowOld, KnowDirs, SameVolume, SameName
  <2>9. KnowMade'
    BY <1>1, <1>4, <2>1, <2>3 DEF KnowMade, SameVolume, SameName
  <2>10. pc' \in Entering \cup Taking \cup {"mkdSync", "mkdDots"}
    BY <1>4 DEF Taking
  <2> QED BY <1>1, <1>2, <2>1, <2>2, <2>4, <2>5, <2>6, <2>7, <2>8, <2>9, <2>10, EnterKnown,
             QuietSure DEF Held, SameVolume, SameName, KnowPromise
<1>5. CASE NoSpace /\ ~Opened /\ call.cmd = "mkd" /\ call.dcl # 0
  <2>1. /\ pc' = "free" /\ call' = [call EXCEPT !.clst = call.dcl]
    BY <1>5 DEF NoSpace
  <2>2. SameName /\ call'.clust = call.clust /\ call'.clst = call.dcl
    BY <1>2, <2>1 DEF SameName, Locals
  <2>3. Fresh(view, card, call.dcl) /\ KnowHere /\ KnowRaw /\ KnowPromise
    BY <1>1, <1>5 DEF Held, Known, KnowMade
  <2>4. KnowHere' /\ KnowRaw' /\ KnowPromise'
    BY <1>1, <1>2, <2>1, <2>2, <2>3
       DEF KnowHere, KnowRaw, KnowPromise, SameVolume, SameName, Renaming
  <2>5. KnowBlank' /\ KnowFile'
    BY <1>5, <2>2 DEF KnowBlank, KnowFile, SameName
  <2>6. KnowFree'
    BY <1>1, <2>1, <2>2, <2>3 DEF KnowFree, Fresh, Loose, AllBare, SameVolume
  <2>7. ~Renaming' /\ call'.cmd # "rnto"
    BY <1>5, <2>2 DEF Renaming, SameName
  <2> QED BY <1>1, <1>2, <2>1, <2>2, <2>4, <2>5, <2>6, <2>7, RestKnown, QuietSure
          DEF Held, SameVolume, KnowPromise, SameName
<1>6. CASE Return
  BY <1>1, <1>2, <1>6, ReturnHeld
<1> QED BY <1>1, <1>3, <1>4, <1>5, <1>6 DEF NoSpace

\* The cluster was free, and is taken.
LEMMA AllocatedIs ==
  ASSUME call \in Locals, call.ncl \in Clusters, Allocated
  PROVE  /\ SameWork /\ call'.clust = call.clust /\ call'.slot = call.slot
         /\ call'.ncl = call.ncl /\ call'.size = call.size /\ call'.text = call.text
         /\ Opened =>
              /\ pc' \in {"whole", "part"} /\ call'.last = call.ncl
              /\ call'.sclust = IF call.sclust = 0 THEN call.ncl ELSE call.sclust
         /\ ~Opened => call'.sclust = call.sclust
         /\ ~Opened /\ call.cmd = "mkd" /\ call.dcl = 0 => pc' = "mkdSync" /\ call'.dcl = call.ncl
         /\ ~Opened /\ ~(call.cmd = "mkd" /\ call.dcl = 0) =>
              pc' = "stretch" /\ call'.dcl = call.dcl
<1>1. CASE Opened
  BY <1>1 DEF Allocated, SameWork, Locals
<1>2. CASE ~Opened /\ call.cmd = "mkd" /\ call.dcl = 0
  BY <1>2 DEF Allocated, SameWork, Locals
<1>3. CASE ~Opened /\ ~(call.cmd = "mkd" /\ call.dcl = 0)
  BY <1>3 DEF Allocated, SameWork, Locals
<1> QED BY <1>1, <1>2, <1>3

\* The free cluster is the end of a chain that nothing leads to.
LEMMA TakeIs ==
  ASSUME Typed, Held, Scan, view.fat[call.ncl] = 0
  PROVE  /\ pc = "scan" /\ raw' = raw /\ OnlyLink(view, view', call.ncl, EOC)
         /\ Grows(view, view', raw', {}) /\ Fresh(view', card, call.ncl)
         /\ Chain(view', call.ncl) = {call.ncl}
         /\ FreeApart'
         /\ IF call.prev = 0 THEN Allocated ELSE pc' = "link" /\ call' = call
         /\ \A h : Head(view, h) => Head(view', h) /\ Chain(view', h) = Chain(view, h)
              /\ \A b \in Chain(view, h) : b # call.ncl /\ view'.fat[b] = view.fat[b]
<1> DEFINE c == call.ncl
<1>1. /\ pc = "scan" /\ raw' = raw /\ LinkIs(view, view', c, EOC) /\ card' = card
      /\ IF call.prev = 0 THEN Allocated ELSE pc' = "link" /\ call' = call
  BY DEF Scan, At, history, SetLink, LinkIs, Goto
<1>2. c \in Clusters /\ Whole(view, {}, {}) /\ VolumeTyped(view)
  BY ScanIs
<1>3. OnlyLink(view, view', c, EOC)
  BY <1>1, <1>2, LinkSetIs, LinkValues
<1>4. /\ Grows(view, view', raw', {})
      /\ Head(view', c) /\ ~Lead(view', c) /\ Bare(view', c) /\ Chain(view', c) = {c}
      /\ \A h : Head(view, h) => Head(view', h) /\ Chain(view', h) = Chain(view, h)
              /\ \A b \in Chain(view, h) : b # c /\ view'.fat[b] = view.fat[b]
  BY <1>1, <1>2, TakeGrows
<1>5. Outside(card, c)
  BY <1>2 DEF Held, FreeApart
<1>6. Fresh(view', card, c)
  BY <1>3, <1>4, <1>5 DEF Fresh, Loose, OnlyLink
<1>7. FreeApart'
  <2>1. \A b \in Clusters : view'.fat[b] = 0 => view.fat[b] = 0
    BY <1>3, LinkValues DEF OnlyLink
  <2> QED BY <1>1, <2>1 DEF Held, FreeApart
<1> QED BY <1>1, <1>3, <1>4, <1>6, <1>7

\* A chain that is fresh stays so.
LEMMA TakeFresh ==
  ASSUME Typed, Held, Scan, view.fat[call.ncl] = 0, NEW h, h # 0
  PROVE  /\ Loose(view, card, h) => Loose(view', card, h) /\ h # call.ncl
         /\ Fresh(view, card, h) => Fresh(view', card, h) /\ h # call.ncl
<1>1. OnlyLink(view, view', call.ncl, EOC) /\ Linked(view)
  BY TakeIs DEF OnlyLink
<1>2. Loose(view, card, h) =>
        /\ Head(view', h) /\ ~Lead(view', h) /\ Chain(view', h) = Chain(view, h)
        /\ h # call.ncl /\ view'.fat[h] = view.fat[h]
        /\ \A b \in Chain(view', h) : Bare(view', b) /\ Outside(card, b)
  <2> SUFFICES ASSUME Loose(view, card, h)
               PROVE  /\ Head(view', h) /\ ~Lead(view', h) /\ Chain(view', h) = Chain(view, h)
                      /\ h # call.ncl /\ view'.fat[h] = view.fat[h]
                      /\ \A b \in Chain(view', h) : Bare(view', b) /\ Outside(card, b)
    OBVIOUS
  <2>1. Head(view, h) /\ ~Lead(view, h) /\ \A b \in Chain(view, h) : Bare(view, b) /\ Outside(card, b)
    BY DEF Loose
  <2>2. h \in Chain(view, h)
    BY <1>1, <2>1, ChainIs DEF Head
  <2>3. Head(view', h) /\ Chain(view', h) = Chain(view, h) /\ h # call.ncl
        /\ view'.fat[h] = view.fat[h]
    BY <2>1, <2>2, TakeIs
  <2> QED BY <1>1, <2>1, <2>3 DEF OnlyLink
<1> QED BY <1>2 DEF Loose, Fresh

\* create_chain() has found a free cluster.
LEMMA TakeRest ==
  ASSUME Typed, Held, Scan, view.fat[call.ncl] = 0
  PROVE  /\ KnowHere' /\ KnowOld' /\ KnowDirs' /\ KnowPromise'
         /\ Absent(view, call.dir, call.name) => Absent(view', call.dir, call.name)
         /\ Sure(view)' /\ Sure(card)' /\ SameWork /\ call'.clust = call.clust
         /\ call'.slot = call.slot /\ call'.size = call.size /\ call'.text = call.text
         /\ pc' \in {"link", "whole", "part", "mkdSync", "stretch"} /\ ~Renaming'
<1>1. /\ pc = "scan" /\ card' = card /\ kept' = kept /\ crossed' = crossed
      /\ call \in Locals /\ call.ncl \in Clusters /\ ~Renaming
  BY ScanIs, TakeIs
<1>2. /\ SameWork /\ call'.clust = call.clust /\ call'.slot = call.slot
      /\ call'.size = call.size /\ call'.text = call.text
      /\ pc' \in {"link", "whole", "part", "mkdSync", "stretch"}
  <2>1. CASE Allocated
    BY <1>1, <2>1, AllocatedIs
  <2>2. CASE pc' = "link" /\ call' = call
    BY <2>2 DEF SameWork
  <2> QED BY <2>1, <2>2, TakeIs
<1>3. ~Renaming' /\ raw' = raw /\ Grows(view, view', raw', {})
  BY <1>2, TakeIs DEF Renaming
<1>4. /\ pc \notin {"idle", "sync", "empty", "emptyNext", "seek", "remove"}
      /\ pc' \notin {"idle", "empty", "emptyNext", "seek", "remove"}
      /\ raw \subseteq raw'
  BY <1>1, <1>2, <1>3
<1>5. Sure(view)' /\ Sure(card)'
  BY <1>1, <1>2, <1>3, <1>4, GrowsSure DEF SameWork
<1>6. /\ KnowHere' /\ KnowOld' /\ KnowDirs' /\ KnowPromise'
      /\ Absent(view, call.dir, call.name) => Absent(view', call.dir, call.name)
  BY <1>1, <1>2, <1>3, <1>4, GrowsKnown
<1> QED BY <1>2, <1>3, <1>5, <1>6

\* The file has its first cluster, or one that is to be linked to its last.
LEMMA TakeFileHeld ==
  Typed /\ Held /\ Scan /\ view.fat[call.ncl] = 0 /\ Opened => Held'
<1> SUFFICES ASSUME Typed, Held, Scan, view.fat[call.ncl] = 0, Opened PROVE Held'
  OBVIOUS
<1> DEFINE c == call.ncl
<1>1. /\ pc = "scan" /\ raw' = raw /\ raw = {} /\ c \in Clusters /\ Filling /\ open' = open
      /\ call \in Locals /\ Linked(view) /\ card' = card /\ kept' = kept
  BY ScanIs, TakeIs
<1>2. /\ KnowHere' /\ KnowPromise' /\ Sure(view)' /\ Sure(card)' /\ FreeApart' /\ SameWork
      /\ call'.clust = call.clust /\ call'.slot = call.slot
      /\ call'.size = call.size /\ call'.text = call.text
      /\ pc' \in {"link", "whole", "part", "mkdSync", "stretch"}
  BY TakeRest, TakeIs
<1>3. OnlyLink(view, view', c, EOC) /\ Fresh(view', card, c) /\ Chain(view', c) = {c}
      /\ Linked(view')
  BY TakeIs DEF OnlyLink
<1>4. Opened' /\ Filling'
  <2>1. pc' \in {"link", "whole", "part"}
    <3>1. Allocated => pc' \in {"whole", "part"}
      BY <1>1, AllocatedIs
    <3> QED BY <3>1, TakeIs
  <2>2. Opened'
    BY <1>1, <1>2 DEF Opened, Here, SameWork
  <2> QED BY <2>1, <2>2 DEF Filling, Taking, Writing
<1>5. KnowRaw'
  BY <1>1, <1>2, <1>4 DEF KnowRaw, Opened, Filling, Taking, Writing
<1>6. KnowFile'
  <2>1. Found' = Found
    <3>1. /\ Found = EntryIn(view, call.clust, call.slot)
          /\ Found' = EntryIn(view', call'.clust, call'.slot)
      BY DEF Found, Ents, EntryIn
    <3> QED BY <1>2, <1>3, <3>1 DEF OnlyLink
  <2>2. KnowFile
    BY DEF Held, Known
  <2> QED BY <1>1, <1>2, <1>4, <2>1, <2>2 DEF KnowFile, Filling, SameWork, Taking, Writing
<1>7. KnowText /\ (call.sclust # 0 => call.last \in Clusters)
      /\ (call.prev = 0 <=> call.sclust = 0)
  <2>1. KnowText /\ (call.sclust # 0 => call.last \in Clusters)
    BY DEF Held, Known, Typed, StepTyped
  <2>2. call.prev = IF call.sclust = 0 THEN 0 ELSE call.last
    BY <1>1, <2>1 DEF KnowText, Taking
  <2> QED BY <2>1, <2>2, Zeros
<1>8. pc' \in Taking \cup Writing
  BY <1>4 DEF Filling
<1>9. CASE call.prev = 0
  <2>1. pc' \in {"whole", "part"} /\ call'.sclust = c /\ call'.last = c /\ call'.ncl = c
        /\ call'.size = 0
    BY <1>1, <1>2, <1>7, <1>9, AllocatedIs, TakeIs DEF KnowText
  <2>2. BlockAt(view', c, 0) = c
    BY <1>1, <1>3, BlockSteps, LinkValues
  <2>3. Cardinality({c}) = 1
    BY FS_Singleton
  <2>4. Loose(view', card, c) /\ view'.fat[c] = EOC /\ c # 0 /\ c \in Chain(view', c)
    BY <1>1, <1>3, Zeros DEF Fresh
  <2>5. KnowText'
    BY <1>1, <1>3, <2>1, <2>2, <2>3, <2>4 DEF KnowText, BlocksHold, Taking
  <2>6. KnowLink'
    BY <2>1 DEF KnowLink
  <2> QED BY <1>2, <1>4, <1>5, <1>6, <1>8, <2>5, <2>6, FillKnown DEF Held
<1>10. CASE call.prev # 0
  <2>1. pc' = "link" /\ call' = call
    BY <1>10, TakeIs
  <2>2. /\ Loose(view, card, call.sclust) /\ call.sclust # 0 /\ call.last = call.prev
        /\ call.last \in Chain(view, call.sclust) /\ view.fat[call.last] = EOC
        /\ call.size <= Cardinality(Chain(view, call.sclust)) /\ call.size > 0
        /\ BlocksHold(view, call.sclust, call.size, call.text)
        /\ BlockAt(view, call.sclust, call.size - 1) = call.last
    BY <1>1, <1>7, <1>10 DEF KnowText, Taking
  <2>3. /\ Loose(view', card, call.sclust) /\ call.sclust # c
        /\ Chain(view', call.sclust) = Chain(view, call.sclust)
        /\ view'.fat[call.last] = EOC
    BY <2>2, TakeFresh, TakeIs DEF Loose
  <2>4. /\ \A i \in 0 .. MAX_BLOCKS : BlockAt(view, call.sclust, i) \in Clusters =>
             BlockAt(view', call.sclust, i) = BlockAt(view, call.sclust, i)
    <3>1. call.sclust \in Clusters /\ Head(view, call.sclust)
      BY <2>2 DEF Loose, Head
    <3>2. \A b \in Chain(view, call.sclust) : view'.fat[b] = view.fat[b]
      BY <3>1, TakeIs
    <3> QED BY <1>1, <1>3, <3>1, <3>2, BlockInChain
  <2>5. call.size \in 0 .. MAX_BLOCKS /\ MAX_BLOCKS \in Nat
    BY <1>1, FatAssumption DEF Locals, Blocks
  <2>6. BlocksHold(view', call.sclust, call.size, call.text)
    <3> SUFFICES ASSUME NEW i \in 0 .. call.size - 1
                 PROVE  /\ BlockAt(view', call.sclust, i) \in Clusters
                        /\ view'.data[BlockAt(view', call.sclust, i)].text = call.text
      BY DEF BlocksHold
    <3>1. i \in 0 .. MAX_BLOCKS
      BY <2>5
    <3> QED BY <1>3, <2>2, <2>4, <3>1 DEF BlocksHold, OnlyLink
  <2>7. BlockAt(view', call.sclust, call.size - 1) = call.last
    <3>1. call.size - 1 \in 0 .. MAX_BLOCKS
      BY <2>2, <2>5
    <3> QED BY <1>7, <2>2, <2>4, <3>1
  <2>8. KnowText'
    BY <1>1, <2>1, <2>2, <2>3, <2>6, <2>7 DEF KnowText, Taking
  <2>9. KnowLink'
    BY <1>1, <1>2, <1>3, <1>10, <2>1, <2>3 DEF KnowLink, Opened
  <2> QED BY <1>2, <1>4, <1>5, <1>6, <1>8, <2>8, <2>9, FillKnown DEF Held
<1> QED BY <1>9, <1>10

\* The cluster is for a new directory, or for one more sector of a table.
LEMMA TakeTableHeld ==
  Typed /\ Held /\ Scan /\ view.fat[call.ncl] = 0 /\ ~Opened => Held'
<1> SUFFICES ASSUME Typed, Held, Scan, view.fat[call.ncl] = 0, ~Opened PROVE Held'
  OBVIOUS
<1> DEFINE c == call.ncl
<1>1. /\ pc = "scan" /\ raw' = raw /\ raw = {} /\ c \in Clusters /\ Stretching /\ ~Filling
      /\ open' = open /\ call \in Locals /\ Linked(view) /\ card' = card /\ kept' = kept
      /\ call.dir \in Clusters /\ DirHead(view, call.dir) /\ Whole(view, {}, {})
  BY ScanIs, TakeIs
<1>2. /\ KnowHere' /\ KnowOld' /\ KnowDirs' /\ KnowPromise'
      /\ Absent(view, call.dir, call.name) => Absent(view', call.dir, call.name)
      /\ Sure(view)' /\ Sure(card)' /\ FreeApart' /\ SameWork
      /\ call'.clust = call.clust /\ call'.slot = call.slot
      /\ call'.size = call.size /\ call'.text = call.text
      /\ pc' \in {"link", "whole", "part", "mkdSync", "stretch"}
  BY TakeRest, TakeIs
<1>3. OnlyLink(view, view', c, EOC) /\ Fresh(view', card, c) /\ Linked(view')
  BY TakeIs DEF OnlyLink
<1>4. /\ KnowSearch /\ KnowRoom /\ KnowBlank /\ KnowMade
  BY DEF Held, Known
<1>5. ~Opened'
  BY <1>1, <1>2 DEF Opened, Here, SameWork
<1>6. Absent(view', call.dir, call.name)
  BY <1>1, <1>2, <1>4 DEF KnowSearch
<1>7. CASE call.prev = 0
  <2>1. call.cmd = "mkd" /\ call.dcl = 0
    <3>1. call.prev \notin Chain(view, call.dir)
      BY <1>1, <1>7, ChainIs, Zeros
    <3> QED BY <1>1, <1>4, <3>1 DEF KnowRoom
  <2>2. pc' = "mkdSync" /\ call'.dcl = c
    BY <1>1, <1>7, <2>1, AllocatedIs, TakeIs
  <2>3. KnowRaw' /\ KnowRoom' /\ KnowLink' /\ KnowBlank'
    BY <1>1, <1>2, <2>1, <2>2 DEF KnowRaw, KnowRoom, KnowLink, KnowBlank, Stretching,
                                  Taking,
       SameWork
  <2>4. KnowSearch'
    BY <1>2, <1>6, <2>2 DEF KnowSearch, SameWork
  <2>5. KnowMade'
    BY <1>1, <1>3, <2>2 DEF KnowMade
  <2>6. pc' \in Entering \cup Taking \cup {"mkdSync", "mkdDots"}
    BY <2>2
  <2> QED BY <1>2, <1>5, <2>3, <2>4, <2>5, <2>6, EnterKnown DEF Held
<1>8. CASE call.prev # 0
  <2>1. pc' = "link" /\ call' = call
    BY <1>8, TakeIs
  <2>2. /\ ~(call.cmd = "mkd" /\ call.dcl = 0) /\ call.prev \in Chain(view, call.dir)
        /\ view.fat[call.prev] = EOC /\ AllUsed(view, call.prev)
    BY <1>1, <1>4, <1>8 DEF KnowRoom
  <2>3. /\ call.prev \in Chain(view', call.dir) /\ view'.fat[call.prev] = EOC
        /\ AllUsed(view', call.prev)
    <3>1. Head(view, call.dir) /\ call.prev \in Clusters
      BY <1>1, <2>2, LeadIsHead, ChainIs
    <3>2. AllUsed(view', call.prev)
      BY <2>2, <3>1, TakeIs, GrowsUsed
    <3> QED BY <2>2, <3>1, <3>2, TakeIs
  <2>4. call.cmd = "mkd" =>
          /\ Fresh(view', card, call.dcl) /\ call.dcl # c
          /\ view'.data[call.dcl] = Table(call.dir)
    <3> SUFFICES ASSUME call.cmd = "mkd"
                 PROVE  /\ Fresh(view', card, call.dcl) /\ call.dcl # c
                        /\ view'.data[call.dcl] = Table(call.dir)
      OBVIOUS
    <3>1. call.dcl # 0 /\ Fresh(view, card, call.dcl) /\ view.data[call.dcl] = Table(call.dir)
      BY <1>1, <1>4, <2>2 DEF KnowMade
    <3>2. Fresh(view', card, call.dcl) /\ call.dcl # c
      BY <3>1, TakeFresh
    <3> QED BY <1>3, <3>1, <3>2 DEF OnlyLink
  <2>5. KnowRaw' /\ KnowBlank'
    BY <1>1, <1>4, <2>1 DEF KnowRaw, KnowBlank
  <2>6. KnowSearch'
    BY <1>6, <2>1 DEF KnowSearch
  <2>7. KnowRoom'
    BY <2>1, <2>2, <2>3 DEF KnowRoom, Stretching
  <2>8. KnowLink'
    <3>1. ~Filling'
      BY <1>5 DEF Filling
    <3> QED BY <1>1, <1>3, <1>8, <2>1, <2>4, <3>1 DEF KnowLink
  <2>9. KnowMade'
    BY <1>1, <2>1, <2>4 DEF KnowMade
  <2>10. pc' \in Entering \cup Taking \cup {"mkdSync", "mkdDots"}
    BY <2>1 DEF Taking
  <2> QED BY <1>2, <1>5, <2>5, <2>6, <2>7, <2>8, <2>9, <2>10, EnterKnown DEF Held
<1> QED BY <1>7, <1>8

LEMMA ScanHeld == Typed /\ Held /\ Scan => Held'
BY ScanOnHeld, TakeFileHeld, TakeTableHeld

-----------------------------------------------------------------------------
(* create_chain(): the chain is linked to the cluster.                     *)

\* The two ways to lengthen a chain: of the open file, or of the directory.
LEMMA LinkToIs ==
  ASSUME Typed, Held, Link
  PROVE  /\ pc = "link" /\ LinkIs(view, view', call.prev, call.ncl) /\ Allocated
         /\ raw' = IF pc' = "stretch" THEN raw \cup {call.ncl} ELSE raw
         /\ call.prev \in Clusters /\ call.prev # call.ncl /\ view.fat[call.prev] = EOC
         /\ Fresh(view, card, call.ncl) /\ Bare(view, call.ncl)
         /\ Opened =>
              /\ Loose(view, card, call.sclust) /\ call.prev = call.last
              /\ call.last \in Chain(view, call.sclust) /\ call.sclust # call.ncl
              /\ call.sclust # 0 /\ view.data[call.prev].text # Tab
         /\ ~Opened =>
              /\ ~(call.cmd = "mkd" /\ call.dcl = 0)
              /\ call.prev \in Chain(view, call.dir) /\ AllUsed(view, call.prev)
<1>1. /\ pc = "link" /\ LinkIs(view, view', call.prev, call.ncl) /\ Allocated
      /\ raw' = IF pc' = "stretch" THEN raw \cup {call.ncl} ELSE raw
  BY DEF Link, At, SetLink, LinkIs
<1>2. /\ (Filling <=> Opened) /\ (Stretching <=> ~Opened) /\ Whole(view, {}, {})
      /\ call \in Locals /\ DirHead(view, call.dir) /\ Linked(view)
  BY ScanIs
<1>3. call.prev \in Clusters /\ call.prev # 0 /\ call.ncl \in Clusters
  BY <1>1, Zeros DEF Typed, StepTyped, Taking
<1>4. /\ Fresh(view, card, call.ncl) /\ KnowText /\ KnowRoom
      /\ Filling => call.ncl # call.sclust
  BY <1>1 DEF Held, Known, KnowLink
<1>5. Head(view, call.ncl) /\ ~Lead(view, call.ncl) /\ call.ncl \in Chain(view, call.ncl)
      /\ Bare(view, call.ncl)
  BY <1>2, <1>3, <1>4, ChainIs DEF Fresh, Loose
<1>6. CASE Opened
  <2>1. /\ call.prev = IF call.sclust = 0 THEN 0 ELSE call.last
        /\ view.fat[call.prev] = EOC
    BY <1>1, <1>2, <1>3, <1>4, <1>6 DEF KnowText, Taking
  <2>2. call.sclust # 0 /\ call.prev = call.last
    BY <1>3, <2>1
  <2>3. /\ Loose(view, card, call.sclust) /\ call.last \in Chain(view, call.sclust)
        /\ BlocksHold(view, call.sclust, call.size, call.text) /\ call.size > 0
        /\ BlockAt(view, call.sclust, call.size - 1) = call.last
    BY <1>1, <1>2, <1>4, <1>6, <2>2 DEF KnowText, Taking
  <2>4. call.prev # call.ncl
    <3>1. Head(view, call.sclust)
      BY <2>3 DEF Loose
    <3> QED BY <1>2, <1>4, <1>5, <1>6, <2>2, <2>3, <3>1, LeadsApart
  <2>5. view.data[call.prev].text # Tab
    <3>1. call.size - 1 \in 0 .. call.size - 1
      BY <1>2, <2>3, FatAssumption DEF Locals, Blocks
    <3>2. view.data[call.prev].text = call.text
      BY <2>2, <2>3, <3>1 DEF BlocksHold
    <3>3. call.text \in Texts
      BY <1>6 DEF Opened, Typed, StorTyped
    <3>4. Tab \notin Texts
      BY FatAssumption DEF Texts, Tab
    <3> QED BY <3>2, <3>3, <3>4
  <2> QED BY <1>1, <1>2, <1>3, <1>4, <1>5, <1>6, <2>1, <2>2, <2>3, <2>4, <2>5
<1>7. CASE ~Opened
  <2>1. /\ ~(call.cmd = "mkd" /\ call.dcl = 0) /\ call.prev \in Chain(view, call.dir)
        /\ view.fat[call.prev] = EOC /\ AllUsed(view, call.prev)
    BY <1>2, <1>3, <1>4, <1>7 DEF KnowRoom
  <2>2. call.prev # call.ncl
    <3>1. Head(view, call.dir) /\ Lead(view, call.dir)
      BY <1>2, LeadIsHead
    <3> QED BY <1>2, <1>5, <2>1, <3>1, LeadsApart
  <2> QED BY <1>1, <1>3, <1>4, <1>5, <1>7, <2>1, <2>2
<1> QED BY <1>6, <1>7

LEMMA LinkIsGrows ==
  ASSUME Typed, Held, Link
  PROVE  /\ OnlyLink(view, view', call.prev, call.ncl) /\ Grows(view, view', raw', {})
         /\ FreeApart'
         /\ \A h : Head(view, h) /\ h # call.ncl =>
              /\ Head(view', h)
              /\ Chain(view', h) = IF call.prev \in Chain(view, h)
                                   THEN Chain(view, h) \cup {call.ncl} ELSE Chain(view, h)
              /\ \A a \in Chain(view, h) : view.fat[a] \in Clusters => view'.fat[a] = view.fat[a]
<1> DEFINE b == call.prev
<1> DEFINE c == call.ncl
<1>1. /\ LinkIs(view, view', b, c) /\ b \in Clusters /\ b # c /\ view.fat[b] = EOC
      /\ Fresh(view, card, c) /\ Bare(view, c)
      /\ raw' = IF pc' = "stretch" THEN raw \cup {c} ELSE raw
  BY LinkToIs
<1>2. c \in Clusters /\ Whole(view, {}, {}) /\ VolumeTyped(view) /\ call \in Locals /\ card' = card
  BY ScanIs
<1>3. Head(view, c) /\ view.fat[c] = EOC /\ ~Lead(view, c)
  BY <1>1 DEF Fresh, Loose
<1>4. OnlyLink(view, view', b, c)
  BY <1>1, <1>2, LinkSetIs, LinkValues
<1>5. view.data[b].text = Tab => \A s \in Slots : EntryIn(view, b, s).name # "end"
  <2>1. CASE Opened
    BY <2>1, LinkToIs
  <2>2. CASE ~Opened
    <3>1. AllUsed(view, b)
      BY <2>2, LinkToIs
    <3> QED BY <3>1, FatAssumption DEF AllUsed, UsedIn, Used
  <2> QED BY <2>1, <2>2
<1>6. c \in raw' \/ \A h \in Clusters : Lead(view, h) => b \notin Chain(view, h)
  <2>1. CASE Opened
    <3>1. Loose(view, card, call.sclust) /\ b \in Chain(view, call.sclust)
      BY <2>1, LinkToIs
    <3>2. Outside(view, b)
      BY <1>2, <3>1, LooseIsOutside DEF Loose
    <3> QED BY <3>2 DEF Outside
  <2>2. CASE ~Opened
    <3>1. pc' = "stretch"
      BY <1>2, <2>2, LinkToIs, AllocatedIs
    <3> QED BY <1>1, <3>1
  <2> QED BY <2>1, <2>2
<1>7. /\ Grows(view, view', raw', {})
      /\ \A h : Head(view, h) /\ h # c =>
              /\ Head(view', h)
              /\ Chain(view', h) = IF b \in Chain(view, h)
                                   THEN Chain(view, h) \cup {c} ELSE Chain(view, h)
              /\ \A a \in Chain(view, h) : view.fat[a] \in Clusters => view'.fat[a] = view.fat[a]
  BY <1>1, <1>2, <1>3, <1>5, <1>6, LinkGrows
<1>8. FreeApart'
  <2>1. \A a \in Clusters : view'.fat[a] = 0 => view.fat[a] = 0
    BY <1>2, <1>4, Zeros DEF OnlyLink
  <2> QED BY <1>2, <2>1 DEF Held, FreeApart
<1> QED BY <1>4, <1>7, <1>8

\* Of linking, what remains to be shown.
LEMMA LinkRest ==
  ASSUME Typed, Held, Link
  PROVE  /\ KnowHere' /\ KnowOld' /\ KnowDirs' /\ KnowPromise'
         /\ Absent(view, call.dir, call.name) => Absent(view', call.dir, call.name)
         /\ Sure(view)' /\ Sure(card)'
         /\ pc' \in {"whole", "part", "stretch"} /\ ~Renaming'
<1>1. /\ pc = "link" /\ card' = card /\ kept' = kept /\ crossed' = crossed
      /\ call \in Locals /\ call.ncl \in Clusters /\ ~Renaming /\ raw = {}
  BY ScanIs, LinkToIs
<1>2. /\ SameWork /\ call'.clust = call.clust /\ pc' \in {"whole", "part", "stretch"}
  BY <1>1, AllocatedIs, LinkToIs
<1>3. ~Renaming' /\ Grows(view, view', raw', {})
  BY <1>2, LinkIsGrows DEF Renaming
<1>4. /\ pc \notin {"idle", "sync", "empty", "emptyNext", "seek", "remove"}
      /\ pc' \notin {"idle", "empty", "emptyNext", "seek", "remove"}
      /\ raw \subseteq raw'
  BY <1>1, <1>2
<1>5. Sure(view)' /\ Sure(card)'
  BY <1>1, <1>2, <1>3, <1>4, GrowsSure DEF SameWork
<1>6. /\ KnowHere' /\ KnowOld' /\ KnowDirs' /\ KnowPromise'
      /\ Absent(view, call.dir, call.name) => Absent(view', call.dir, call.name)
  BY <1>1, <1>2, <1>3, <1>4, GrowsKnown
<1> QED BY <1>2, <1>3, <1>5, <1>6

LEMMA LinkFileHeld == Typed /\ Held /\ Link /\ Opened => Held'
<1> SUFFICES ASSUME Typed, Held, Link, Opened PROVE Held'
  OBVIOUS
<1> DEFINE c == call.ncl
<1> DEFINE h == call.sclust
<1>1. /\ pc = "link" /\ raw = {} /\ c \in Clusters /\ Filling /\ open' = open
      /\ call \in Locals /\ Linked(view) /\ card' = card /\ kept' = kept
  BY ScanIs, LinkToIs
<1>2. /\ KnowHere' /\ KnowPromise' /\ Sure(view)' /\ Sure(card)' /\ FreeApart'
  BY LinkRest, LinkIsGrows
<1>3. /\ Loose(view, card, h) /\ call.prev = call.last /\ call.last \in Chain(view, h)
      /\ h # c /\ h # 0 /\ call.prev # c /\ call.prev \in Clusters
      /\ Fresh(view, card, c) /\ Bare(view, c)
  BY LinkToIs
<1>4. /\ SameWork /\ call'.clust = call.clust /\ call'.slot = call.slot
      /\ call'.size = call.size /\ call'.text = call.text /\ call'.ncl = c
      /\ call'.last = c /\ call'.sclust = h /\ pc' \in {"whole", "part"}
  BY <1>1, <1>3, AllocatedIs, LinkToIs
<1>5. OnlyLink(view, view', call.prev, c) /\ Linked(view')
  BY LinkIsGrows DEF OnlyLink
<1>6. Opened' /\ Filling'
  <2>1. Opened'
    BY <1>1, <1>4 DEF Opened, Here, SameWork
  <2> QED BY <1>4, <2>1 DEF Filling, Taking, Writing
<1>7. KnowRaw' /\ KnowLink'
  BY <1>1, <1>4, LinkToIs DEF KnowRaw, KnowLink
<1>8. KnowFile'
  <2>1. Found' = Found
    <3>1. /\ Found = EntryIn(view, call.clust, call.slot)
          /\ Found' = EntryIn(view', call'.clust, call'.slot)
      BY DEF Found, Ents, EntryIn
    <3> QED BY <1>4, <1>5, <3>1 DEF OnlyLink
  <2>2. KnowFile
    BY DEF Held, Known
  <2> QED BY <1>1, <1>4, <1>6, <2>1, <2>2 DEF KnowFile, SameWork
<1>9. /\ Head(view, h) /\ h \in Clusters /\ ~Lead(view, h)
      /\ \A a \in Chain(view, h) : Bare(view, a) /\ Outside(card, a)
  BY <1>3 DEF Loose, Head
<1>10. /\ Head(view', h) /\ Chain(view', h) = Chain(view, h) \cup {c}
       /\ \A a \in Chain(view, h) : view.fat[a] \in Clusters => view'.fat[a] = view.fat[a]
  BY <1>3, <1>9, LinkIsGrows
<1>11. Loose(view', card, h)
  <2>1. \A a \in Chain(view', h) : Bare(view', a) /\ Outside(card, a)
    <3>1. Outside(card, c)
      BY <1>1, <1>3, ChainIs DEF Fresh, Loose
    <3> QED BY <1>3, <1>5, <1>9, <1>10, <3>1 DEF OnlyLink
  <2> QED BY <1>5, <1>9, <1>10, <2>1 DEF Loose, OnlyLink
<1>12. c \notin Chain(view, h)
  <2>1. Head(view, c) /\ c \in Chain(view, c)
    BY <1>1, <1>3, ChainIs DEF Fresh, Loose
  <2> QED BY <1>3, <1>9, <2>1, LeadsApart, ScanIs
<1>13. \A i \in 0 .. MAX_BLOCKS : BlockAt(view, h, i) \in Clusters =>
             BlockAt(view', h, i) = BlockAt(view, h, i)
  BY <1>1, <1>5, <1>9, <1>10, BlockInChain
<1>14. /\ call.size <= Cardinality(Chain(view, h)) /\ call.size > 0
       /\ BlocksHold(view, h, call.size, call.text)
       /\ BlockAt(view, h, call.size - 1) = call.last
  BY <1>1, <1>3 DEF Held, Known, KnowText
<1>15. call.size \in Nat /\ call.size < MAX_BLOCKS /\ MAX_BLOCKS \in Nat
  <2>1. call.size \in Nat
    BY <1>1, FatAssumption DEF Locals, Blocks
  <2>2. open # NoPlace
    <3>1. call.clust # 0
      BY Zeros, ScanIs
    <3> QED BY <3>1 DEF Opened, Here, NoPlace
  <2>3. call.size < MAX_BLOCKS
    BY <1>1, <2>2 DEF Opened, Typed, StorTyped, Taking
  <2> QED BY <2>1, <2>3, FatAssumption
<1>16. BlocksHold(view', h, call.size, call.text)
  <2> SUFFICES ASSUME NEW i \in 0 .. call.size - 1
               PROVE  /\ BlockAt(view', h, i) \in Clusters
                      /\ view'.data[BlockAt(view', h, i)].text = call.text
    BY DEF BlocksHold
  <2>1. i \in 0 .. MAX_BLOCKS
    BY <1>15
  <2> QED BY <1>5, <1>13, <1>14, <2>1 DEF BlocksHold, OnlyLink
<1>17. BlockAt(view', h, call.size) = c
  <2>1. call.size \in 1 .. MAX_BLOCKS /\ call.size - 1 \in 0 .. MAX_BLOCKS
    BY <1>14, <1>15
  <2>2. BlockAt(view', h, call.size - 1) = call.last /\ call.last \in Clusters
    BY <1>3, <1>13, <1>14, <2>1
  <2>3. h \in Links
    BY <1>9, LinkValues
  <2>4. view'.fat[call.last] = c
    BY <1>3, <1>5 DEF OnlyLink
  <2> QED BY <1>5, <2>1, <2>2, <2>3, <2>4, BlockSteps
<1>18. call.size < Cardinality(Chain(view', h))
  <2>1. IsFiniteSet(Chain(view, h)) /\ Cardinality(Chain(view, h)) \in Nat
    BY <1>1, <1>9, ChainIs, ClustersCount, FS_Subset, FS_CardinalityType
  <2>2. Cardinality(Chain(view', h)) = Cardinality(Chain(view, h)) + 1
    BY <1>10, <1>12, <2>1, FS_AddElement
  <2> QED BY <1>14, <1>15, <2>1, <2>2
<1>19. view'.fat[c] = EOC /\ c \in Chain(view', h)
  BY <1>1, <1>3, <1>5, <1>10 DEF Fresh, OnlyLink
<1>20. KnowText'
  <2>1. call.size <= Cardinality(Chain(view', h))
    <3>1. IsFiniteSet(Chain(view', h)) /\ Cardinality(Chain(view', h)) \in Nat
      BY <1>5, <1>9, ChainIs, ClustersCount, FS_Subset, FS_CardinalityType
    <3> QED BY <1>15, <1>18, <3>1
  <2> QED BY <1>1, <1>3, <1>4, <1>11, <1>16, <1>17, <1>18, <1>19, <2>1 DEF KnowText, Taking
<1>21. pc' \in Taking \cup Writing
  BY <1>4 DEF Writing
<1> QED BY <1>2, <1>6, <1>7, <1>8, <1>20, <1>21, FillKnown DEF Held

LEMMA LinkTableHeld == Typed /\ Held /\ Link /\ ~Opened => Held'
<1> SUFFICES ASSUME Typed, Held, Link, ~Opened PROVE Held'
  OBVIOUS
<1> DEFINE c == call.ncl
<1>1. /\ pc = "link" /\ raw = {} /\ c \in Clusters /\ Stretching /\ ~Filling /\ open' = open
      /\ call \in Locals /\ Linked(view) /\ card' = card /\ kept' = kept
      /\ DirHead(view, call.dir) /\ Whole(view, {}, {}) /\ call.dir \in Clusters
  BY ScanIs, LinkToIs
<1>2. /\ KnowHere' /\ KnowOld' /\ KnowDirs' /\ KnowPromise'
      /\ Absent(view, call.dir, call.name) => Absent(view', call.dir, call.name)
      /\ Sure(view)' /\ Sure(card)' /\ FreeApart'
  BY LinkRest, LinkIsGrows
<1>3. /\ ~(call.cmd = "mkd" /\ call.dcl = 0) /\ call.prev \in Chain(view, call.dir)
      /\ call.prev # c /\ call.prev \in Clusters /\ Fresh(view, card, c) /\ Bare(view, c)
  BY LinkToIs
<1>4. /\ SameWork /\ call'.clust = call.clust /\ call'.slot = call.slot
      /\ call'.size = call.size /\ call'.ncl = c /\ call'.dcl = call.dcl
      /\ call'.sclust = call.sclust /\ pc' = "stretch"
  BY <1>1, <1>3, AllocatedIs, LinkToIs
<1>5. OnlyLink(view, view', call.prev, c) /\ Linked(view')
  BY LinkIsGrows DEF OnlyLink
<1>6. KnowSearch /\ KnowBlank /\ KnowMade /\ KnowLink
  BY DEF Held, Known
<1>7. ~Opened'
  BY <1>1, <1>4 DEF Opened, Here, SameWork
<1>8. KnowRaw'
  BY <1>1, <1>4, LinkToIs DEF KnowRaw
<1>9. KnowSearch'
  BY <1>1, <1>2, <1>4, <1>6 DEF KnowSearch, SameWork, Entering, Stretching, Taking
<1>10. KnowRoom'
  <2>1. Head(view, call.dir) /\ Lead(view, call.dir) /\ ~Lead(view, c)
    BY <1>1, <1>3, LeadIsHead DEF Fresh, Loose
  <2>2. Chain(view', call.dir) = Chain(view, call.dir) \cup {c} /\ c # call.dir
    BY <1>3, <2>1, LinkIsGrows
  <2>3. view'.fat[c] = EOC /\ Bare(view', c)
    BY <1>1, <1>3, <1>5 DEF Fresh, OnlyLink
  <2> QED BY <1>4, <2>2, <2>3 DEF KnowRoom, Stretching, Taking, SameWork
<1>11. KnowLink' /\ KnowBlank'
  BY <1>1, <1>4, <1>6 DEF KnowLink, KnowBlank, SameWork
<1>12. KnowMade'
  <2> SUFFICES ASSUME call.cmd = "mkd"
               PROVE  Fresh(view', card, call.dcl) /\ view'.data[call.dcl] = Table(call.dir)
    BY <1>1, <1>4 DEF KnowMade, SameWork
  <2>1. /\ call.dcl # 0 /\ Fresh(view, card, call.dcl) /\ call.dcl # c
        /\ view.data[call.dcl] = Table(call.dir)
    BY <1>1, <1>3, <1>6 DEF KnowMade, KnowLink
  <2>2. /\ Head(view, call.dcl) /\ ~Lead(view, call.dcl) /\ view.fat[call.dcl] = EOC
        /\ call.dcl \in Chain(view, call.dcl) /\ call.dcl \in Clusters
        /\ \A b \in Chain(view, call.dcl) : Bare(view, b) /\ Outside(card, b)
    BY <1>1, <2>1, ChainIs DEF Fresh, Loose, Head
  <2>3. call.prev \notin Chain(view, call.dcl)
    <3>1. Head(view, call.dir) /\ Lead(view, call.dir)
      BY <1>1, LeadIsHead
    <3> QED BY <1>1, <1>3, <2>2, <3>1, LeadsApart
  <2>4. Head(view', call.dcl) /\ Chain(view', call.dcl) = Chain(view, call.dcl)
    BY <2>1, <2>2, <2>3, LinkIsGrows
  <2>5. view'.fat[call.dcl] = EOC
    BY <1>5, <2>2, <2>3 DEF OnlyLink
  <2> QED BY <1>5, <2>1, <2>2, <2>4, <2>5 DEF Fresh, Loose, OnlyLink
<1>13. pc' \in Entering \cup Taking \cup {"mkdSync", "mkdDots"}
  BY <1>4 DEF Entering
<1> QED BY <1>2, <1>7, <1>8, <1>9, <1>10, <1>11, <1>12, <1>13, EnterKnown DEF Held

LEMMA LinkHeld == Typed /\ Held /\ Link => Held'
BY LinkFileHeld, LinkTableHeld

-----------------------------------------------------------------------------
(* Steps that write a sector: the new end of a table, the table of a new   *)
(* directory, and the text of a file.                                      *)

\* A sector is written that no live file has: links and entries stay.
LEMMA DataRest ==
  ASSUME NEW m, VolumeTyped(m), NEW n, NEW c, NEW x, OnlyData(m, n, c, x), NEW q, NEW X,
         Grows(m, n, q, X)
  PROVE  /\ \A b \in Clusters : Outside(m, b) => Outside(n, b)
         /\ \A k, h : Loose(m, k, h) => Loose(n, k, h)
         /\ \A k, h : Fresh(m, k, h) => Fresh(n, k, h)
<1>1. /\ \A b \in Clusters : Bare(n, b) <=> Bare(m, b)
      /\ \A h : Lead(n, h) <=> Lead(m, h)
  BY SameLeads DEF Grows
<1>2. /\ \A h : Chain(n, h) = Chain(m, h) /\ (Head(n, h) <=> Head(m, h))
      /\ Linked(m) /\ n.fat = m.fat
  BY DEF OnlyData
<1>3. \A k, h : Loose(m, k, h) => Loose(n, k, h)
  <2> SUFFICES ASSUME NEW k, NEW h, Loose(m, k, h) PROVE Loose(n, k, h)
    OBVIOUS
  <2>1. Chain(m, h) \subseteq Clusters
    BY <1>2, ChainIs DEF Loose, Head
  <2> QED BY <1>1, <1>2, <2>1 DEF Loose
<1> QED BY <1>1, <1>2, <1>3 DEF Outside, Fresh

\* The step has the new sector of a table.
LEMMA TableIs ==
  ASSUME NEW up \in Starts
  PROVE  /\ Table(up) \in Content /\ Table(up).text = Tab /\ Table(up).up = up
         /\ \A s \in Slots : ~Used(Table(up).ents[s]) /\ Table(up).ents[s].kind = "file"
<1>1. /\ Table(up) \in Content /\ \A s \in Slots : Table(up).ents[s].kind = "file"
  <2>1. Tab \in Texts \cup {Tab, Old}
    OBVIOUS
  <2> QED BY <2>1, TableTyped
<1>2. /\ Table(up).text = Tab /\ Table(up).up = up
      /\ \A s \in Slots : Table(up).ents[s] = Unused("end")
  BY DEF Table
<1>3. ~Used(Unused("end"))
  BY FatAssumption DEF Unused, Used
<1> QED BY <1>1, <1>2, <1>3

\* The step writes to the window and to nothing else.
LEMMA DatumIs ==
  ASSUME NEW t \in Texts
  PROVE  /\ Datum(t) \in Content /\ Datum(t).text = t /\ t # Tab
         /\ \A s \in Slots : ~Used(Datum(t).ents[s]) /\ Datum(t).ents[s].kind = "file"
<1>1. /\ Datum(t) \in Content /\ \A s \in Slots : Datum(t).ents[s].kind = "file"
  <2>1. 0 \in Starts
    BY DEF Starts
  <2> QED BY <2>1, TableTyped
<1>2. /\ Datum(t).text = t /\ \A s \in Slots : Datum(t).ents[s] = Unused("end")
  BY DEF Table, Datum
<1>3. ~Used(Unused("end"))
  BY FatAssumption DEF Unused, Used
<1>4. t # Tab
  BY FatAssumption DEF Texts, Tab
<1> QED BY <1>1, <1>2, <1>3, <1>4

LEMMA StretchHeld == Typed /\ Held /\ Stretch => Held'
<1> SUFFICES ASSUME Typed, Held, Stretch PROVE Held'
  OBVIOUS
<1> DEFINE c == call.ncl
<1>1. /\ pc = "stretch" /\ pc' = "stretched" /\ call' = call /\ DataIs(view, view', c, Table(0))
      /\ card' = card /\ open' = open /\ kept' = kept /\ crossed' = crossed /\ raw' = raw
  BY DEF Stretch, At, Goto, history, DataIs
<1>2. /\ ~crossed /\ DirHead(view, call.dir) /\ Linked(view) /\ ~Renaming /\ ~Renaming'
      /\ VolumeTyped(view)
  BY <1>1, InCall DEF Renaming
<1>3. /\ KnowRaw /\ KnowRoom /\ KnowSearch /\ KnowBlank /\ KnowMade
  BY DEF Held, Known
<1>4. /\ c \in Chain(view, call.dir) /\ c # call.dir /\ view.fat[c] = EOC /\ Bare(view, c)
      /\ c \in Clusters /\ raw = {c}
  BY <1>1, <1>3 DEF KnowRoom, KnowRaw, Typed, StepTyped
<1>5. Whole(view, {}, raw)
  BY <1>2, SurePlain DEF Held, Plain
<1>6. \A h : Head(view, h) /\ c \in Chain(view, h) => h = call.dir
  <2>1. Head(view, call.dir)
    BY <1>2, <1>5, LeadIsHead
  <2> QED BY <1>4, <1>5, <2>1, LeadsApart
<1>7. /\ Table(0) \in Content /\ Table(0).text = Tab
      /\ \A s \in Slots : ~Used(Table(0).ents[s]) /\ Table(0).ents[s].kind = "file"
  <2> DEFINE up == 0
  <2>1. up \in Starts
    BY DEF Starts
  <2> HIDE DEF up
  <2>2. /\ Table(up) \in Content /\ Table(up).text = Tab
        /\ \A s \in Slots : ~Used(Table(up).ents[s]) /\ Table(up).ents[s].kind = "file"
    BY <2>1, TableIs
  <2> QED BY <2>2 DEF up
<1>8. Fitting(view, c, Table(0))
  <2>1. \A h \in Clusters : Lead(view, h) /\ c \in Chain(view, h) => DirHead(view, h)
    BY <1>2, <1>5, <1>6, LeadIsHead
  <2>2. ~DirHead(view, c)
    <3>1. c \in Chain(view, c)
      BY <1>2, <1>4, ChainIs
    <3> QED BY <1>4, <1>5, <1>6, <3>1, LeadIsHead
  <2>3. view.fat[c] \notin Clusters
    BY <1>4, LinkValues
  <2> QED BY <1>4, <1>7, <2>1, <2>2, <2>3 DEF Fitting
<1>9. OnlyData(view, view', c, Table(0)) /\ Grows(view, view', raw', {})
  <2>1. \A s \in Slots : Table(0).ents[s].kind = "dir" => Table(0).ents[s].start \in Clusters
    BY <1>7
  <2> QED BY <1>1, <1>4, <1>5, <1>7, <1>8, <2>1, DataGrows
<1>10. /\ pc \notin {"idle", "sync", "empty", "emptyNext", "seek", "remove"}
       /\ pc' \notin {"idle", "empty", "emptyNext", "seek", "remove"}
       /\ raw \subseteq raw'
  BY <1>1
<1>11. Sure(view)' /\ Sure(card)'
  BY <1>1, <1>2, <1>9, <1>10, GrowsSure
<1>12. /\ KnowHere' /\ KnowOld' /\ KnowDirs' /\ KnowPromise'
       /\ Absent(view, call.dir, call.name) => Absent(view', call.dir, call.name)
  BY <1>1, <1>2, <1>9, <1>10, GrowsKnown DEF SameWork
<1>13. FreeApart'
  BY <1>1, <1>9 DEF Held, FreeApart, OnlyData
<1>14. KnowRaw' /\ KnowLink' /\ KnowBlank'
  BY <1>1, <1>3 DEF KnowRaw, KnowLink, KnowBlank, Filling, Taking, Writing
<1>15. KnowSearch'
  BY <1>1, <1>3, <1>12 DEF KnowSearch, Entering
<1>16. KnowRoom'
  <2>1. Bare(view', c)
    BY <1>4, <1>9, SameLeads DEF Grows
  <2>2. /\ c \in Chain(view', call.dir) /\ view'.fat[c] = EOC /\ view'.data[c].text = Tab
    BY <1>4, <1>7, <1>9 DEF OnlyData
  <2> QED BY <1>1, <1>4, <2>1, <2>2 DEF KnowRoom, Stretching, Taking
<1>17. KnowMade'
  <2> SUFFICES ASSUME call.cmd = "mkd", call.dcl # 0
               PROVE  Fresh(view', card, call.dcl) /\ view'.data[call.dcl] = Table(call.dir)
    BY <1>1 DEF KnowMade
  <2>1. Fresh(view, card, call.dcl) /\ view.data[call.dcl] = Table(call.dir)
    BY <1>1, <1>3 DEF KnowMade
  <2>2. Head(view, call.dcl) /\ ~Lead(view, call.dcl) /\ call.dcl \in Clusters
    BY <2>1 DEF Fresh, Loose, Head
  <2>3. call.dcl # c
    <3>1. c \in Chain(view, c)
      BY <1>2, <1>4, ChainIs
    <3> QED BY <1>4, <1>6, <2>2, <3>1
  <2>4. Fresh(view', card, call.dcl)
    BY <1>2, <1>9, <2>1, DataRest
  <2> QED BY <1>9, <2>1, <2>2, <2>3, <2>4 DEF OnlyData
<1>18. ~Opened'
  <2>1. call.cmd = "stor" => open = NoPlace
    BY <1>1 DEF Typed, StorTyped, Entering
  <2>2. call.clust # 0
    BY <1>1, InCall, Zeros
  <2> QED BY <1>1, <2>1, <2>2 DEF Opened, Here, NoPlace
<1>19. pc' \in Entering \cup Taking \cup {"mkdSync", "mkdDots"}
  BY <1>1 DEF Entering
<1> QED BY <1>11, <1>12, <1>13, <1>14, <1>15, <1>16, <1>17, <1>18, <1>19, EnterKnown DEF Held

LEMMA MkdTableHeld == Typed /\ Held /\ MkdTable => Held'
<1> SUFFICES ASSUME Typed, Held, MkdTable PROVE Held'
  OBVIOUS
<1> DEFINE c == call.dcl
<1> DEFINE x == Table(call.dir)
<1>1. /\ pc = "mkdSync" /\ pc' = "mkdDots" /\ call' = call /\ DataIs(view, view', c, x)
      /\ card' = card /\ open' = open /\ kept' = kept /\ crossed' = crossed /\ raw' = raw
  BY DEF MkdTable, At, Goto, history, DataIs
<1>2. /\ Linked(view) /\ ~Renaming /\ ~Renaming' /\ VolumeTyped(view) /\ call.dir \in Starts
  BY <1>1, InCall, LinkValues DEF Renaming, Starts
<1>3. Whole(view, {}, {}) /\ raw = {}
  BY <1>1, <1>2, InCallWhole
<1>4. /\ KnowSearch /\ KnowMade
  BY DEF Held, Known
<1>5. call.cmd = "mkd" /\ c # 0
  BY <1>1 DEF Typed, CallTyped, StorTyped, OtherTyped, Locals, Searching, Entering, Taking,
     Writing, Removing
<1>6. Fresh(view, card, c)
  BY <1>1, <1>4, <1>5 DEF KnowMade
<1>7. /\ c \in Clusters /\ view.fat[c] = EOC /\ Head(view, c) /\ ~Lead(view, c)
      /\ \A b \in Chain(view, c) : Bare(view, b)
  BY <1>6 DEF Fresh, Loose, Head
<1>8. c \in Chain(view, c) /\ Outside(view, c) /\ Bare(view, c)
  BY <1>2, <1>3, <1>7, ChainIs, LooseIsOutside
<1>9. /\ x \in Content /\ \A s \in Slots : ~Used(x.ents[s]) /\ x.ents[s].kind = "file"
  BY <1>2, TableIs
<1> HIDE DEF x
<1>10. Fitting(view, c, x)
  <2>1. ~DirHead(view, c)
    BY <1>3, <1>7, LeadIsHead
  <2>2. view.fat[c] \notin Clusters
    BY <1>7, LinkValues
  <2> QED BY <1>8, <1>9, <2>1, <2>2 DEF Fitting, Outside
<1>11. OnlyData(view, view', c, x) /\ Grows(view, view', raw', {})
  <2>1. \A s \in Slots : x.ents[s].kind = "dir" => x.ents[s].start \in Clusters
    BY <1>9
  <2> QED BY <1>1, <1>3, <1>7, <1>9, <1>10, <2>1, DataGrows
<1>12. /\ pc \notin {"idle", "sync", "empty", "emptyNext", "seek", "remove"}
       /\ pc' \notin {"idle", "empty", "emptyNext", "seek", "remove"}
       /\ raw \subseteq raw'
  BY <1>1
<1>13. Sure(view)' /\ Sure(card)'
  BY <1>1, <1>2, <1>11, <1>12, GrowsSure
<1>14. /\ KnowHere' /\ KnowOld' /\ KnowDirs' /\ KnowPromise'
       /\ Absent(view, call.dir, call.name) => Absent(view', call.dir, call.name)
  BY <1>1, <1>2, <1>11, <1>12, GrowsKnown DEF SameWork
<1>15. FreeApart'
  BY <1>1, <1>11 DEF Held, FreeApart, OnlyData
<1>16. KnowRaw' /\ KnowLink' /\ KnowBlank' /\ KnowRoom'
  BY <1>1, <1>3, <1>5 DEF KnowRaw, KnowLink, KnowBlank, KnowRoom, Stretching, Taking
<1>17. KnowSearch'
  BY <1>1, <1>4, <1>14 DEF KnowSearch
<1>18. KnowMade'
  <2>1. Fresh(view', card, c)
    BY <1>2, <1>6, <1>11, DataRest
  <2>2. view'.data[c] = x
    BY <1>11 DEF OnlyData
  <2> QED BY <1>1, <1>5, <2>1, <2>2 DEF KnowMade, x
<1>19. ~Opened'
  BY <1>1, <1>5 DEF Opened
<1>20. pc' \in Entering \cup Taking \cup {"mkdSync", "mkdDots"}
  BY <1>1
<1> QED BY <1>13, <1>14, <1>15, <1>16, <1>17, <1>18, <1>19, <1>20, EnterKnown DEF Held

\* The text of a STOR fits where nothing leads to.
LEMMA DatumGrows ==
  ASSUME NEW m, NEW X, NEW r, Whole(m, X, r), NEW c \in Clusters, Outside(m, c),
         NEW t \in Texts, NEW n, DataIs(m, n, c, Datum(t))
  PROVE  OnlyData(m, n, c, Datum(t)) /\ \A q : Grows(m, n, q, X)
<1> DEFINE x == Datum(t)
<1>1. /\ x \in Content /\ x.text # Tab
      /\ \A s \in Slots : ~Used(x.ents[s]) /\ x.ents[s].kind = "file"
  BY DatumIs
<1>2. \A s \in Slots : x.ents[s].kind = "dir" => x.ents[s].start \in Clusters
  BY <1>1
<1>3. DataIs(m, n, c, x)
  OBVIOUS
<1> HIDE DEF x
<1>4. Fitting(m, c, x)
  <2>1. ~DirHead(m, c)
    <3>1. c \in Chain(m, c)
      BY LeadIsHead, ChainIs
    <3> QED BY <3>1, LeadIsHead DEF Outside
  <2> QED BY <1>1, <2>1 DEF Fitting, Outside
<1>5. OnlyData(m, n, c, x) /\ \A q : Grows(m, n, q, X)
  BY <1>1, <1>2, <1>3, <1>4, DataGrows
<1> QED BY <1>5 DEF x

\* The step puts the text of STOR in the last cluster of its file.
LEMMA StoredIs ==
  ASSUME Typed, Held, StorPart \/ StorWhole
  PROVE  /\ pc \in {"whole", "part"} /\ pc' = "data" /\ open' = open /\ kept' = kept
         /\ crossed' = crossed /\ raw' = raw /\ raw = {} /\ call \in Locals /\ call.text \in Texts
         /\ Opened /\ Filling /\ call.ncl \in Clusters /\ ~Renaming
         /\ call' = [call EXCEPT !.ncl = 0, !.size = @ + 1]
         /\ Linked(view) /\ VolumeTyped(view) /\ VolumeTyped(card)
         /\ Whole(view, {}, {}) /\ Whole(card, {}, {}) /\ FilesHold(card, kept)
         /\ Loose(view, card, call.sclust) /\ call.ncl = call.last /\ call.sclust # 0
         /\ call.last \in Chain(view, call.sclust)
         /\ Outside(view, call.ncl) /\ Outside(card, call.ncl)
         /\ OnlyData(view, view', call.ncl, Datum(call.text)) /\ Grows(view, view', raw', {})
         /\ ~crossed /\ call.promise = NoPromise
<1>1. /\ pc \in {"whole", "part"} /\ pc' = "data" /\ open' = open /\ kept' = kept
      /\ crossed' = crossed /\ raw' = raw
      /\ call' = [call EXCEPT !.ncl = 0, !.size = @ + 1]
      /\ DataIs(view, view', call.ncl, Datum(call.text))
  BY DEF StorPart, StorWhole, At, Stored, history, DataIs
<1>2. Opened /\ Filling /\ call.cmd = "stor"
  BY <1>1, WritingIs DEF Writing
<1>3. /\ call.ncl \in Clusters /\ ~Renaming /\ call.text \in Texts
  BY <1>1, <1>2 DEF Renaming, Typed, StepTyped, StorTyped
<1>4. /\ raw = {} /\ call \in Locals /\ Linked(view) /\ VolumeTyped(view) /\ VolumeTyped(card)
      /\ Whole(view, {}, {}) /\ Whole(card, {}, {}) /\ FilesHold(card, kept)
      /\ ~crossed /\ call.promise = NoPromise
  <2>1. pc \notin {"idle", "stretch", "stretched", "free"}
    BY <1>1
  <2> QED BY <1>3, <2>1, InCall, InCallWhole
<1>5. /\ Loose(view, card, call.sclust) /\ call.ncl = call.last /\ call.sclust # 0
      /\ call.last \in Chain(view, call.sclust)
  BY <1>1, <1>2 DEF Held, Known, KnowText
<1>6. Outside(view, call.ncl) /\ Outside(card, call.ncl)
  BY <1>4, <1>5, LooseIsOutside DEF Loose
<1>7. OnlyData(view, view', call.ncl, Datum(call.text)) /\ Grows(view, view', raw', {})
  BY <1>1, <1>3, <1>4, <1>6, DatumGrows
<1> QED BY <1>1, <1>2, <1>3, <1>4, <1>5, <1>6, <1>7

\* The card gets the sector at once, or later.
LEMMA StoredCard ==
  ASSUME Typed, Held, StorPart \/ StorWhole
  PROVE  /\ Sure(view)' /\ Sure(card)'
         /\ \A b \in Clusters : Outside(card, b) => Outside(card', b)
<1>1. /\ pc' = "data" /\ kept' = kept /\ crossed' = crossed /\ raw' = raw /\ raw = {}
      /\ ~Renaming /\ call.ncl \in Clusters /\ call.text \in Texts /\ VolumeTyped(card)
      /\ Whole(view, {}, {}) /\ Whole(card, {}, {}) /\ FilesHold(card, kept)
      /\ Outside(card, call.ncl) /\ Grows(view, view', raw', {}) /\ ~crossed
      /\ call.promise = NoPromise /\ pc \in {"whole", "part"}
  BY StoredIs
<1>2. /\ ~Renaming' /\ call'.promise = NoPromise
  <2>1. call \in Locals /\ call' = [call EXCEPT !.ncl = 0, !.size = @ + 1]
    BY StoredIs
  <2> QED BY <1>1, <2>1 DEF Renaming, Locals
<1>3. FilesHold(view, kept)
  BY <1>1, SurePlain DEF Held, Plain
<1>4. Whole(view', {}, {}) /\ FilesHold(view', kept)
  BY <1>1, <1>3, GrowsWhole, GrowsFiles
<1>5. CASE card' = card
  <2>1. Plain(view', crossed', raw', kept') /\ Plain(card', crossed', raw', kept')
    BY <1>1, <1>4, <1>5 DEF Plain
  <2> QED BY <1>2, <1>5, <2>1, PlainSure
<1>6. CASE DataIs(card, card', call.ncl, Datum(call.text))
  <2>1. /\ OnlyData(card, card', call.ncl, Datum(call.text))
        /\ Grows(card, card', {}, {})
    BY <1>1, <1>6, DatumGrows
  <2>2. Whole(card', {}, {}) /\ FilesHold(card', kept)
    BY <1>1, <2>1, GrowsWhole, GrowsFiles
  <2>3. Plain(view', crossed', raw', kept') /\ Plain(card', crossed', raw', kept')
    BY <1>1, <1>4, <2>2 DEF Plain
  <2> QED BY <1>1, <1>2, <2>1, <2>3, PlainSure, DataRest
<1> QED BY <1>5, <1>6 DEF StorPart, StorWhole, DataIs

LEMMA StoredHeld == Typed /\ Held /\ (StorPart \/ StorWhole) => Held'
<1> SUFFICES ASSUME Typed, Held, StorPart \/ StorWhole PROVE Held'
  OBVIOUS
<1> DEFINE h == call.sclust
<1> DEFINE c == call.ncl
<1>1. /\ pc \in {"whole", "part"} /\ pc' = "data" /\ open' = open /\ kept' = kept
      /\ crossed' = crossed /\ raw' = raw /\ raw = {} /\ call \in Locals /\ call.text \in Texts
      /\ Opened /\ Filling /\ c \in Clusters
      /\ call' = [call EXCEPT !.ncl = 0, !.size = @ + 1]
      /\ Loose(view, card, h) /\ c = call.last /\ h # 0 /\ c \in Chain(view, h)
      /\ OnlyData(view, view', c, Datum(call.text)) /\ Grows(view, view', raw', {})
      /\ VolumeTyped(view) /\ Linked(view) /\ Whole(view, {}, {}) /\ ~Renaming
      /\ ~crossed /\ call.promise = NoPromise
  BY StoredIs
<1>2. call.size \in Nat /\ MAX_BLOCKS \in Nat
  BY <1>1, FatAssumption DEF Locals, Blocks
<1>3. /\ SameWork /\ call'.clust = call.clust /\ call'.slot = call.slot /\ call'.sclust = h
      /\ call'.last = call.last /\ call'.text = call.text /\ call'.size = call.size + 1
  BY <1>1 DEF SameWork, Locals
<1>4. Sure(view)' /\ Sure(card)' /\ \A b \in Clusters : Outside(card, b) => Outside(card', b)
  BY StoredCard
<1>5. Opened' /\ Filling' /\ pc' \in Taking \cup Writing
  <2>1. Opened'
    BY <1>1, <1>3 DEF Opened, Here, SameWork
  <2> QED BY <1>1, <2>1 DEF Filling, Writing
<1>6. FreeApart'
  BY <1>1, <1>4 DEF Held, FreeApart, OnlyData
<1>7. /\ ~crossed /\ DirHead(view, call.dir) /\ call.clust \in Chain(view, call.dir)
      /\ call.clust \in Clusters /\ call.name \in Names
  BY <1>1, InCall
<1>8. KnowHere' /\ KnowRaw' /\ KnowLink' /\ KnowPromise'
  <2>1. DirHead(view', call.dir)
    BY <1>1, <1>7, SameLeads DEF Grows
  <2>2. call.clust \in Chain(view', call.dir)
    BY <1>1, <1>7 DEF OnlyData
  <2> QED BY <1>1, <1>3, <1>7, <2>1, <2>2 DEF KnowHere, KnowRaw, KnowLink, KnowPromise, SameWork
<1>9. KnowFile'
  <2>1. call.cmd = "stor"
    BY <1>1 DEF Opened
  <2>2. /\ Found.name = call.name /\ Found.start = 0 /\ Found.size = 0
        /\ kept[call.dir][call.name] = NoPromise
    BY <1>1, <2>1 DEF Held, Known, KnowFile
  <2>3. Found' = Found
    <3>1. /\ Found = EntryIn(view, call.clust, call.slot)
          /\ Found' = EntryIn(view', call'.clust, call'.slot)
      BY DEF Found, Ents, EntryIn
    <3>2. call.slot \in Slots
      <4>1. open = Here /\ open # NoPlace
        BY <1>1, <1>7, Zeros DEF Opened, Here, NoPlace
      <4> QED BY <4>1 DEF Typed, CallTyped, Here
    <3>3. UsedIn(view, call.clust, call.slot)
      BY <1>7, <2>2, <3>1 DEF UsedIn, Used
    <3> QED BY <1>1, <1>3, <1>7, <3>1, <3>2, <3>3 DEF Grows, SameEntries
  <2> QED BY <1>1, <1>3, <2>2, <2>3 DEF KnowFile, SameWork
<1>10. /\ BlocksHold(view, h, call.size, call.text) /\ BlockAt(view, h, call.size) = c
       /\ call.size < Cardinality(Chain(view, h)) /\ call.size < MAX_BLOCKS
  <2>1. KnowText
    BY DEF Held, Known
  <2>2. open # NoPlace
    BY <1>1, <1>7, Zeros DEF Opened, Here, NoPlace
  <2>3. call.size < MAX_BLOCKS
    BY <1>1, <2>2 DEF Opened, Typed, StorTyped
  <2> QED BY <1>1, <2>1, <2>3 DEF KnowText
<1>11. \A i \in 0 .. MAX_BLOCKS : BlockAt(view, h, i) \in Clusters =>
             BlockAt(view', h, i) = BlockAt(view, h, i)
  <2>1. h \in Clusters
    BY <1>1 DEF Loose, Head
  <2> QED BY <1>1, <2>1, BlockInChain DEF OnlyData
<1>12. BlocksHold(view', h, call.size + 1, call.text) /\ BlockAt(view', h, call.size) = c
  <2>1. BlockAt(view', h, call.size) = c
    <3>1. call.size \in 0 .. MAX_BLOCKS
      BY <1>2, <1>10
    <3> QED BY <1>1, <1>10, <1>11, <3>1
  <2>2. view'.data[c].text = call.text
    BY <1>1, DatumIs DEF OnlyData
  <2>3. ASSUME NEW i \in 0 .. call.size
        PROVE  /\ BlockAt(view', h, i) \in Clusters
               /\ view'.data[BlockAt(view', h, i)].text = call.text
    <3>1. CASE i = call.size
      BY <1>1, <2>1, <2>2, <3>1
    <3>2. CASE i # call.size
      <4>1. i \in 0 .. call.size - 1 /\ i \in 0 .. MAX_BLOCKS
        BY <1>2, <1>10, <3>2
      <4>2. /\ BlockAt(view, h, i) \in Clusters
            /\ view.data[BlockAt(view, h, i)].text = call.text
        BY <1>10, <4>1 DEF BlocksHold
      <4>3. BlockAt(view', h, i) = BlockAt(view, h, i)
        BY <1>11, <4>1, <4>2
      <4> QED BY <1>1, <2>2, <4>2, <4>3 DEF OnlyData
    <3> QED BY <3>1, <3>2
  <2>4. (call.size + 1) - 1 = call.size
    BY <1>2
  <2> QED BY <2>1, <2>3, <2>4 DEF BlocksHold
<1>13. Loose(view', card', h) /\ Chain(view', h) = Chain(view, h)
  <2>1. Loose(view', card, h)
    BY <1>1, DataRest
  <2>2. Chain(view', h) = Chain(view, h) /\ Chain(view, h) \subseteq Clusters
    BY <1>1, ChainIs DEF OnlyData, Loose, Head
  <2> QED BY <1>4, <2>1, <2>2 DEF Loose
<1>14. KnowText'
  <2>1. /\ call.size + 1 <= Cardinality(Chain(view', h)) /\ call.size + 1 > 0
        /\ (call.size + 1) - 1 = call.size
    <3>1. IsFiniteSet(Chain(view, h)) /\ Cardinality(Chain(view, h)) \in Nat
      <4>1. h \in Clusters
        BY <1>1 DEF Loose, Head
      <4> QED BY <1>1, <4>1, ChainIs, ClustersCount, FS_Subset, FS_CardinalityType
    <3> QED BY <1>2, <1>10, <1>13, <3>1
  <2> QED BY <1>1, <1>3, <1>12, <1>13, <2>1 DEF KnowText, Taking
<1> QED BY <1>4, <1>5, <1>6, <1>8, <1>9, <1>14, FillKnown DEF Held

-----------------------------------------------------------------------------
(* RNTO between its two names.                                             *)

\* A rename between its two names: what is known of both.
LEMMA RenamingIs ==
  ASSUME Typed, Held, Renaming, pc # "sync"
  PROVE  /\ call \in Locals /\ ~crossed /\ raw = {} /\ call.cmd = "rnto"
         /\ call.oclust \in Clusters /\ call.oslot \in Slots /\ call.entry.name \in Names
         /\ call.clust \in Clusters /\ call.slot \in Slots /\ call.name \in Names
         /\ call.dir \in Clusters
         /\ call.odir # 0 /\ UsedIn(view, call.oclust, call.oslot)
         /\ EntryIn(view, call.oclust, call.oslot) = call.entry
         /\ UsedIn(view, call.clust, call.slot)
         /\ EntryIn(view, call.clust, call.slot) = [call.entry EXCEPT !.name = call.name]
         /\ EntryIn(view, call.clust, call.slot).start = call.entry.start
         /\ EntryIn(view, call.clust, call.slot).kind = call.entry.kind
         /\ EntryIn(view, call.clust, call.slot).name = call.name
         /\ DirHead(view, call.odir) /\ call.oclust \in Chain(view, call.odir)
         /\ DirHead(view, call.dir) /\ call.clust \in Chain(view, call.dir)
         /\ call.clust # call.oclust \/ call.slot # call.oslot
         /\ Twice(view) = IF call.entry.start # 0 THEN {call.entry.start} ELSE {}
         /\ Whole(view, Twice(view), {}) /\ FilesHold(view, kept)
         /\ VolumeTyped(view) /\ Linked(view) /\ VolumeTyped(card) /\ Linked(card)
<1>1. /\ pc \in {"dotdot", "seek", "remove"} /\ call.cmd = "rnto"
  BY DEF Renaming
<1>2. /\ call \in Locals /\ ~crossed /\ call.clust \in Clusters /\ call.name \in Names
      /\ raw = {} /\ DirHead(view, call.dir) /\ call.clust \in Chain(view, call.dir)
      /\ VolumeTyped(view) /\ Linked(view) /\ VolumeTyped(card) /\ Linked(card)
      /\ call.dir \in Clusters
  BY <1>1, InCall
<1>3. /\ call.odir # 0 /\ call.oclust \in Clusters /\ call.oslot \in Slots
      /\ call.entry.name \in Names
  BY <1>1 DEF Typed, StepTyped, Removing
<1>4. KnowOld /\ KnowNames
  BY DEF Held, Known
<1>5. /\ EntryIn(view, call.oclust, call.oslot) = call.entry
      /\ DirHead(view, call.odir) /\ call.oclust \in Chain(view, call.odir)
  BY <1>1, <1>3, <1>4 DEF KnowOld
<1>6. /\ call.clust # call.oclust \/ call.slot # call.oslot
      /\ call.slot \in Slots
      /\ EntryIn(view, call.clust, call.slot) = [call.entry EXCEPT !.name = call.name]
  BY <1>4 DEF KnowNames
<1>7. call.entry \in Entry
  BY <1>2 DEF Locals
<1>8. /\ EntryIn(view, call.clust, call.slot).start = call.entry.start
      /\ EntryIn(view, call.clust, call.slot).kind = call.entry.kind
      /\ EntryIn(view, call.clust, call.slot).name = call.name
  BY <1>6, <1>7 DEF Entry
<1>9. UsedIn(view, call.oclust, call.oslot) /\ UsedIn(view, call.clust, call.slot)
  BY <1>2, <1>3, <1>5, <1>8 DEF UsedIn, Used
<1>10. Twice(view) = IF call.entry.start # 0 THEN {call.entry.start} ELSE {}
  BY <1>2, <1>5, <1>8, <1>9 DEF Twice, Renamed
<1>11. Whole(view, Twice(view), {}) /\ FilesHold(view, kept)
  BY <1>2 DEF Held, Sure
<1> QED BY <1>1, <1>2, <1>3, <1>5, <1>6, <1>8, <1>9, <1>10, <1>11

\* Of the steps of a rename, what remains to be shown.
LEMMA RenameKnown ==
  ASSUME Renaming', KnowHere', KnowRaw', KnowOld', KnowNames'
  PROVE  Known'
<1>1. call'.cmd = "rnto" /\ pc' \in {"dotdot", "seek", "remove", "sync"}
  BY DEF Renaming
<1>2. KnowSearch' /\ KnowRoom' /\ KnowLink' /\ KnowText' /\ KnowBlank' /\ KnowFile'
  BY <1>1 DEF KnowSearch, KnowRoom, KnowLink, KnowText, KnowBlank, KnowFile, Stretching,
     Filling, Opened, Taking, Entering
<1>3. KnowEmpty' /\ KnowDirs' /\ KnowPromise' /\ KnowFree' /\ KnowMade'
  BY <1>1 DEF KnowEmpty, KnowDirs, KnowPromise, KnowFree, KnowMade
<1> QED BY <1>2, <1>3 DEF Known

\* What the card has of a rename is what it had.
LEMMA CardStays ==
  ASSUME Held, Renaming, Renaming', SameWork, call'.clust = call.clust, call'.slot = call.slot,
         card' = card, raw' = raw, kept' = kept, crossed' = crossed
  PROVE  Sure(card)'
<1>1. Renamed(card)' <=> Renamed(card)
  BY DEF Renamed, SameWork
<1>2. Twice(card)' = Twice(card)
  BY <1>1 DEF Twice, SameWork
<1>3. Promised(card) => Promised(card)'
  BY DEF Promised, SameWork
<1>4. InBoth(card) => InBoth(card)'
  BY <1>1 DEF InBoth, SameWork
<1> QED BY <1>2, <1>3, <1>4 DEF Held, Sure

LEMMA DotdotHeld == Typed /\ Held /\ Dotdot => Held'
<1> SUFFICES ASSUME Typed, Held, Dotdot PROVE Held'
  OBVIOUS
<1> DEFINE c == call.entry.start
<1>1. /\ pc = "dotdot" /\ pc' = "seek" /\ call' = call /\ UpIs(view, view', c, call.dir)
      /\ card' = card /\ kept' = kept /\ crossed' = crossed /\ raw' = raw
  BY DEF Dotdot, At, Goto, history, UpIs
<1>2. call.cmd = "rnto"
  BY <1>1 DEF Typed, CallTyped, StorTyped, OtherTyped, Locals, Searching, Entering, Taking,
     Writing
<1>3. Renaming /\ Renaming'
  BY <1>1, <1>2 DEF Renaming
<1>4. KnowNames /\ KnowOld /\ KnowHere /\ KnowRaw
  BY DEF Held, Known
<1>5. call.entry.kind = "dir" /\ c \in Clusters /\ c # 0
  BY <1>1, <1>3, <1>4, Zeros DEF KnowNames, Typed, StepTyped
<1>6. call.promise = NoPromise
  BY <1>3, <1>4, <1>5 DEF KnowNames, FileIs
<1>7. /\ Twice(view) = {c} /\ Whole(view, {c}, {}) /\ FilesHold(view, kept) /\ raw = {} /\ ~crossed
      /\ UsedIn(view, call.oclust, call.oslot) /\ UsedIn(view, call.clust, call.slot)
      /\ EntryIn(view, call.oclust, call.oslot) = call.entry
      /\ EntryIn(view, call.clust, call.slot).start = c
      /\ DirHead(view, call.dir) /\ DirHead(view, call.odir)
      /\ call.dir \in Clusters /\ call.clust \in Clusters /\ call.oclust \in Clusters
      /\ VolumeTyped(view)
  BY <1>1, <1>3, <1>5, RenamingIs
<1>8. /\ Grows(view, view', {}, {c})
      /\ view'.fat = view.fat /\ view'.data[c].up = call.dir
      /\ \A h : Chain(view', h) = Chain(view, h)
      /\ \A b \in Clusters : view'.data[b].ents = view.data[b].ents /\ view'.data[b].text = view.data[b].text
  <2>1. c \in {c} /\ call.dir \in Starts
    BY <1>7 DEF Starts
  <2> QED BY <1>1, <1>5, <1>7, <2>1, UpGrows
<1>9. Whole(view', {c}, {}) /\ FilesHold(view', kept) /\ Dirs(view) \subseteq Dirs(view')
  BY <1>7, <1>8, GrowsWhole, GrowsFiles, GrowsDirs
<1>10. \A b \in Clusters : \A s : EntryIn(view', b, s) = EntryIn(view, b, s)
                                  /\ (UsedIn(view', b, s) <=> UsedIn(view, b, s))
  BY <1>8 DEF EntryIn, UsedIn
<1>11. \A h : DirHead(view', h) <=> DirHead(view, h)
  BY <1>8, SameLeads DEF Grows
<1>12. KnowHere' /\ KnowRaw' /\ KnowOld'
  BY <1>1, <1>2, <1>4, <1>7, <1>8, <1>10, <1>11 DEF KnowHere, KnowRaw, KnowOld
<1>13. KnowNames'
  <2>1. /\ call.clust # call.oclust \/ call.slot # call.oslot
        /\ call.slot \in Slots
        /\ EntryIn(view, call.clust, call.slot) = [call.entry EXCEPT !.name = call.name]
        /\ kept[call.odir][call.entry.name] = NoPromise
    BY <1>3, <1>4 DEF KnowNames
  <2>2. \A b \in Clusters, s \in Slots :
          UsedIn(view', b, s) /\ EntryIn(view', b, s).start = c =>
            \/ b = call.clust /\ s = call.slot
            \/ b = call.oclust /\ s = call.oslot
    BY <1>3, <1>4, <1>5, <1>10 DEF KnowNames
  <2> QED BY <1>1, <1>6, <1>7, <1>8, <1>10, <2>1, <2>2 DEF KnowNames
<1>14. Sure(view)'
  <2>1. Renamed(view)'
    BY <1>1, <1>3, <1>5, <1>7, <1>10 DEF Renamed
  <2>2. Twice(view)' = {c}
    BY <1>1, <1>7, <2>1 DEF Twice
  <2>3. Promised(view)'
    BY <1>1, <1>6 DEF Promised
  <2>4. InBoth(view)'
    <3>1. InBoth(view) /\ Renamed(view)
      BY <1>3, <1>5, <1>7 DEF Held, Sure, Renamed
    <3>2. /\ call.odir \in Dirs(view) /\ call.dir \in Dirs(view)
          /\ call.oclust \in Chain(view, call.odir) /\ call.clust \in Chain(view, call.dir)
      BY <3>1 DEF InBoth
    <3> QED BY <1>1, <1>8, <1>9, <3>2 DEF InBoth
  <2> QED BY <1>1, <1>7, <1>9, <2>2, <2>3, <2>4 DEF Sure
<1>15. Sure(card)'
  BY <1>1, <1>3, CardStays DEF SameWork
<1>16. FreeApart'
  BY <1>1, <1>8 DEF Held, FreeApart
<1> QED BY <1>3, <1>12, <1>13, <1>14, <1>15, <1>16, RenameKnown DEF Held

-----------------------------------------------------------------------------
(* Steps that change an entry.                                             *)

\* What led to a directory leads to it still.
LEMMA HeadsStay ==
  ASSUME NEW m, VolumeTyped(m), NEW n, NEW c \in Clusters, NEW s \in Slots, NEW e,
         OnlyEntry(m, n, c, s, e), NEW h, DirHead(m, h),
         \/ ~UsedIn(m, c, s) \/ EntryIn(m, c, s).kind # "dir" \/ EntryIn(m, c, s).start # h
         \/ \E b \in Clusters, t \in Slots :
              /\ b # c \/ t # s
              /\ UsedIn(m, b, t) /\ EntryIn(m, b, t).kind = "dir" /\ EntryIn(m, b, t).start = h
  PROVE  DirHead(n, h)
<1>1. CASE h = Root
  BY <1>1 DEF DirHead
<1>2. CASE h # Root
  <2>1. PICK b \in Clusters, t \in Slots :
          /\ b # c \/ t # s
          /\ UsedIn(m, b, t) /\ EntryIn(m, b, t).kind = "dir" /\ EntryIn(m, b, t).start = h
    BY <1>2 DEF DirHead
  <2>2. EntryIn(n, b, t) = EntryIn(m, b, t)
    BY <2>1 DEF OnlyEntry
  <2> QED BY <2>1, <2>2 DEF DirHead, UsedIn
<1> QED BY <1>1, <1>2

\* A step that changes one entry, of a call that is no rename.
LEMMA EntrySure ==
  ASSUME Typed, Held, pc \notin {"idle", "stretch", "stretched", "free"}, ~Renaming, ~Renaming',
         call'.promise = call.promise, card' = card, crossed' = crossed, raw' = raw,
         NEW c \in Clusters, NEW s \in Slots, NEW e, OnlyEntry(view, view', c, s, e),
         NEW d, DirHead(view, d), c \in Chain(view, d), StaysDir(view, c, s),
         \A h \in Clusters, n \in Names : kept'[h][n] # NoPromise =>
           kept'[h][n] = kept[h][n] /\ ~(h = d /\ EntryIn(view, c, s).name = n),
         e.name # "end", e.start \in Starts, e.kind \in {"file", "dir"},
         e.kind = "dir" => e.start \in Clusters,
         Used(e) => EntryFits(view, c, s, e, d) /\ StartFits(view, c, s, e, d, {})
  PROVE  Sure(view)' /\ Sure(card)' /\ FreeApart'
<1>1. /\ Whole(view, {}, {}) /\ Whole(card, {}, {}) /\ raw = {} /\ ~crossed
      /\ FilesHold(view, kept) /\ FilesHold(card, kept) /\ call.promise = NoPromise
  <2>1. pc # "idle"
    OBVIOUS
  <2> QED BY <2>1, InCall, InCallWhole
<1>2. Whole(view', {}, {})
  <2>1. Settled(view, c, s, {}, {})
    BY DEF Settled
  <2> QED BY <1>1, <2>1, EntryWhole
<1>3. FilesHold(view', kept')
  BY <1>1, <1>2, EntryFiles
<1>4. FilesHold(card', kept')
  <2> SUFFICES ASSUME NEW h \in Clusters, NEW n \in Names, kept'[h][n] # NoPromise
               PROVE  DirHead(card, h) /\ Intact(card, h, n, kept'[h][n])
    BY DEF FilesHold
  <2> QED BY <1>1 DEF FilesHold
<1>5. Plain(view', crossed', raw', kept') /\ Plain(card', crossed', raw', kept')
  BY <1>1, <1>2, <1>3, <1>4 DEF Plain
<1>6. FreeApart'
  BY DEF Held, FreeApart, OnlyEntry
<1> QED BY <1>1, <1>5, <1>6, PlainSure

\* The entry that a search has found.
LEMMA FoundIsUsed ==
  ASSUME Typed, Held, pc = "found"
  PROVE  /\ call \in Locals /\ call.clust \in Clusters /\ call.slot \in Slots
         /\ call.name \in Names /\ call.dir \in Clusters
         /\ Found = EntryIn(view, call.clust, call.slot) /\ Found \in Entry
         /\ Found.name = call.name /\ UsedIn(view, call.clust, call.slot)
         /\ DirHead(view, call.dir) /\ call.clust \in Chain(view, call.dir)
         /\ VolumeTyped(view) /\ Linked(view) /\ Whole(view, {}, {}) /\ raw = {} /\ ~crossed
         /\ \A b \in Chain(view, call.dir), t \in Slots :
              b # call.clust \/ t # call.slot => EntryIn(view, b, t).name # call.name
<1>1. /\ call \in Locals /\ call.clust \in Clusters /\ call.slot \in Slots
      /\ call.name \in Names /\ call.dir \in Clusters /\ Found.name = call.name
  BY InCall DEF Typed, StepTyped, EntryTyped
<1>2. Found = EntryIn(view, call.clust, call.slot)
  BY DEF Found, EntryIn, Ents
<1>3. /\ DirHead(view, call.dir) /\ call.clust \in Chain(view, call.dir)
      /\ VolumeTyped(view) /\ Linked(view) /\ ~crossed
  BY InCall
<1>4. UsedIn(view, call.clust, call.slot) /\ Found \in Entry
  BY <1>1, <1>2, <1>3, UsedIsTyped
<1>5. Whole(view, {}, {}) /\ raw = {}
  <2>1. ~Renaming
    BY DEF Renaming
  <2> QED BY <2>1, InCallWhole
<1>6. \A b \in Chain(view, call.dir), t \in Slots :
              b # call.clust \/ t # call.slot => EntryIn(view, b, t).name # call.name
  BY <1>1, <1>2, <1>3, <1>4, <1>5 DEF Whole, NamesHold
<1> QED BY <1>1, <1>2, <1>3, <1>4, <1>5, <1>6

\* STOR of a file that exists cuts it off from its chain first.
LEMMA EmptiedIs ==
  ASSUME NEW f \in Entry
  PROVE  /\ [f EXCEPT !.start = 0, !.size = 0] \in Entry
         /\ [f EXCEPT !.start = 0, !.size = 0].name = f.name
         /\ [f EXCEPT !.start = 0, !.size = 0].kind = f.kind
         /\ [f EXCEPT !.start = 0, !.size = 0].start = 0
         /\ [f EXCEPT !.start = 0, !.size = 0].size = 0
<1>1. 0 \in Starts /\ 0 \in Blocks
  BY FatAssumption DEF Starts, Blocks
<1> QED BY <1>1 DEF Entry

LEMMA StorFoundHeld == Typed /\ FoundInWindow /\ Held /\ StorFound => Held'
<1> SUFFICES ASSUME Typed, FoundInWindow, Held, StorFound PROVE Held'
  OBVIOUS
<1> DEFINE c == call.clust
<1> DEFINE s == call.slot
<1> DEFINE d == call.dir
<1> DEFINE e == [Found EXCEPT !.start = 0, !.size = 0]
<1>1. pc = "found" /\ call.cmd = "stor" /\ ~Renaming
  BY DEF StorFound, At, Renaming
<1>2. CASE Refused
  <2>1. Return /\ SameVolume
    BY <1>2 DEF Refused, Local, diskVars, history, SameVolume
  <2> QED BY <1>1, <2>1, ReturnHeld
<1>3. CASE ~Refused
  <2>1. /\ Found.kind # "dir" /\ EntryIs(view, view', c, s, e) /\ wflag' = TRUE /\ win' = win
        /\ kept' = [kept EXCEPT ![d][call.name] = NoPromise]
        /\ card' = card /\ crossed' = crossed /\ raw' = raw
        /\ \/ Found.start = 0 /\ pc' = "data" /\ open' = Here /\ call' = call
           \/ /\ Found.start # 0 /\ pc' = "free" /\ open' = open
              /\ call' = [call EXCEPT !.clst = Found.start, !.entry = Found]
    BY <1>3 DEF StorFound, SetEntry, EntryIs, Forget, OnlyKept
  <2>2. /\ call \in Locals /\ c \in Clusters /\ s \in Slots
        /\ call.name \in Names /\ d \in Clusters
        /\ Found = EntryIn(view, c, s) /\ Found \in Entry
        /\ Found.name = call.name /\ UsedIn(view, c, s)
        /\ DirHead(view, d) /\ c \in Chain(view, d)
        /\ VolumeTyped(view) /\ Linked(view) /\ Whole(view, {}, {}) /\ raw = {} /\ ~crossed
        /\ \A b \in Chain(view, d), t \in Slots :
              b # c \/ t # s => EntryIn(view, b, t).name # call.name
    BY <1>1, FoundIsUsed
  <2>3. /\ e \in Entry /\ e.name = call.name /\ e.kind = "file" /\ e.start = 0 /\ e.size = 0
    <3>1. Found.kind = "file"
      BY <2>1, <2>2 DEF Entry
    <3> QED BY <2>2, <3>1, EmptiedIs
  <2>4. OnlyEntry(view, view', c, s, e)
    BY <2>1, <2>2, <2>3, EntrySetIs
  <2>5. /\ EntryHolds(view, Found) /\ Found.kind = "file"
    BY <2>1, <2>2 DEF Whole, EntriesHold, Entry
  <2>6. EntryFits(view, c, s, e, d) /\ StartFits(view, c, s, e, d, {})
    <3>1. Chain(view, e.start) = {} /\ Cardinality({}) = 0
      BY <2>2, <2>3, ChainNone, Zeros, FS_EmptySet
    <3>2. EntryHolds(view, e)
      BY <2>3, <3>1 DEF EntryHolds
    <3> QED BY <2>2, <2>3, <3>2, Zeros DEF EntryFits, StartFits
  <2>7. /\ call'.promise = call.promise /\ call'.cmd = "stor" /\ call'.dir = d /\ call'.clust = c
        /\ call'.slot = s /\ call'.name = call.name /\ call'.sclust = call.sclust
        /\ call'.size = call.size /\ (pc' = "free" => call'.clst = Found.start)
    BY <1>1, <2>1, <2>2 DEF Locals
  <2>8. ~Renaming'
    BY <2>7 DEF Renaming
  <2> HIDE DEF e
  <2>9. Sure(view)' /\ Sure(card)' /\ FreeApart'
    <3>1. StaysDir(view, c, s)
      BY <2>1, <2>2 DEF StaysDir
    <3>2. \A h \in Clusters, n \in Names : kept'[h][n] # NoPromise =>
            kept'[h][n] = kept[h][n] /\ ~(h = d /\ EntryIn(view, c, s).name = n)
      <4>1. kept \in [Clusters -> [Names -> Promise \cup {NoPromise}]]
        BY DEF Typed, HistoryTyped
      <4> QED BY <2>1, <2>2, <4>1
    <3>3. e.name # "end" /\ e.start \in Starts /\ e.kind \in {"file", "dir"} /\ e.kind # "dir"
      BY <2>2, <2>3, FatAssumption DEF Starts
    <3>4. pc \notin {"idle", "stretch", "stretched", "free"}
      BY <1>1
    <3> QED BY <1>1, <2>1, <2>2, <2>4, <2>6, <2>7, <2>8, <3>1, <3>2, <3>3, <3>4, EntrySure
  <2>10. KnowPromise /\ KnowBlank
    BY DEF Held, Known
  <2>11. KnowHere' /\ KnowRaw' /\ KnowPromise'
    <3>1. DirHead(view', d)
      BY <2>1, <2>2, <2>4, HeadsStay
    <3>2. c \in Chain(view', d)
      BY <2>2, <2>4 DEF OnlyEntry
    <3> QED BY <1>1, <2>1, <2>2, <2>7, <2>10, <3>1, <3>2 DEF KnowHere, KnowRaw, KnowPromise, Renaming
  <2>12. /\ call.sclust = 0 /\ call.size = 0
    <3>1. ~Filling
      BY <1>1 DEF Filling, Taking, Writing
    <3> QED BY <1>1, <2>10, <3>1 DEF KnowBlank
  <2>13. KnowFile'
    <3>1. Found' = e
      <4>1. Found' = EntryIn(view', call'.clust, call'.slot)
        BY DEF Found, Ents, EntryIn
      <4> QED BY <2>4, <2>7, <4>1 DEF OnlyEntry
    <3>2. kept'[d][call.name] = NoPromise
      <4>1. kept \in [Clusters -> [Names -> Promise \cup {NoPromise}]]
        BY DEF Typed, HistoryTyped
      <4> QED BY <2>1, <2>2, <4>1
    <3>3. pc' # "sync"
      BY <2>1
    <3> QED BY <2>3, <2>7, <3>1, <3>2, <3>3 DEF KnowFile
  <2>14. CASE Found.start = 0
    <3>1. pc' = "data" /\ open' = Here /\ call' = call
      BY <2>1, <2>14
    <3>2. Opened' /\ pc' \in Taking \cup Writing
      BY <1>1, <3>1 DEF Opened, Here, Writing
    <3>3. KnowText' /\ KnowLink'
      BY <2>12, <3>1 DEF KnowText, KnowLink, Taking
    <3> QED BY <2>9, <2>11, <2>13, <3>2, <3>3, FillKnown DEF Held
  <2>15. CASE Found.start # 0
    <3> DEFINE h == Found.start
    <3>1. pc' = "free" /\ call'.clst = h /\ wflag' /\ win' \in Clusters
      BY <1>1, <2>1, <2>2, <2>7, <2>15 DEF FoundInWindow
    <3>2. /\ Head(view, h) /\ h # Root /\ \A b \in Chain(view, h) : Bare(view, b)
      BY <2>5, <2>15 DEF EntryHolds
    <3>3. Head(view', h) /\ Chain(view', h) = Chain(view, h) /\ h \in Clusters
      BY <2>4, <3>2 DEF OnlyEntry, Head
    <3>4. ~Lead(view', h)
      <4> SUFFICES ASSUME NEW b \in Clusters, NEW t \in Slots, UsedIn(view', b, t),
                          EntryIn(view', b, t).start = h
                   PROVE  FALSE
        BY <3>2 DEF Lead
      <4>1. b # c \/ t # s
        BY <2>3, <2>4, <2>15 DEF OnlyEntry
      <4>2. EntryIn(view, b, t) = EntryIn(view', b, t)
        BY <4>1, <2>4 DEF OnlyEntry
      <4>3. UsedIn(view, b, t)
        BY <4>2 DEF UsedIn
      <4>4. StartsHold(view, {})
        BY <2>2 DEF Whole
      <4> QED BY <2>2, <2>15, <4>1, <4>2, <4>3, <4>4 DEF StartsHold
    <3>5. AllBare(view', h)
      <4> SUFFICES ASSUME NEW b \in Chain(view, h), NEW t \in Slots PROVE ~UsedIn(view', b, t)
        BY <3>3 DEF AllBare, Bare
      <4>1. Bare(view, b) /\ b \in Clusters
        BY <2>2, <3>2, <3>3, ChainIs
      <4>2. b # c
        BY <2>2, <4>1 DEF Bare
      <4>3. EntryIn(view', b, t) = EntryIn(view, b, t)
        BY <2>4, <4>1, <4>2 DEF OnlyEntry
      <4> QED BY <4>1, <4>3 DEF Bare, UsedIn
    <3>6. KnowFree'
      BY <3>1, <3>3, <3>4, <3>5 DEF KnowFree
    <3>7. KnowBlank'
      BY <2>7, <2>12 DEF KnowBlank
    <3>8. pc' \in {"free", "reopen", "sync"} /\ call'.cmd # "rnto"
          /\ (pc' = "reopen" => call'.cmd = "stor")
      BY <2>7, <3>1
    <3> QED BY <2>9, <2>11, <2>13, <3>6, <3>7, <3>8, RestKnown DEF Held
  <2> QED BY <2>14, <2>15
<1> QED BY <1>2, <1>3

NewFile(name) == [name |-> name, kind |-> "file", start |-> 0, size |-> 0]
NewDir(name, dcl) == [NewFile(name) EXCEPT !.kind = "dir", !.start = dcl]

\* There is room for the name, and it is in no other entry.
LEMMA RegisterIs ==
  ASSUME Typed, Held, Register
  PROVE  /\ pc = "register" /\ card' = card /\ wflag' = TRUE /\ win' = win
         /\ call \in Locals /\ call.clust \in Clusters /\ call.slot \in Slots
         /\ call.name \in Names /\ call.dir \in Clusters /\ ~Renaming
         /\ ~UsedIn(view, call.clust, call.slot) /\ Absent(view, call.dir, call.name)
         /\ DirHead(view, call.dir) /\ call.clust \in Chain(view, call.dir)
         /\ VolumeTyped(view) /\ Linked(view) /\ Whole(view, {}, {}) /\ Whole(card, {}, {})
         /\ FilesHold(view, kept) /\ FilesHold(card, kept)
         /\ raw = {} /\ ~crossed /\ call.promise = NoPromise
         /\ call.cmd \in {"stor", "mkd", "rnto"}
         /\ StaysDir(view, call.clust, call.slot)
<1>1. pc = "register" /\ card' = card /\ wflag' = TRUE /\ win' = win
  BY DEF Register, At
<1>2. /\ call \in Locals /\ call.clust \in Clusters /\ call.slot \in Slots
      /\ call.name \in Names /\ call.dir \in Clusters /\ ~Renaming
      /\ DirHead(view, call.dir) /\ call.clust \in Chain(view, call.dir)
      /\ VolumeTyped(view) /\ Linked(view) /\ ~crossed
  BY <1>1, InCall DEF Typed, StepTyped, Renaming
<1>3. /\ Whole(view, {}, {}) /\ Whole(card, {}, {}) /\ raw = {} /\ call.promise = NoPromise
      /\ FilesHold(view, kept) /\ FilesHold(card, kept)
  BY <1>1, <1>2, InCallWhole
<1>4. ~UsedIn(view, call.clust, call.slot) /\ Absent(view, call.dir, call.name)
  BY <1>1 DEF Held, Known, KnowRoom, KnowSearch, Entering
<1>5. call.cmd \in {"stor", "mkd", "rnto"}
  BY <1>1 DEF Typed, CallTyped, OtherTyped, Locals, Searching
<1>6. StaysDir(view, call.clust, call.slot)
  BY <1>4 DEF StaysDir
<1> QED BY <1>1, <1>2, <1>3, <1>4, <1>5, <1>6

\* What was kept stays kept, for the entry had no name.
LEMMA RegisterKeeps ==
  ASSUME Typed, Held, Register
  PROVE  \A h \in Clusters, n \in Names : kept[h][n] # NoPromise =>
           ~(h = call.dir /\ EntryIn(view, call.clust, call.slot).name = n)
BY RegisterIs DEF UsedIn, Used

LEMMA RegisterFileHeld == Typed /\ Held /\ Register /\ call.cmd = "stor" => Held'
<1> SUFFICES ASSUME Typed, Held, Register, call.cmd = "stor" PROVE Held'
  OBVIOUS
<1> DEFINE c == call.clust
<1> DEFINE s == call.slot
<1> DEFINE d == call.dir
<1> DEFINE e == NewFile(call.name)
<1>1. /\ pc = "register" /\ card' = card /\ call \in Locals /\ c \in Clusters /\ s \in Slots
      /\ call.name \in Names /\ d \in Clusters /\ ~Renaming
      /\ ~UsedIn(view, c, s) /\ Absent(view, d, call.name)
      /\ DirHead(view, d) /\ c \in Chain(view, d)
      /\ VolumeTyped(view) /\ Linked(view) /\ Whole(view, {}, {})
      /\ FilesHold(view, kept) /\ raw = {} /\ ~crossed /\ StaysDir(view, c, s)
  BY RegisterIs
<1>2. /\ EntryIs(view, view', c, s, e) /\ open' = Here /\ pc' = "data" /\ call' = call
      /\ kept' = kept /\ crossed' = crossed /\ raw' = raw
  BY DEF Register, SetEntry, EntryIs, Goto, history, NewFile
<1>3. /\ e \in Entry /\ e.name = call.name /\ e.kind = "file" /\ e.start = 0 /\ e.size = 0
  BY <1>1, FatAssumption DEF Entry, Starts, Blocks, NewFile
<1> HIDE DEF e
<1>4. OnlyEntry(view, view', c, s, e)
  BY <1>1, <1>2, <1>3, EntrySetIs
<1>5. EntryFits(view, c, s, e, d) /\ StartFits(view, c, s, e, d, {})
  <2>1. Chain(view, e.start) = {} /\ Cardinality({}) = 0
    BY <1>1, <1>3, ChainNone, Zeros, FS_EmptySet
  <2>2. EntryHolds(view, e)
    BY <1>3, <2>1 DEF EntryHolds
  <2> QED BY <1>1, <1>3, <2>2, Zeros DEF EntryFits, StartFits, Absent, NotIn
<1>6. ~Renaming'
  BY <1>2 DEF Renaming
<1>7. Sure(view)' /\ Sure(card)' /\ FreeApart'
  <2>1. e.name # "end" /\ e.start \in Starts /\ e.kind \in {"file", "dir"} /\ e.kind # "dir"
    BY <1>1, <1>3, FatAssumption DEF Starts
  <2>2. pc \notin {"idle", "stretch", "stretched", "free"}
    BY <1>1
  <2>3. \A h \in Clusters, n \in Names : kept'[h][n] # NoPromise =>
            kept'[h][n] = kept[h][n] /\ ~(h = d /\ EntryIn(view, c, s).name = n)
    BY <1>2, RegisterKeeps
  <2> QED BY <1>1, <1>2, <1>4, <1>5, <1>6, <2>1, <2>2, <2>3, EntrySure
<1>8. KnowPromise /\ KnowBlank
  BY DEF Held, Known
<1>9. KnowHere' /\ KnowRaw' /\ KnowPromise'
  <2>1. DirHead(view', d)
    BY <1>1, <1>4, HeadsStay
  <2>2. c \in Chain(view', d)
    BY <1>1, <1>4 DEF OnlyEntry
  <2> QED BY <1>1, <1>2, <1>6, <1>8, <2>1, <2>2 DEF KnowHere, KnowRaw, KnowPromise
<1>10. /\ call.sclust = 0 /\ call.size = 0
  <2>1. ~Filling
    BY <1>1 DEF Filling, Taking, Writing
  <2> QED BY <1>1, <1>8, <2>1 DEF KnowBlank
<1>11. KnowFile'
  <2>1. Found' = e
    <3>1. Found' = EntryIn(view', call'.clust, call'.slot)
      BY DEF Found, Ents, EntryIn
    <3> QED BY <1>2, <1>4, <3>1 DEF OnlyEntry
  <2>2. kept[d][call.name] = NoPromise
    <3> SUFFICES ASSUME kept[d][call.name] # NoPromise PROVE FALSE
      OBVIOUS
    <3>1. Intact(view, d, call.name, kept[d][call.name])
      BY <1>1 DEF FilesHold
    <3>2. \E b \in Chain(view, d), t \in Slots : EntryIn(view, b, t).name = call.name
      BY <1>1, <3>1, IntactIs
    <3> QED BY <1>1, <3>2 DEF Absent, NotIn
  <2> QED BY <1>2, <1>3, <2>1, <2>2 DEF KnowFile
<1>12. Opened' /\ pc' \in Taking \cup Writing
  BY <1>2 DEF Opened, Here, Writing
<1>13. KnowText' /\ KnowLink'
  BY <1>2, <1>10 DEF KnowText, KnowLink, Taking
<1> QED BY <1>7, <1>9, <1>11, <1>12, <1>13, FillKnown DEF Held

LEMMA RegisterDirHeld == Typed /\ Held /\ Register /\ call.cmd = "mkd" => Held'
<1> SUFFICES ASSUME Typed, Held, Register, call.cmd = "mkd" PROVE Held'
  OBVIOUS
<1> DEFINE c == call.clust
<1> DEFINE s == call.slot
<1> DEFINE d == call.dir
<1> DEFINE h == call.dcl
<1> DEFINE e == NewDir(call.name, h)
<1>1. /\ pc = "register" /\ card' = card /\ call \in Locals /\ c \in Clusters /\ s \in Slots
      /\ call.name \in Names /\ d \in Clusters /\ ~Renaming
      /\ ~UsedIn(view, c, s) /\ Absent(view, d, call.name)
      /\ DirHead(view, d) /\ c \in Chain(view, d)
      /\ VolumeTyped(view) /\ Linked(view) /\ Whole(view, {}, {})
      /\ FilesHold(view, kept) /\ raw = {} /\ ~crossed /\ StaysDir(view, c, s)
  BY RegisterIs
<1>2. /\ EntryIs(view, view', c, s, e) /\ pc' = "sync" /\ call' = call
      /\ kept' = kept /\ crossed' = crossed /\ raw' = raw
  <2>1. e = [[name |-> call.name, kind |-> "file", start |-> 0, size |-> 0]
               EXCEPT !.kind = "dir", !.start = h]
    BY DEF NewDir, NewFile
  <2> HIDE DEF e
  <2> QED BY <2>1 DEF Register, SetEntry, EntryIs, Goto, history
<1>3. h # 0 /\ Fresh(view, card, h) /\ view.data[h] = Table(d)
  BY <1>1 DEF Typed, OtherTyped, Entering, Held, Known, KnowMade
<1>4. /\ h \in Clusters /\ Head(view, h) /\ ~Lead(view, h) /\ view.fat[h] = EOC
      /\ \A b \in Chain(view, h) : Bare(view, b)
  BY <1>3 DEF Fresh, Loose, Head
<1>5. Chain(view, h) = {h}
  BY <1>1, <1>4, ChainUnrolls, ChainNone, LinkValues
<1>6. /\ view.data[h].text = Tab /\ view.data[h].up = d
  <2>1. d \in Starts
    BY <1>1 DEF Starts
  <2> QED BY <1>3, <2>1, TableIs
<1>7. /\ e \in Entry /\ e.name = call.name /\ e.kind = "dir" /\ e.start = h /\ e.size = 0
  <2>1. 0 \in Starts /\ 0 \in Blocks /\ h \in Starts
    BY <1>4, FatAssumption DEF Starts, Blocks
  <2>2. NewFile(call.name) \in Entry
    BY <1>1, <2>1 DEF Entry, NewFile
  <2>3. e \in Entry
    BY <2>1, <2>2 DEF Entry, NewDir
  <2>4. /\ e.name = call.name /\ e.kind = "dir" /\ e.start = h /\ e.size = 0
    BY DEF NewDir, NewFile
  <2> QED BY <2>3, <2>4
<1> HIDE DEF e
<1>8. OnlyEntry(view, view', c, s, e)
  BY <1>1, <1>2, <1>4, <1>7, EntrySetIs
<1>9. EntryFits(view, c, s, e, d) /\ StartFits(view, c, s, e, d, {})
  <2>1. Cardinality({h}) = 1
    BY FS_Singleton
  <2>2. h # Root
    BY <1>4 DEF Lead
  <2>3. EntryHolds(view, e)
    BY <1>4, <1>5, <1>7, <2>1, <2>2 DEF EntryHolds
  <2>4. EntryFits(view, c, s, e, d)
    BY <1>1, <1>4, <1>5, <1>6, <1>7, <2>3 DEF EntryFits, Absent, NotIn
  <2>5. StartFits(view, c, s, e, d, {})
    BY <1>4, <1>6, <1>7 DEF StartFits, Lead
  <2> QED BY <2>4, <2>5
<1>10. ~Renaming'
  BY <1>2 DEF Renaming
<1>11. Sure(view)' /\ Sure(card)' /\ FreeApart'
  <2>1. e.name # "end" /\ e.start \in Starts /\ e.kind \in {"file", "dir"} /\ e.start \in Clusters
    BY <1>1, <1>4, <1>7, FatAssumption DEF Starts
  <2>2. pc \notin {"idle", "stretch", "stretched", "free"}
    BY <1>1
  <2>3. \A g \in Clusters, n \in Names : kept'[g][n] # NoPromise =>
            kept'[g][n] = kept[g][n] /\ ~(g = d /\ EntryIn(view, c, s).name = n)
    BY <1>2, RegisterKeeps
  <2> QED BY <1>1, <1>2, <1>8, <1>9, <1>10, <2>1, <2>2, <2>3, EntrySure
<1>12. KnowHere' /\ KnowRaw' /\ KnowPromise'
  <2>1. DirHead(view', d)
    BY <1>1, <1>8, HeadsStay
  <2>2. c \in Chain(view', d)
    BY <1>1, <1>8 DEF OnlyEntry
  <2>3. KnowPromise
    BY DEF Held, Known
  <2> QED BY <1>1, <1>2, <1>10, <2>1, <2>2, <2>3 DEF KnowHere, KnowRaw, KnowPromise
<1>13. KnowBlank' /\ KnowFile' /\ KnowFree'
  BY <1>2 DEF KnowBlank, KnowFile, KnowFree
<1> QED BY <1>2, <1>11, <1>12, <1>13, RestKnown DEF Held

-----------------------------------------------------------------------------
(* RNTO enters the new name.                                               *)

\* The entry of the new name is the old one, with another name.
LEMMA RenamedEntryIs ==
  ASSUME NEW f \in Entry, NEW n \in Names
  PROVE  /\ [f EXCEPT !.name = n] \in Entry
         /\ [f EXCEPT !.name = n].name = n
         /\ [f EXCEPT !.name = n].kind = f.kind
         /\ [f EXCEPT !.name = n].start = f.start
         /\ [f EXCEPT !.name = n].size = f.size
BY DEF Entry

\* The two places of a rename, before the new name is entered.
LEMMA NewNameIs ==
  ASSUME Typed, Held, Register, call.cmd = "rnto"
  PROVE  /\ EntryIs(view, view', call.clust, call.slot, [call.entry EXCEPT !.name = call.name])
         /\ OnlyEntry(view, view', call.clust, call.slot, [call.entry EXCEPT !.name = call.name])
         /\ kept' = [kept EXCEPT ![call.odir][call.entry.name] = NoPromise]
         /\ crossed' = crossed /\ raw' = raw
         /\ pc' = IF call.entry.kind = "dir" /\ call.odir # call.dir THEN "dotdot" ELSE "seek"
         /\ call' = [call EXCEPT !.promise = kept[call.odir][call.entry.name]]
         /\ call.entry \in Entry /\ call.entry.name \in Names
         /\ EntryIn(view, call.oclust, call.oslot) = call.entry
         /\ UsedIn(view, call.oclust, call.oslot)
         /\ call.oclust \in Clusters /\ call.oslot \in Slots /\ call.odir # 0
         /\ DirHead(view, call.odir) /\ call.oclust \in Chain(view, call.odir)
         /\ call.odir \in Clusters
         /\ call.clust # call.oclust \/ call.slot # call.oslot
         /\ call.entry.kind = "dir" => call.entry.start \in Clusters
         /\ call.dir \in Dirs(view) /\ call.odir \in Dirs(view)
<1>1. /\ pc = "register" /\ call \in Locals /\ call.clust \in Clusters /\ call.slot \in Slots
      /\ call.name \in Names /\ ~UsedIn(view, call.clust, call.slot)
      /\ VolumeTyped(view) /\ Whole(view, {}, {}) /\ ~Renaming
  BY RegisterIs
<1>2. /\ EntryIs(view, view', call.clust, call.slot, [call.entry EXCEPT !.name = call.name])
      /\ kept' = [kept EXCEPT ![call.odir][call.entry.name] = NoPromise]
      /\ crossed' = crossed /\ raw' = raw
      /\ pc' = IF call.entry.kind = "dir" /\ call.odir # call.dir THEN "dotdot" ELSE "seek"
      /\ call' = [call EXCEPT !.promise = kept[call.odir][call.entry.name]]
  BY DEF Register, SetEntry, EntryIs, Forget, OnlyKept
<1>3. call.odir # 0
  BY <1>1 DEF Typed, OtherTyped, Entering
<1>4. /\ call.oclust \in Clusters /\ call.oslot \in Slots /\ call.entry.name \in Names
      /\ call.entry.kind = "dir" => call.entry.start \in Clusters
      /\ call.entry \in Entry
  BY <1>1, <1>3 DEF Typed, StepTyped, Locals
<1>5. /\ EntryIn(view, call.oclust, call.oslot) = call.entry
      /\ DirHead(view, call.odir) /\ call.oclust \in Chain(view, call.odir)
  BY <1>1, <1>3 DEF Held, Known, KnowOld
<1>6. /\ UsedIn(view, call.oclust, call.oslot)
      /\ call.clust # call.oclust \/ call.slot # call.oslot
  BY <1>1, <1>4, <1>5 DEF UsedIn, Used
<1>7. call.odir \in Clusters
  BY <1>1, <1>5, LeadIsHead
<1>8. call.dir \in Dirs(view) /\ call.odir \in Dirs(view)
  BY <1>1, <1>3 DEF Held, Known, KnowDirs
<1>9. OnlyEntry(view, view', call.clust, call.slot, [call.entry EXCEPT !.name = call.name])
  <2> DEFINE e == [call.entry EXCEPT !.name = call.name]
  <2>1. e \in Entry /\ (e.kind = "dir" => e.start \in Clusters)
    BY <1>1, <1>4, RenamedEntryIs
  <2>2. EntryIs(view, view', call.clust, call.slot, e)
    BY <1>2
  <2> HIDE DEF e
  <2>3. OnlyEntry(view, view', call.clust, call.slot, e)
    BY <1>1, <2>1, <2>2, EntrySetIs
  <2> QED BY <2>3 DEF e
<1> QED BY <1>2, <1>3, <1>4, <1>5, <1>6, <1>7, <1>8, <1>9

\* The file or directory has two names, and is in both directories.
LEMMA NewNameWhole ==
  ASSUME Typed, Held, Register, call.cmd = "rnto", NEW Y,
         call.entry.start # 0 => call.entry.start \in Y
  PROVE  /\ Whole(view', Y, {}) /\ FilesHold(view', kept')
         /\ DirHead(view', call.dir) /\ DirHead(view', call.odir)
         /\ Dirs(view) \subseteq Dirs(view')
<1> DEFINE c == call.clust
<1> DEFINE s == call.slot
<1> DEFINE d == call.dir
<1> DEFINE o == call.entry
<1> DEFINE e == [call.entry EXCEPT !.name = call.name]
<1>1. /\ pc = "register" /\ c \in Clusters /\ s \in Slots /\ call.name \in Names /\ d \in Clusters
      /\ ~UsedIn(view, c, s) /\ Absent(view, d, call.name) /\ DirHead(view, d)
      /\ c \in Chain(view, d)
      /\ VolumeTyped(view) /\ Linked(view) /\ Whole(view, {}, {}) /\ FilesHold(view, kept)
      /\ StaysDir(view, c, s)
  BY RegisterIs
<1>2. /\ OnlyEntry(view, view', c, s, e) /\ kept' = [kept EXCEPT ![call.odir][o.name] = NoPromise]
      /\ o \in Entry /\ o.name \in Names
      /\ EntryIn(view, call.oclust, call.oslot) = o /\ UsedIn(view, call.oclust, call.oslot)
      /\ call.oclust \in Clusters /\ call.oslot \in Slots
      /\ DirHead(view, call.odir) /\ call.oclust \in Chain(view, call.odir)
      /\ o.kind = "dir" => o.start \in Clusters
  BY NewNameIs
<1>3. /\ e \in Entry /\ e.name = call.name /\ e.kind = o.kind /\ e.start = o.start
      /\ e.size = o.size
  BY <1>1, <1>2, RenamedEntryIs
<1> HIDE DEF e
<1>4. EntryFits(view, c, s, e, d)
  <2>1. EntryHolds(view, o)
    BY <1>1, <1>2 DEF Whole, EntriesHold
  <2>2. EntryHolds(view, e)
    BY <1>3, <2>1 DEF EntryHolds
  <2>3. ASSUME e.kind = "file" PROVE e.start # d
    <3>1. EntryIn(view, call.oclust, call.oslot).kind = "file"
          /\ EntryIn(view, call.oclust, call.oslot).start = e.start
      BY <1>2, <1>3, <2>3
    <3>2. DirHead(view, d) /\ Whole(view, {}, {})
      BY <1>1
    <3>3. EntryIn(view, call.oclust, call.oslot).start # d
      <4> HIDE DEF d
      <4> QED BY <1>2, <3>1, <3>2, FileIsNoDir
    <3> QED BY <3>1, <3>3
  <2>4. e.kind = "dir" => DirHead(view, e.start)
    BY <1>2, <1>3 DEF DirHead
  <2> QED BY <1>1, <1>3, <2>2, <2>3, <2>4 DEF EntryFits, Absent, NotIn
<1>5. StartFits(view, c, s, e, d, Y)
  <2>1. ASSUME e.start # 0, NEW b \in Clusters, NEW t \in Slots, UsedIn(view, b, t),
               EntryIn(view, b, t).start = e.start
        PROVE  e.start \in Y /\ EntryIn(view, b, t).kind = e.kind
    <3>1. StartsHold(view, {})
      BY <1>1 DEF Whole
    <3>2. b = call.oclust /\ t = call.oslot
      BY <1>2, <1>3, <2>1, <3>1 DEF StartsHold
    <3> QED BY <1>2, <1>3, <2>1, <3>2
  <2>2. e.kind = "dir" => e.start \in Y
    BY <1>2, <1>3, Zeros
  <2> QED BY <2>1, <2>2 DEF StartFits
<1>6. Whole(view', Y, {})
  <2>1. Settled(view, c, s, {}, Y)
    BY DEF Settled
  <2>2. e.name # "end" /\ e.start \in Starts /\ e.kind \in {"file", "dir"}
        /\ (e.kind = "dir" => e.start \in Clusters)
    <3>1. e.name # "end"
      BY <1>1, <1>3, FatAssumption
    <3> QED BY <1>2, <1>3, <3>1 DEF Entry
  <2> QED BY <1>1, <1>2, <1>4, <1>5, <2>1, <2>2, EntryWhole
<1>7. FilesHold(view', kept')
  <2>1. kept \in [Clusters -> [Names -> Promise \cup {NoPromise}]]
    BY DEF Typed, HistoryTyped
  <2>2. \A h \in Clusters, n \in Names : kept'[h][n] # NoPromise =>
          kept'[h][n] = kept[h][n] /\ ~(h = d /\ EntryIn(view, c, s).name = n)
    BY <1>2, <2>1, RegisterKeeps
  <2>3. /\ Whole(view, {}, {}) /\ FilesHold(view, kept) /\ DirHead(view, d) /\ c \in Chain(view, d)
        /\ StaysDir(view, c, s) /\ c \in Clusters /\ s \in Slots
    BY <1>1
  <2>4. OnlyEntry(view, view', c, s, e) /\ Whole(view', Y, {})
    BY <1>2, <1>6
  <2> HIDE DEF c, s, d
  <2> QED BY <2>2, <2>3, <2>4, EntryFiles
<1>8. DirHead(view', d) /\ DirHead(view', call.odir)
  BY <1>1, <1>2, HeadsStay
<1>9. Dirs(view) \subseteq Dirs(view')
  BY <1>1, <1>2, EntryDirs
<1> QED BY <1>6, <1>7, <1>8, <1>9

\* What was kept of the old name is promised under one of the two.
LEMMA NewNamePromise ==
  ASSUME Typed, Held, Register, call.cmd = "rnto",
         kept[call.odir][call.entry.name] # NoPromise
  PROVE  /\ FileIs(view, call.entry, kept[call.odir][call.entry.name])
         /\ Intact(view, call.odir, call.entry.name, kept[call.odir][call.entry.name])
         /\ Intact(card, call.odir, call.entry.name, kept[call.odir][call.entry.name])
<1> DEFINE p == kept[call.odir][call.entry.name]
<1>1. /\ Whole(view, {}, {}) /\ FilesHold(view, kept) /\ FilesHold(card, kept) /\ Linked(view)
  BY RegisterIs
<1>2. /\ call.entry.name \in Names /\ call.odir \in Clusters /\ DirHead(view, call.odir)
      /\ EntryIn(view, call.oclust, call.oslot) = call.entry
      /\ UsedIn(view, call.oclust, call.oslot)
      /\ call.oclust \in Chain(view, call.odir) /\ call.oslot \in Slots
  BY NewNameIs
<1>3. Intact(view, call.odir, call.entry.name, p) /\ Intact(card, call.odir, call.entry.name, p)
  BY <1>1, <1>2 DEF FilesHold
<1> HIDE DEF p
<1>4. PICK b \in Chain(view, call.odir), t \in Slots :
        EntryIn(view, b, t).name = call.entry.name /\ FileIs(view, EntryIn(view, b, t), p)
  BY <1>1, <1>2, <1>3, IntactIs
<1>5. b = call.oclust /\ t = call.oslot
  BY <1>1, <1>2, <1>4 DEF Whole, NamesHold
<1> QED BY <1>2, <1>3, <1>4, <1>5 DEF p

\* The name and the entry a call works on, but for the promise.
SameWorkButPromise ==
  /\ call'.cmd = call.cmd /\ call'.dir = call.dir /\ call'.name = call.name
  /\ call'.odir = call.odir /\ call'.oclust = call.oclust /\ call'.oslot = call.oslot
  /\ call'.entry = call.entry

\* The locals of a call that has entered the new name.
LEMMA RegisterNameCall ==
  ASSUME Typed, Held, Register, call.cmd = "rnto"
  PROVE  /\ SameWorkButPromise /\ call'.clust = call.clust /\ call'.slot = call.slot
         /\ call'.promise = kept[call.odir][call.entry.name]
         /\ pc' \in {"dotdot", "seek"} /\ (pc' = "dotdot" => call.entry.kind = "dir")
         /\ (pc' = "seek" /\ call.entry.kind = "dir" => call.odir = call.dir)
         /\ Renaming'
<1>1. /\ pc' = IF call.entry.kind = "dir" /\ call.odir # call.dir THEN "dotdot" ELSE "seek"
      /\ call' = [call EXCEPT !.promise = kept[call.odir][call.entry.name]]
  BY NewNameIs
<1>2. call \in Locals
  BY RegisterIs
<1>3. SameWorkButPromise /\ call'.clust = call.clust /\ call'.slot = call.slot
      /\ call'.promise = kept[call.odir][call.entry.name]
  BY <1>1, <1>2 DEF SameWorkButPromise, Locals
<1>4. Renaming'
  BY <1>1, <1>3 DEF Renaming, SameWorkButPromise
<1> QED BY <1>1, <1>3, <1>4

LEMMA RegisterNameOnView ==
  ASSUME Typed, Held, Register, call.cmd = "rnto"
  PROVE  Sure(view)' /\ FreeApart'
<1> DEFINE start == call.entry.start
<1> DEFINE Y == IF start # 0 THEN {start} ELSE {}
<1>1. /\ SameWorkButPromise /\ call'.clust = call.clust /\ call'.slot = call.slot
      /\ call'.promise = kept[call.odir][call.entry.name] /\ Renaming'
  BY RegisterNameCall
<1>2. /\ OnlyEntry(view, view', call.clust, call.slot, [call.entry EXCEPT !.name = call.name])
      /\ crossed' = crossed /\ raw' = raw
      /\ call.entry \in Entry /\ call.entry.name \in Names
      /\ EntryIn(view, call.oclust, call.oslot) = call.entry
      /\ UsedIn(view, call.oclust, call.oslot)
      /\ call.oclust \in Clusters /\ call.oslot \in Slots
      /\ DirHead(view, call.odir) /\ call.oclust \in Chain(view, call.odir)
      /\ call.odir \in Clusters
      /\ call.clust # call.oclust \/ call.slot # call.oslot
      /\ call.dir \in Dirs(view) /\ call.odir \in Dirs(view)
  BY NewNameIs
<1>3. /\ call.clust \in Clusters /\ call.slot \in Slots /\ call.name \in Names
      /\ ~UsedIn(view, call.clust, call.slot) /\ raw = {} /\ ~crossed
      /\ call.clust \in Chain(view, call.dir) /\ DirHead(view, call.dir)
      /\ Whole(view, {}, {}) /\ StaysDir(view, call.clust, call.slot) /\ card' = card
  BY RegisterIs
<1>4. Whole(view', Y, {}) /\ FilesHold(view', kept') /\ Dirs(view) \subseteq Dirs(view')
  <2>1. start # 0 => start \in Y
    OBVIOUS
  <2> HIDE DEF Y
  <2> QED BY <2>1, NewNameWhole
<1>5. /\ EntryIn(view', call.oclust, call.oslot) = call.entry
      /\ EntryIn(view', call.clust, call.slot) = [call.entry EXCEPT !.name = call.name]
      /\ UsedIn(view', call.oclust, call.oslot) /\ UsedIn(view', call.clust, call.slot)
      /\ EntryIn(view', call.clust, call.slot).start = start
  <2>1. EntryIn(view', call.oclust, call.oslot) = call.entry
    BY <1>2 DEF OnlyEntry
  <2>2. EntryIn(view', call.clust, call.slot) = [call.entry EXCEPT !.name = call.name]
    BY <1>2 DEF OnlyEntry
  <2>3. EntryIn(view', call.clust, call.slot).name = call.name
        /\ EntryIn(view', call.clust, call.slot).start = start
    BY <1>2, <1>3, <2>2, RenamedEntryIs
  <2> QED BY <1>2, <1>3, <2>1, <2>2, <2>3 DEF UsedIn, Used
<1>6. Renamed(view)' <=> start # 0
  BY <1>1, <1>5 DEF Renamed, SameWorkButPromise
<1>7. Twice(view)' = Y
  BY <1>1, <1>2, <1>3, <1>6 DEF Twice, SameWorkButPromise
<1>8. Promised(view)'
  <2> SUFFICES ASSUME kept[call.odir][call.entry.name] # NoPromise
               PROVE  Intact(view', call.odir, call.entry.name, kept[call.odir][call.entry.name])
    BY <1>1 DEF Promised, SameWorkButPromise
  <2> DEFINE p == kept[call.odir][call.entry.name]
  <2>1. Intact(view, call.odir, call.entry.name, p)
    BY NewNamePromise
  <2>2. EntryIn(view, call.clust, call.slot).name # call.entry.name
    BY <1>2, <1>3 DEF UsedIn, Used
  <2> HIDE DEF p, Y
  <2>3. Intact(view', call.odir, call.entry.name, p)
    BY <1>2, <1>3, <1>4, <2>1, <2>2, EntryIntact
  <2> QED BY <2>3 DEF p
<1>9. InBoth(view)'
  <2>1. \A h : Chain(view', h) = Chain(view, h)
    BY <1>2 DEF OnlyEntry
  <2> QED BY <1>1, <1>2, <1>3, <1>4, <2>1 DEF InBoth, SameWorkButPromise
<1>10. FreeApart'
  BY <1>2, <1>3 DEF Held, FreeApart, OnlyEntry
<1> QED BY <1>2, <1>3, <1>4, <1>7, <1>8, <1>9, <1>10 DEF Sure

LEMMA RegisterNameOnCard ==
  ASSUME Typed, Held, Register, call.cmd = "rnto"
  PROVE  Sure(card)'
<1>1. /\ SameWorkButPromise /\ call'.clust = call.clust /\ call'.slot = call.slot
      /\ call'.promise = kept[call.odir][call.entry.name] /\ Renaming'
  BY RegisterNameCall
<1>2. /\ crossed' = crossed /\ raw' = raw
      /\ kept' = [kept EXCEPT ![call.odir][call.entry.name] = NoPromise]
      /\ call.oclust \in Clusters /\ call.oslot \in Slots
      /\ call.clust # call.oclust \/ call.slot # call.oslot
  BY NewNameIs
<1>3. /\ call.clust \in Clusters /\ call.slot \in Slots /\ raw = {} /\ ~crossed
      /\ Whole(card, {}, {}) /\ FilesHold(card, kept) /\ card' = card
  BY RegisterIs
<1>4. ~Renamed(card)'
  <2> SUFFICES ASSUME Renamed(card)' PROVE FALSE
    OBVIOUS
  <2>1. StartsHold(card, {})
    BY <1>3 DEF Whole
  <2>2. /\ call.entry.start # 0
        /\ UsedIn(card, call.oclust, call.oslot)
        /\ EntryIn(card, call.oclust, call.oslot).start = call.entry.start
        /\ UsedIn(card, call.clust, call.slot)
        /\ EntryIn(card, call.clust, call.slot).start = call.entry.start
    BY <1>1, <1>3 DEF Renamed, SameWorkButPromise
  <2> QED BY <1>2, <1>3, <2>1, <2>2 DEF StartsHold
<1>5. Twice(card)' = {}
  BY <1>2, <1>3, <1>4 DEF Twice
<1>6. FilesHold(card, kept')
  <2> SUFFICES ASSUME NEW h \in Clusters, NEW n \in Names, kept'[h][n] # NoPromise
               PROVE  DirHead(card, h) /\ Intact(card, h, n, kept'[h][n])
    BY DEF FilesHold
  <2>1. kept \in [Clusters -> [Names -> Promise \cup {NoPromise}]]
    BY DEF Typed, HistoryTyped
  <2>2. kept'[h][n] = kept[h][n]
    BY <1>2, <2>1
  <2> QED BY <1>3, <2>2 DEF FilesHold
<1>7. Promised(card)'
  BY <1>1, <1>3, NewNamePromise DEF Promised, SameWorkButPromise
<1>8. InBoth(card)'
  BY <1>4 DEF InBoth
<1> QED BY <1>2, <1>3, <1>5, <1>6, <1>7, <1>8 DEF Sure

LEMMA RegisterNameHeld == Typed /\ Held /\ Register /\ call.cmd = "rnto" => Held'
<1> SUFFICES ASSUME Typed, Held, Register, call.cmd = "rnto" PROVE Held'
  OBVIOUS
<1> DEFINE start == call.entry.start
<1>1. /\ SameWorkButPromise /\ call'.clust = call.clust /\ call'.slot = call.slot
      /\ call'.promise = kept[call.odir][call.entry.name] /\ Renaming'
      /\ pc' \in {"dotdot", "seek"} /\ (pc' = "dotdot" => call.entry.kind = "dir")
      /\ (pc' = "seek" /\ call.entry.kind = "dir" => call.odir = call.dir)
  BY RegisterNameCall
<1>2. /\ OnlyEntry(view, view', call.clust, call.slot, [call.entry EXCEPT !.name = call.name])
      /\ kept' = [kept EXCEPT ![call.odir][call.entry.name] = NoPromise]
      /\ crossed' = crossed /\ raw' = raw
      /\ call.entry \in Entry /\ call.entry.name \in Names
      /\ EntryIn(view, call.oclust, call.oslot) = call.entry
      /\ UsedIn(view, call.oclust, call.oslot)
      /\ call.oclust \in Clusters /\ call.oslot \in Slots
      /\ DirHead(view, call.odir) /\ call.oclust \in Chain(view, call.odir)
      /\ call.odir \in Clusters
      /\ call.clust # call.oclust \/ call.slot # call.oslot
      /\ call.entry.kind = "dir" => call.entry.start \in Clusters
  BY NewNameIs
<1>3. /\ call.clust \in Clusters /\ call.slot \in Slots /\ call.name \in Names
      /\ ~UsedIn(view, call.clust, call.slot) /\ raw = {} /\ ~crossed
      /\ call.clust \in Chain(view, call.dir) /\ DirHead(view, call.dir)
      /\ Whole(view, {}, {}) /\ VolumeTyped(view)
  BY RegisterIs
<1>4. DirHead(view', call.dir) /\ DirHead(view', call.odir)
  <2>1. start # 0 => start \in {start}
    OBVIOUS
  <2> QED BY <2>1, NewNameWhole
<1>5. /\ \A h : Chain(view', h) = Chain(view, h)
      /\ EntryIn(view', call.clust, call.slot) = [call.entry EXCEPT !.name = call.name]
      /\ \A b \in Clusters, t \in Slots : b # call.clust \/ t # call.slot =>
           EntryIn(view', b, t) = EntryIn(view, b, t)
      /\ \A b \in Clusters : view'.data[b].text = view.data[b].text
                             /\ view'.data[b].up = view.data[b].up
      /\ VolumeTyped(view') /\ view'.fat = view.fat
  BY <1>2 DEF OnlyEntry
<1>6. KnowHere' /\ KnowRaw'
  BY <1>1, <1>2, <1>3, <1>4, <1>5 DEF KnowHere, KnowRaw, SameWorkButPromise
<1>7. KnowOld'
  BY <1>1, <1>2, <1>4, <1>5 DEF KnowOld, SameWorkButPromise
<1>8. KnowNames'
  <2>1. kept'[call.odir][call.entry.name] = NoPromise
    <3>1. kept \in [Clusters -> [Names -> Promise \cup {NoPromise}]]
      BY DEF Typed, HistoryTyped
    <3> QED BY <1>2, <3>1
  <2>2. ASSUME start # 0, NEW b \in Clusters, NEW t \in Slots, UsedIn(view', b, t),
               EntryIn(view', b, t).start = start, b # call.clust \/ t # call.slot
        PROVE  b = call.oclust /\ t = call.oslot
    <3>1. UsedIn(view, b, t) /\ EntryIn(view, b, t).start = start
      BY <1>5, <2>2 DEF UsedIn
    <3>2. StartsHold(view, {})
      BY <1>3 DEF Whole
    <3> QED BY <1>2, <2>2, <3>1, <3>2 DEF StartsHold
  <2>3. call.entry.kind = "dir" /\ pc' = "seek" => view'.data[start].up = call.dir
    <3> SUFFICES ASSUME call.entry.kind = "dir", pc' = "seek" PROVE view'.data[start].up = call.dir
      OBVIOUS
    <3>1. call.odir = call.dir /\ start \in Clusters
      BY <1>1, <1>2
    <3>2. UpsHold(view, {})
      BY <1>3 DEF Whole
    <3>3. view.data[start].up = call.odir
      BY <1>2, <3>2 DEF UpsHold
    <3> QED BY <1>5, <3>1, <3>3
  <2>4. ASSUME kept[call.odir][call.entry.name] # NoPromise
        PROVE  FileIs(view', call.entry, kept[call.odir][call.entry.name])
    <3> DEFINE p == kept[call.odir][call.entry.name]
    <3>1. FileIs(view, call.entry, p)
      BY <2>4, NewNamePromise
    <3>2. call.entry.size \in Blocks /\ (start \in Clusters \/ call.entry.size = 0)
      BY <1>2, <1>3, FileStarts
    <3>3. p.size \in Blocks /\ (start \in Clusters \/ p.size = 0)
      <4> HIDE DEF p
      <4> QED BY <3>1, <3>2 DEF FileIs
    <3> HIDE DEF p
    <3>4. FileIs(view', call.entry, p)
      BY <1>3, <1>5, <3>1, <3>3, FileSame
    <3> QED BY <3>4 DEF p
  <2> QED BY <1>1, <1>2, <1>3, <1>5, <2>1, <2>2, <2>3, <2>4 DEF KnowNames, SameWorkButPromise
<1> QED BY <1>1, <1>6, <1>7, <1>8, RenameKnown, RegisterNameOnView, RegisterNameOnCard DEF Held

LEMMA RegisterHeld == Typed /\ Held /\ Register => Held'
BY RegisterIs, RegisterFileHeld, RegisterDirHeld, RegisterNameHeld

-----------------------------------------------------------------------------
(* STOR closes its file.                                                   *)

\* The entry of a file that is closed.
Filled(f, start, size) == [f EXCEPT !.start = start, !.size = size]

\* The entry gets the chain and the size of the file.
LEMMA FilledIs ==
  ASSUME NEW f \in Entry, NEW start \in Starts, NEW size \in Blocks
  PROVE  /\ Filled(f, start, size) \in Entry
         /\ Filled(f, start, size).name = f.name
         /\ Filled(f, start, size).kind = f.kind
         /\ Filled(f, start, size).start = start
         /\ Filled(f, start, size).size = size
BY DEF Entry, Filled

\* What is known of the file that is to be closed.
LEMMA CloseIs ==
  ASSUME Typed, Held, pc = "close"
  PROVE  /\ call \in Locals /\ call.cmd = "stor" /\ ~Renaming /\ raw = {} /\ ~crossed
         /\ call.clust \in Clusters /\ call.slot \in Slots /\ call.name \in Names
         /\ call.dir \in Clusters /\ DirHead(view, call.dir)
         /\ call.clust \in Chain(view, call.dir)
         /\ VolumeTyped(view) /\ Linked(view) /\ Whole(view, {}, {}) /\ FilesHold(view, kept)
         /\ call.promise = NoPromise /\ call.text \in Texts
         /\ Found = EntryIn(view, call.clust, call.slot) /\ Found \in Entry
         /\ Found.name = call.name /\ Found.kind = "file" /\ Found.start = 0
         /\ UsedIn(view, call.clust, call.slot)
         /\ kept[call.dir][call.name] = NoPromise
         /\ Filling /\ KnowText /\ open = Here
<1>1. /\ call \in Locals /\ ~Renaming /\ raw = {} /\ ~crossed
      /\ call.clust \in Clusters /\ call.name \in Names
      /\ call.dir \in Clusters /\ DirHead(view, call.dir)
      /\ call.clust \in Chain(view, call.dir)
      /\ VolumeTyped(view) /\ Linked(view)
  BY InCall DEF Renaming
<1>2. Whole(view, {}, {}) /\ FilesHold(view, kept) /\ call.promise = NoPromise
  BY <1>1, InCallWhole
<1>3. call.cmd = "stor"
  BY <1>1 DEF Typed, CallTyped, OtherTyped, Locals, Searching, Entering, Taking, Removing
<1>4. open = Here /\ open # NoPlace /\ call.text \in Texts
  BY <1>1, <1>3, Zeros DEF Typed, StorTyped, Writing, Here, NoPlace
<1>5. call.slot \in Slots
  BY <1>4 DEF Typed, CallTyped, Here
<1>6. Filling
  BY <1>3, <1>4 DEF Filling, Opened, Writing
<1>7. /\ Found.name = call.name /\ Found.start = 0 /\ kept[call.dir][call.name] = NoPromise
      /\ KnowText
  BY <1>3, <1>6 DEF Held, Known, KnowFile
<1>8. Found = EntryIn(view, call.clust, call.slot)
  BY DEF Found, EntryIn, Ents
<1>9. Found \in Entry
  BY <1>1, <1>5, <1>8, UsedIsTyped
<1>10. Found.kind = "file"
  BY <1>3, <1>4 DEF Typed, EntryTyped, Writing
<1>11. UsedIn(view, call.clust, call.slot)
  BY <1>1, <1>7, <1>8 DEF UsedIn, Used
<1> QED BY <1>1, <1>2, <1>3, <1>4, <1>5, <1>6, <1>7, <1>8, <1>9, <1>10, <1>11

LEMMA CloseHeld == Typed /\ Held /\ Close => Held'
<1> SUFFICES ASSUME Typed, Held, Close PROVE Held'
  OBVIOUS
<1> DEFINE c == call.clust
<1> DEFINE s == call.slot
<1> DEFINE d == call.dir
<1> DEFINE h == call.sclust
<1> DEFINE e == Filled(Found, call.sclust, call.size)
<1>1. /\ pc = "close" /\ pc' = "sync" /\ call' = call /\ EntryIs(view, view', c, s, e)
      /\ card' = card /\ kept' = kept /\ crossed' = crossed /\ raw' = raw
  BY DEF Close, At, Goto, SetEntry, EntryIs, history, Filled
<1>2. /\ call \in Locals /\ call.cmd = "stor" /\ ~Renaming /\ raw = {} /\ ~crossed
      /\ c \in Clusters /\ s \in Slots /\ call.name \in Names
      /\ d \in Clusters /\ DirHead(view, d) /\ c \in Chain(view, d)
      /\ VolumeTyped(view) /\ Linked(view) /\ Whole(view, {}, {}) /\ FilesHold(view, kept)
      /\ call.promise = NoPromise /\ call.text \in Texts
      /\ Found = EntryIn(view, c, s) /\ Found \in Entry
      /\ Found.name = call.name /\ Found.kind = "file" /\ Found.start = 0
      /\ UsedIn(view, c, s) /\ kept[d][call.name] = NoPromise
      /\ Filling /\ KnowText
  BY <1>1, CloseIs
<1>3. h \in Starts /\ call.size \in Blocks
  BY <1>2 DEF Locals
<1>4. /\ e \in Entry /\ e.name = call.name /\ e.kind = "file" /\ e.start = h /\ e.size = call.size
  BY <1>2, <1>3, FilledIs
<1> HIDE DEF e
<1>5. OnlyEntry(view, view', c, s, e)
  BY <1>1, <1>2, <1>4, EntrySetIs
<1>6. /\ h = 0 => call.size = 0
      /\ h # 0 => /\ Loose(view, card, h) /\ call.size <= Cardinality(Chain(view, h))
                  /\ BlocksHold(view, h, call.size, call.text)
  BY <1>2 DEF KnowText
<1>7. /\ h # 0 => Head(view, h) /\ ~Lead(view, h) /\ AllBare(view, h) /\ h \in Clusters
  BY <1>6 DEF Loose, AllBare, Head
<1>8. EntryHolds(view, e)
  <2>1. CASE h = 0
    <3>1. Chain(view, h) = {} /\ Cardinality({}) = 0
      BY <1>2, <2>1, ChainNone, Zeros, FS_EmptySet
    <3> QED BY <1>4, <1>6, <2>1, <3>1 DEF EntryHolds
  <2>2. CASE h # 0
    <3>1. h # Root
      BY <1>7, <2>2 DEF Lead
    <3> QED BY <1>4, <1>6, <1>7, <2>2, <3>1 DEF EntryHolds, AllBare
  <2> QED BY <2>1, <2>2
<1>9. EntryFits(view, c, s, e, d) /\ StartFits(view, c, s, e, d, {})
  <2>1. h # d
    BY <1>2, <1>7, LeadIsHead, Zeros
  <2>2. \A b \in Chain(view, d), t \in Slots : b # c \/ t # s =>
          EntryIn(view, b, t).name # call.name
    BY <1>2 DEF Whole, NamesHold
  <2>3. \A b \in Clusters, t \in Slots : UsedIn(view, b, t) /\ h # 0 =>
          EntryIn(view, b, t).start # h
    BY <1>7 DEF Lead
  <2> QED BY <1>4, <1>8, <2>1, <2>2, <2>3 DEF EntryFits, StartFits
<1>10. ~Renaming'
  BY <1>1, <1>2 DEF Renaming
<1>11. Sure(view)' /\ Sure(card)' /\ FreeApart'
  <2>1. StaysDir(view, c, s)
    BY <1>2 DEF StaysDir
  <2>2. \A g \in Clusters, n \in Names : kept'[g][n] # NoPromise =>
          kept'[g][n] = kept[g][n] /\ ~(g = d /\ EntryIn(view, c, s).name = n)
    BY <1>1, <1>2
  <2>3. e.name # "end" /\ e.start \in Starts /\ e.kind \in {"file", "dir"} /\ e.kind # "dir"
    BY <1>2, <1>3, <1>4, FatAssumption
  <2>4. pc \notin {"idle", "stretch", "stretched", "free"}
    BY <1>1
  <2> QED BY <1>1, <1>2, <1>5, <1>9, <1>10, <2>1, <2>2, <2>3, <2>4, EntrySure
<1>12. KnowHere' /\ KnowRaw' /\ KnowPromise'
  <2>1. DirHead(view', d)
    BY <1>2, <1>5, HeadsStay
  <2>2. c \in Chain(view', d)
    BY <1>2, <1>5 DEF OnlyEntry
  <2> QED BY <1>1, <1>2, <2>1, <2>2 DEF KnowHere, KnowRaw, KnowPromise
<1>13. KnowBlank' /\ KnowFree'
  BY <1>1 DEF KnowBlank, KnowFree
<1>14. KnowFile'
  <2> DEFINE p == [text |-> call.text, size |-> call.size]
  <2>1. Found' = e
    <3>1. Found' = EntryIn(view', call'.clust, call'.slot)
      BY DEF Found, Ents, EntryIn
    <3> QED BY <1>1, <1>5, <3>1 DEF OnlyEntry
  <2>2. p.text = call.text /\ p.size = call.size
    OBVIOUS
  <2> HIDE DEF p
  <2>3. FileIs(view, e, p)
    <3> SUFFICES ASSUME NEW i \in 0 .. call.size - 1
                 PROVE  /\ BlockAt(view, h, i) \in Clusters
                        /\ view.data[BlockAt(view, h, i)].text = call.text
      BY <1>4, <2>2 DEF FileIs
    <3>1. h # 0
      BY <1>6
    <3> QED BY <1>6, <3>1 DEF BlocksHold
  <2>4. FileIs(view', e, p)
    <3>1. /\ VolumeTyped(view') /\ view'.fat = view.fat
          /\ \A b \in Clusters : view'.data[b].text = view.data[b].text
      BY <1>5 DEF OnlyEntry
    <3>2. p.size \in Blocks /\ (e.start \in Clusters \/ p.size = 0)
      BY <1>3, <1>4, <1>6, <1>7, <2>2
    <3> QED BY <1>2, <2>3, <3>1, <3>2, FileSame
  <2>5. ~Filling' /\ pc' = "sync"
    BY <1>1 DEF Filling, Taking, Writing
  <2> QED BY <1>1, <1>4, <2>1, <2>4, <2>5 DEF KnowFile, p
<1>15. pc' \in {"free", "reopen", "sync"} /\ call'.cmd # "rnto"
       /\ (pc' = "reopen" => call'.cmd = "stor")
  BY <1>1, <1>2
<1> QED BY <1>11, <1>12, <1>13, <1>14, <1>15, RestKnown DEF Held

-----------------------------------------------------------------------------
(* DELE and RMD remove an entry.                                           *)

\* What is known of an entry that is removed.
LEMMA RemoveIs ==
  ASSUME Typed, Held, Remove
  PROVE  /\ pc = "remove" /\ win = call.oclust /\ win' = win /\ wflag' = TRUE
         /\ card' = card /\ crossed' = crossed /\ raw' = raw
         /\ EntryIs(view, view', call.oclust, call.oslot, Unused("gone"))
         /\ OnlyEntry(view, view', call.oclust, call.oslot, Unused("gone"))
         /\ ~UsedIn(view', call.oclust, call.oslot) /\ "gone" \notin Names
         /\ call \in Locals /\ call.cmd \in {"unlink", "rnto"} /\ call.odir # 0
         /\ call.oclust \in Clusters /\ call.oslot \in Slots /\ call.entry.name \in Names
         /\ EntryIn(view, call.oclust, call.oslot) = call.entry
         /\ UsedIn(view, call.oclust, call.oslot)
         /\ DirHead(view, call.odir) /\ call.oclust \in Chain(view, call.odir)
         /\ call.odir \in Clusters /\ ~crossed /\ raw = {}
         /\ DirHead(view, call.dir) /\ call.clust \in Chain(view, call.dir)
         /\ VolumeTyped(view) /\ Linked(view)
         /\ call.entry.kind = "dir" => call.entry.start \in Clusters
<1>1. /\ pc = "remove" /\ ~Elsewhere /\ win' = win /\ wflag' = TRUE
      /\ card' = card /\ crossed' = crossed /\ raw' = raw
      /\ EntryIs(view, view', call.oclust, call.oslot, Unused("gone"))
  BY DEF Remove, At, Syncing, SetEntry, EntryIs
<1>2. win = call.oclust
  BY <1>1 DEF Elsewhere, Needs, InDir, InFat
<1>3. /\ call \in Locals /\ ~crossed /\ raw = {}
      /\ DirHead(view, call.dir) /\ call.clust \in Chain(view, call.dir)
      /\ VolumeTyped(view) /\ Linked(view)
  BY <1>1, InCall
<1>4. call.cmd \in {"unlink", "rnto"}
  BY <1>1, <1>3 DEF Typed, CallTyped, StorTyped, OtherTyped, Locals, Searching, Entering,
                    Taking,
     Writing
<1>5. /\ call.odir # 0 /\ call.oclust \in Clusters /\ call.oslot \in Slots
      /\ call.entry.name \in Names
      /\ call.entry.kind = "dir" => call.entry.start \in Clusters
  BY <1>1 DEF Typed, StepTyped, Removing
<1>6. /\ EntryIn(view, call.oclust, call.oslot) = call.entry
      /\ DirHead(view, call.odir) /\ call.oclust \in Chain(view, call.odir)
  BY <1>1, <1>4, <1>5 DEF Held, Known, KnowOld
<1>7. UsedIn(view, call.oclust, call.oslot)
  BY <1>5, <1>6 DEF UsedIn, Used
<1>8. call.odir \in Clusters
  <2>1. DirHead(view, call.odir) => call.odir \in Clusters
    BY <1>3, UsedIsTyped, ClustersCount DEF DirHead
  <2> QED BY <1>6, <2>1
<1>9. Unused("gone") \in Entry /\ Unused("gone").kind = "file" /\ Unused("gone").name = "gone"
      /\ "gone" \notin Names
  <2>1. 0 \in Starts /\ 0 \in Blocks
    BY FatAssumption DEF Starts, Blocks
  <2> QED BY <2>1, FatAssumption DEF Entry, Unused
<1>10. OnlyEntry(view, view', call.oclust, call.oslot, Unused("gone"))
  BY <1>1, <1>3, <1>5, <1>9, EntrySetIs
<1>11. ~UsedIn(view', call.oclust, call.oslot)
  BY <1>9, <1>10 DEF OnlyEntry, UsedIn, Used
<1> QED BY <1>1, <1>2, <1>3, <1>4, <1>5, <1>6, <1>7, <1>8, <1>9, <1>10, <1>11

\* A removed entry is in use no more.
LEMMA GoneIs ==
  /\ Unused("gone").name = "gone" /\ Unused("gone").start = 0 /\ Unused("gone").kind = "file"
  /\ 0 \in Starts /\ ~Used(Unused("gone")) /\ "gone" # "end"
BY FatAssumption DEF Unused, Starts, Used

LEMMA UnlinkHeld == Typed /\ Held /\ Remove /\ call.cmd = "unlink" => Held'
<1> SUFFICES ASSUME Typed, Held, Remove, call.cmd = "unlink" PROVE Held'
  OBVIOUS
<1> DEFINE c == call.oclust
<1> DEFINE s == call.oslot
<1> DEFINE d == call.odir
<1> DEFINE h == call.entry.start
<1> DEFINE e == Unused("gone")
<1>1. /\ pc = "remove" /\ win = c /\ win' = win /\ wflag' = TRUE
      /\ card' = card /\ crossed' = crossed /\ raw' = raw
      /\ OnlyEntry(view, view', c, s, e)
      /\ ~UsedIn(view', c, s)
      /\ call \in Locals /\ d # 0
      /\ c \in Clusters /\ s \in Slots /\ call.entry.name \in Names
      /\ EntryIn(view, c, s) = call.entry /\ UsedIn(view, c, s)
      /\ DirHead(view, d) /\ c \in Chain(view, d)
      /\ d \in Clusters /\ ~crossed /\ raw = {}
      /\ DirHead(view, call.dir) /\ call.clust \in Chain(view, call.dir)
      /\ VolumeTyped(view) /\ Linked(view)
      /\ call.entry.kind = "dir" => h \in Clusters
  BY RemoveIs
<1> HIDE DEF e
<1>2. /\ kept' = [kept EXCEPT ![d][call.entry.name] = NoPromise]
      /\ IF call.entry.kind = "dir"
         THEN pc' = "free" /\ call' = [call EXCEPT !.clst = h]
         ELSE pc' = "sync" /\ call' = call
  BY DEF Remove, Forget, Goto
<1>3. ~Renaming /\ Whole(view, {}, {}) /\ FilesHold(view, kept) /\ call.promise = NoPromise
  <2>1. ~Renaming
    BY DEF Renaming
  <2> QED BY <1>1, <2>1, InCallWhole
<1>4. d = call.dir /\ (call.entry.kind = "dir" => AllBare(view, h))
  BY <1>1 DEF Held, Known, KnowEmpty
<1>5. /\ call'.promise = call.promise /\ call'.cmd = "unlink" /\ call'.dir = call.dir
      /\ call'.clust = call.clust /\ (pc' = "free" => call'.clst = h /\ call.entry.kind = "dir")
      /\ pc' \in {"free", "sync"}
  BY <1>1, <1>2 DEF Locals
<1>6. ~Renaming'
  BY <1>5 DEF Renaming
<1>7. StaysDir(view, c, s)
  BY <1>1, <1>4 DEF StaysDir, AllBare
<1>8. Sure(view)' /\ Sure(card)' /\ FreeApart'
  <2>1. \A g \in Clusters, n \in Names : kept'[g][n] # NoPromise =>
          kept'[g][n] = kept[g][n] /\ ~(g = d /\ EntryIn(view, c, s).name = n)
    <3>1. kept \in [Clusters -> [Names -> Promise \cup {NoPromise}]]
      BY DEF Typed, HistoryTyped
    <3> QED BY <1>1, <1>2, <3>1
  <2>2. e.name # "end" /\ e.start \in Starts /\ e.kind \in {"file", "dir"} /\ e.kind # "dir"
        /\ ~Used(e)
    BY GoneIs DEF e
  <2>3. pc \notin {"idle", "stretch", "stretched", "free"}
    BY <1>1
  <2> QED BY <1>1, <1>3, <1>5, <1>6, <1>7, <2>1, <2>2, <2>3, EntrySure
<1>9. call.entry.kind = "dir" => h # d
  <2> SUFFICES ASSUME call.entry.kind = "dir", h = d PROVE FALSE
    OBVIOUS
  <2>1. Bare(view, c)
    BY <1>1, <1>4 DEF AllBare
  <2> QED BY <1>1, <2>1 DEF Bare
<1>10. KnowHere' /\ KnowRaw' /\ KnowPromise'
  <2>1. DirHead(view', d)
    BY <1>1, <1>9, HeadsStay
  <2>2. call.clust \in Chain(view', call.dir)
    BY <1>1 DEF OnlyEntry
  <2> QED BY <1>1, <1>3, <1>4, <1>5, <2>1, <2>2 DEF KnowHere, KnowRaw, KnowPromise
<1>11. KnowBlank' /\ KnowFile'
  BY <1>5 DEF KnowBlank, KnowFile
<1>12. KnowFree'
  <2> SUFFICES ASSUME pc' = "free" PROVE KnowFree'
    BY DEF KnowFree
  <2>1. call'.clst = h /\ call.entry.kind = "dir" /\ h \in Clusters /\ h # 0 /\ AllBare(view, h)
    BY <1>1, <1>4, <1>5, Zeros
  <2>2. Head(view, h) /\ h # Root
    BY <1>1, <1>3, <2>1 DEF Whole, EntriesHold, EntryHolds
  <2>3. Head(view', h) /\ Chain(view', h) = Chain(view, h)
    BY <1>1, <2>2 DEF OnlyEntry
  <2>4. ~Lead(view', h)
    <3> SUFFICES ASSUME NEW b \in Clusters, NEW t \in Slots, UsedIn(view', b, t),
                        EntryIn(view', b, t).start = h
                 PROVE  FALSE
      BY <2>2 DEF Lead
    <3>1. b # c \/ t # s
      BY <1>1
    <3>2. EntryIn(view, b, t) = EntryIn(view', b, t)
      BY <1>1, <3>1 DEF OnlyEntry
    <3>3. UsedIn(view, b, t)
      BY <3>2 DEF UsedIn
    <3>4. StartsHold(view, {})
      BY <1>3 DEF Whole
    <3> QED BY <1>1, <2>1, <3>1, <3>2, <3>3, <3>4 DEF StartsHold
  <2>5. AllBare(view', h)
    <3> SUFFICES ASSUME NEW b \in Chain(view, h), NEW t \in Slots PROVE ~UsedIn(view', b, t)
      BY <2>3 DEF AllBare, Bare
    <3>1. Bare(view, b) /\ b \in Clusters
      BY <1>1, <2>1, ChainIs DEF AllBare
    <3>2. b # c
      BY <1>1, <3>1 DEF Bare
    <3>3. EntryIn(view', b, t) = EntryIn(view, b, t)
      BY <1>1, <3>1, <3>2 DEF OnlyEntry
    <3> QED BY <3>1, <3>3 DEF Bare, UsedIn
  <2>6. wflag' /\ win' \in Clusters
    BY <1>1
  <2> QED BY <2>1, <2>3, <2>4, <2>5, <2>6 DEF KnowFree
<1>13. pc' \in {"free", "reopen", "sync"} /\ call'.cmd # "rnto"
       /\ (pc' = "reopen" => call'.cmd = "stor")
  BY <1>5
<1> QED BY <1>8, <1>10, <1>11, <1>12, <1>13, RestKnown DEF Held

-----------------------------------------------------------------------------
(* RNTO removes the old name.                                              *)

\* The old name of a rename is gone: one name is left, and all is whole.
LEMMA OldNameGone ==
  ASSUME Typed, Held, Remove, call.cmd = "rnto"
  PROVE  /\ Whole(view', {}, {}) /\ FilesHold(view', kept)
         /\ DirHead(view', call.dir) /\ pc' = "sync" /\ call' = call /\ kept' = kept
         /\ Renaming /\ Renaming'
<1> DEFINE c == call.oclust
<1> DEFINE s == call.oslot
<1> DEFINE d == call.odir
<1> DEFINE h == call.entry.start
<1> DEFINE X == Twice(view)
<1> DEFINE e == Unused("gone")
<1>1. /\ pc = "remove" /\ OnlyEntry(view, view', c, s, e)
      /\ c \in Clusters /\ s \in Slots /\ EntryIn(view, c, s) = call.entry
      /\ UsedIn(view, c, s) /\ DirHead(view, d) /\ c \in Chain(view, d)
      /\ VolumeTyped(view) /\ DirHead(view, call.dir) /\ call.clust \in Chain(view, call.dir)
      /\ call.entry.kind = "dir" => h \in Clusters
  BY RemoveIs
<1> HIDE DEF e
<1>2. pc' = "sync" /\ call' = call /\ kept' = kept
  BY DEF Remove, Goto
<1>3. Renaming /\ Renaming'
  BY <1>1, <1>2 DEF Renaming
<1>4. /\ call.clust \in Clusters /\ call.slot \in Slots
      /\ UsedIn(view, call.clust, call.slot)
      /\ EntryIn(view, call.clust, call.slot).start = h
      /\ EntryIn(view, call.clust, call.slot).kind = call.entry.kind
      /\ call.clust # c \/ call.slot # s
      /\ X = IF h # 0 THEN {h} ELSE {}
      /\ Whole(view, X, {}) /\ FilesHold(view, kept)
  BY <1>1, <1>3, RenamingIs
<1>5. /\ h # 0 =>
           \A b \in Clusters, t \in Slots :
             UsedIn(view, b, t) /\ EntryIn(view, b, t).start = h =>
               \/ b = call.clust /\ t = call.slot
               \/ b = c /\ t = s
      /\ call.entry.kind = "dir" => view.data[h].up = call.dir
      /\ kept[d][call.entry.name] = NoPromise
  BY <1>1, <1>3 DEF Held, Known, KnowNames
<1> HIDE DEF X
<1>6. StaysDir(view, c, s)
  BY <1>1, <1>4 DEF StaysDir
<1>7. Settled(view, c, s, X, {})
  <2> SUFFICES ASSUME NEW b \in Clusters, NEW t \in Slots, b # c \/ t # s, UsedIn(view, b, t),
                      EntryIn(view, b, t).start \in X
               PROVE  /\ \A a \in Clusters, u \in Slots :
                           (a # c \/ u # s) /\ UsedIn(view, a, u)
                           /\ EntryIn(view, a, u).start = EntryIn(view, b, t).start =>
                             a = b /\ u = t
                      /\ \A g : DirHead(view, g) /\ b \in Chain(view, g)
                                /\ EntryIn(view, b, t).kind = "dir" =>
                           view.data[EntryIn(view, b, t).start].up = g
    BY DEF Settled
  <2>1. EntryIn(view, b, t).start = h /\ h # 0
    BY <1>4
  <2>2. b = call.clust /\ t = call.slot
    BY <1>5, <2>1
  <2>3. ASSUME NEW g, DirHead(view, g), b \in Chain(view, g), EntryIn(view, b, t).kind = "dir"
        PROVE  view.data[EntryIn(view, b, t).start].up = g
    <3>1. Head(view, g) /\ Head(view, call.dir)
      BY <1>1, <1>4, <2>3, LeadIsHead
    <3>2. g = call.dir
      BY <1>1, <1>4, <2>2, <2>3, <3>1, LeadsApart
    <3> QED BY <1>4, <1>5, <2>1, <2>2, <2>3, <3>2
  <2> QED BY <1>5, <2>1, <2>2, <2>3
<1>8. e.name # "end" /\ e.start \in Starts /\ e.kind \in {"file", "dir"} /\ e.kind # "dir" /\ ~Used(e)
  BY GoneIs DEF e
<1>9. Whole(view', {}, {})
  BY <1>1, <1>4, <1>7, <1>8, EntryWhole
<1>10. FilesHold(view', kept)
  <2>1. \A g \in Clusters, n \in Names : kept[g][n] # NoPromise =>
          kept[g][n] = kept[g][n] /\ ~(g = d /\ EntryIn(view, c, s).name = n)
    BY <1>1, <1>5
  <2> QED BY <1>1, <1>4, <1>6, <1>9, <2>1, EntryFiles
<1>11. DirHead(view', call.dir)
  BY <1>1, <1>4, HeadsStay
<1> QED BY <1>2, <1>3, <1>9, <1>10, <1>11

LEMMA RenamedHeld == Typed /\ Held /\ Remove /\ call.cmd = "rnto" => Held'
<1> SUFFICES ASSUME Typed, Held, Remove, call.cmd = "rnto" PROVE Held'
  OBVIOUS
<1> DEFINE h == call.entry.start
<1>1. /\ pc = "remove" /\ card' = card /\ crossed' = crossed /\ raw' = raw
      /\ OnlyEntry(view, view', call.oclust, call.oslot, Unused("gone"))
      /\ ~UsedIn(view', call.oclust, call.oslot)
      /\ call \in Locals /\ ~crossed /\ raw = {} /\ VolumeTyped(view)
      /\ call.oclust \in Clusters /\ call.oslot \in Slots
      /\ EntryIn(view, call.oclust, call.oslot) = call.entry
      /\ UsedIn(view, call.oclust, call.oslot)
      /\ call.clust \in Chain(view, call.dir)
  BY RemoveIs
<1>2. /\ Whole(view', {}, {}) /\ FilesHold(view', kept)
      /\ DirHead(view', call.dir) /\ pc' = "sync" /\ call' = call /\ kept' = kept
      /\ Renaming /\ Renaming'
  BY OldNameGone
<1>3. /\ call.clust \in Clusters /\ call.slot \in Slots /\ call.name \in Names
      /\ call.dir \in Clusters
      /\ EntryIn(view, call.clust, call.slot) = [call.entry EXCEPT !.name = call.name]
      /\ call.clust # call.oclust \/ call.slot # call.oslot
      /\ Whole(view, Twice(view), {})
  BY <1>1, <1>2, RenamingIs
<1>4. /\ \A b \in Clusters, t \in Slots : b # call.oclust \/ t # call.oslot =>
           EntryIn(view', b, t) = EntryIn(view, b, t)
      /\ \A b \in Clusters : view'.data[b].text = view.data[b].text
                             /\ view'.data[b].up = view.data[b].up
      /\ VolumeTyped(view') /\ view'.fat = view.fat
      /\ \A g : Chain(view', g) = Chain(view, g)
  BY <1>1 DEF OnlyEntry
<1>5. EntryIn(view', call.clust, call.slot) = [call.entry EXCEPT !.name = call.name]
  BY <1>3, <1>4
<1>6. ASSUME call.promise # NoPromise
      PROVE  FileIs(view', call.entry, call.promise)
  <2>1. FileIs(view, call.entry, call.promise)
    BY <1>2, <1>6 DEF Held, Known, KnowNames
  <2>2. call.entry.size \in Blocks /\ (h \in Clusters \/ call.entry.size = 0)
    BY <1>1, <1>3, FileStarts
  <2>3. call.promise.size \in Blocks /\ (h \in Clusters \/ call.promise.size = 0)
    BY <2>1, <2>2 DEF FileIs
  <2> QED BY <1>1, <1>4, <2>1, <2>3, FileSame
<1>7. KnowHere' /\ KnowRaw' /\ KnowOld'
  BY <1>1, <1>2, <1>4 DEF KnowHere, KnowRaw, KnowOld, Renaming
<1>8. KnowNames'
  <2>1. /\ h # 0 =>
           \A b \in Clusters, t \in Slots :
             UsedIn(view, b, t) /\ EntryIn(view, b, t).start = h =>
               \/ b = call.clust /\ t = call.slot
               \/ b = call.oclust /\ t = call.oslot
        /\ call.entry.kind = "dir" => view.data[h].up = call.dir
        /\ kept[call.odir][call.entry.name] = NoPromise
    BY <1>1, <1>2 DEF Held, Known, KnowNames
  <2>2. h # 0 =>
          \A b \in Clusters, t \in Slots :
            UsedIn(view', b, t) /\ EntryIn(view', b, t).start = h =>
               \/ b = call.clust /\ t = call.slot
               \/ b = call.oclust /\ t = call.oslot
    BY <1>1, <1>4, <2>1 DEF UsedIn
  <2>3. call.entry.kind = "dir" => view'.data[h].up = call.dir
    <3>1. call.entry.kind = "dir" => h \in Clusters
      BY DEF Typed, StepTyped
    <3> QED BY <1>4, <2>1, <3>1
  <2> QED BY <1>1, <1>2, <1>3, <1>5, <1>6, <2>1, <2>2, <2>3 DEF KnowNames
<1>9. Sure(view)'
  <2>1. ~Renamed(view)'
    BY <1>1, <1>2 DEF Renamed
  <2>2. Twice(view)' = {}
    BY <1>1, <2>1 DEF Twice
  <2>3. Promised(view)'
    <3> SUFFICES ASSUME call.promise # NoPromise
                 PROVE  Intact(view', call.dir, call.name, call.promise)
      BY <1>2 DEF Promised
    <3>1. FileIs(view', call.entry, call.promise)
      BY <1>6
    <3>2. call.entry \in Entry
      BY <1>1 DEF Locals
    <3>3. /\ EntryIn(view', call.clust, call.slot).name = call.name
          /\ FileIs(view', EntryIn(view', call.clust, call.slot), call.promise)
      BY <1>3, <1>5, <3>1, <3>2, RenamedEntryIs DEF FileIs
    <3>4. call.clust \in Chain(view', call.dir)
      BY <1>1, <1>4
    <3> QED BY <1>2, <1>3, <3>3, <3>4, IntactIs
  <2>4. InBoth(view)'
    BY <2>1 DEF InBoth
  <2> QED BY <1>1, <1>2, <2>2, <2>3, <2>4 DEF Sure
<1>10. Sure(card)'
  BY <1>1, <1>2, CardStays DEF SameWork
<1>11. FreeApart'
  BY <1>1, <1>4 DEF Held, FreeApart
<1> QED BY <1>2, <1>7, <1>8, <1>9, <1>10, <1>11, RenameKnown DEF Held

LEMMA RemoveHeld == Typed /\ Held /\ Remove => Held'
BY RemoveIs, UnlinkHeld, RenamedHeld

-----------------------------------------------------------------------------
(* The window is written to the card, or read.                             *)

\* What is known of a call that does not depend on the card or on the window.
KnownOfView ==
  /\ KnowHere /\ KnowRaw /\ KnowSearch /\ KnowRoom /\ KnowBlank
  /\ KnowFile  /\ KnowOld /\ KnowEmpty /\ KnowDirs /\ KnowNames /\ KnowPromise

LEMMA KnownOfViewStays ==
  ASSUME KnownOfView, UNCHANGED <<view, pc, call, open, crossed, raw, kept>>
  PROVE  KnownOfView'
<1>1. KnowHere' /\ KnowRaw' /\ KnowSearch' /\ KnowRoom'
  BY DEF KnownOfView, KnowHere, KnowRaw, KnowSearch, KnowRoom, Stretching, Opened, Here
<1>2. KnowBlank' /\ KnowFile' /\ KnowOld' /\ KnowEmpty'
  BY DEF KnownOfView, KnowBlank, KnowFile, KnowOld, KnowEmpty, Filling, Opened, Here,
         Found, Ents
<1>3. KnowDirs' /\ KnowNames' /\ KnowPromise'
  BY DEF KnownOfView, KnowDirs, KnowNames, KnowPromise, Renaming
<1> QED BY <1>1, <1>2, <1>3 DEF KnownOfView

\* A loose chain is outside of what ff.c sees in use.
LEMMA LooseOnView ==
  ASSUME NEW m, NEW X, NEW r, Whole(m, X, r), NEW k, NEW h, Loose(m, k, h)
  PROVE  Loose(m, m, h)
BY LooseIsOutside DEF Loose

LEMMA FlushHeld == Typed /\ CardBehindWindow /\ Held /\ Flush => Held'
<1> SUFFICES ASSUME Typed, CardBehindWindow, Held, Flush PROVE Held'
  OBVIOUS
<1>1. /\ card' = view /\ view' = view /\ pc' = pc /\ call' = call /\ open' = open
      /\ crossed' = crossed /\ raw' = raw /\ kept' = kept
  <2>1. card' = Written /\ wflag
    BY DEF Flush
  <2>2. Written = view
    BY <2>1, CardIsView
  <2> QED BY <2>1, <2>2 DEF Flush, history
<1>2. Sure(view)
  BY DEF Held
<1>3. Sure(view)'
  <2>1. Twice(view)' = Twice(view)
    BY <1>1 DEF Twice, Renamed, Renaming
  <2>2. Promised(view)' <=> Promised(view)
    BY <1>1 DEF Promised
  <2>3. InBoth(view)' <=> InBoth(view)
    BY <1>1 DEF InBoth, Renamed, Renaming
  <2> QED BY <1>1, <1>2, <2>1, <2>2, <2>3 DEF Sure
<1>4. Sure(card)'
  <2>1. Twice(card)' = Twice(view)
    BY <1>1 DEF Twice, Renamed, Renaming
  <2>2. Promised(card)' <=> Promised(view)
    BY <1>1 DEF Promised
  <2>3. InBoth(card)' <=> InBoth(view)
    BY <1>1 DEF InBoth, Renamed, Renaming
  <2> QED BY <1>1, <1>2, <2>1, <2>2, <2>3 DEF Sure
<1>5. PICK X : Whole(view, X, raw)
  BY <1>2 DEF Sure
<1>6. FreeApart'
  BY <1>1, <1>5, FreeIsOutside DEF FreeApart
<1>7. \A h : Loose(view, card, h) => Loose(view, view, h)
  BY <1>5, LooseOnView
<1>8. KnownOfView'
  <2>1. KnownOfView
    BY DEF Held, Known, KnownOfView
  <2> QED BY <1>1, <2>1, KnownOfViewStays
<1>9. KnowLink' /\ KnowMade'
  <2>1. KnowLink /\ KnowMade
    BY DEF Held, Known
  <2>2. \A h : Fresh(view, card, h) => Fresh(view, view, h)
    BY <1>7 DEF Fresh
  <2>3. KnowLink'
    BY <1>1, <2>1, <2>2 DEF KnowLink, Filling, Opened, Here
  <2>4. KnowMade'
    BY <1>1, <2>1, <2>2 DEF KnowMade
  <2> QED BY <2>3, <2>4
<1>10. KnowText'
  <2>1. KnowText
    BY DEF Held, Known
  <2> QED BY <1>1, <1>7, <2>1 DEF KnowText, Filling, Opened, Here
<1>11. KnowFree'
  <2>1. KnowFree
    BY DEF Held, Known
  <2>2. ASSUME NEW h, Head(view, h), ~Lead(view, h), AllBare(view, h)
        PROVE  \A c \in Chain(view, h) : Outside(view, c)
    BY <1>5, <2>2, LooseIsOutside DEF AllBare
  <2> QED BY <1>1, <2>1, <2>2 DEF KnowFree
<1> QED BY <1>3, <1>4, <1>6, <1>8, <1>9, <1>10, <1>11 DEF Held, Known, KnownOfView

\* A step that leaves the volume, the card and the call alone.
LEMMA StillHeld ==
  ASSUME Held, UNCHANGED <<view, card, pc, call, open, crossed, raw, kept>>,
         \/ ~wflag
         \/ wflag' = wflag /\ win' = win
  PROVE  Held'
<1>1. Sure(view)'
  <2>1. Twice(view)' = Twice(view)
    BY DEF Twice, Renamed, Renaming
  <2>2. Promised(view)' <=> Promised(view)
    BY DEF Promised
  <2>3. InBoth(view)' <=> InBoth(view)
    BY DEF InBoth, Renamed, Renaming
  <2> QED BY <2>1, <2>2, <2>3 DEF Held, Sure
<1>2. Sure(card)'
  <2>1. Twice(card)' = Twice(card)
    BY DEF Twice, Renamed, Renaming
  <2>2. Promised(card)' <=> Promised(card)
    BY DEF Promised
  <2>3. InBoth(card)' <=> InBoth(card)
    BY DEF InBoth, Renamed, Renaming
  <2> QED BY <2>1, <2>2, <2>3 DEF Held, Sure
<1>3. FreeApart'
  BY DEF Held, FreeApart
<1>4. KnownOfView'
  <2>1. KnownOfView
    BY DEF Held, Known, KnownOfView
  <2> QED BY <2>1, KnownOfViewStays
<1>5. KnowLink' /\ KnowMade'
  BY DEF Held, Known, KnowLink, KnowMade, Filling, Opened, Here
<1>6. KnowText'
  BY DEF Held, Known, KnowText, Filling, Opened, Here
<1>7. KnowFree'
  BY DEF Held, Known, KnowFree
<1> QED BY <1>1, <1>2, <1>3, <1>4, <1>5, <1>6, <1>7 DEF Held, Known, KnownOfView

LEMMA LoadHeld == Typed /\ Held /\ Load => Held'
BY StillHeld DEF Load, history

-----------------------------------------------------------------------------
(* Errors of the disk, and power failures.                                 *)

\* A place is an entry in use, in a directory that can be reached.
LEMMA PlaceIs ==
  ASSUME NEW m, VolumeTyped(m), NEW d \in Dirs(m), NEW c \in Chain(m, d), NEW s \in Slots,
         UsedIn(m, c, s)
  PROVE  <<d, c, s>> \in Places(m) /\ EntryAt(m, <<d, c, s>>) = EntryIn(m, c, s)
<1>1. <<d, c, s>> \in UNION {{x} \X Chain(m, x) \X Slots : x \in Dirs(m)}
  OBVIOUS
<1>2. <<d, c, s>>[2] = c /\ <<d, c, s>>[3] = s
  OBVIOUS
<1> QED BY <1>1, <1>2 DEF Places, EntryAt, EntryIn, UsedIn

LEMMA PlacesFinite ==
  ASSUME NEW m, VolumeTyped(m)
  PROVE  IsFiniteSet(Places(m))
<1>1. IsFiniteSet(Clusters) /\ IsFiniteSet(Slots)
  <2>1. 1 \in Int /\ ENTS \in Int
    BY FatAssumption
  <2> QED BY <2>1, ClustersCount, FS_Interval DEF Slots
<1>2. IsFiniteSet(Clusters \X Slots)
  BY <1>1, FS_Product
<1>3. IsFiniteSet(Clusters \X (Clusters \X Slots))
  BY <1>1, <1>2, FS_Product
<1> DEFINE R == [p \in Places(m) |-> <<p[1], <<p[2], p[3]>>>>]
<1>4. \A p \in Places(m) : p[1] \in Clusters /\ p[2] \in Clusters /\ p[3] \in Slots
                           /\ p = <<p[1], p[2], p[3]>>
  <2> TAKE p \in Places(m)
  <2>1. PICK d \in Dirs(m) : p \in {d} \X Chain(m, d) \X Slots
    BY DEF Places
  <2>2. d \in Clusters /\ Chain(m, d) \subseteq Clusters
    BY DirsAre, ChainIs, TypedIsLinked
  <2> QED BY <2>1, <2>2
<1>5. R \in [Places(m) -> Clusters \X (Clusters \X Slots)]
  BY <1>4
<1>6. \A p, q \in Places(m) : R[p] = R[q] => p = q
  <2> TAKE p, q \in Places(m)
  <2> HAVE R[p] = R[q]
  <2>1. p[1] = q[1] /\ p[2] = q[2] /\ p[3] = q[3]
    OBVIOUS
  <2> QED BY <1>4, <2>1
<1>7. R \in Injection(Places(m), Clusters \X (Clusters \X Slots))
  <2> HIDE DEF R
  <2> QED BY <1>5, <1>6 DEF Injection, IsInjective
<1> QED
  <2> HIDE DEF R
  <2> QED BY <1>3, <1>7, FS_Injection

\* A rename of which both names are on a volume is seen to have both.
LEMMA TwoPlaces ==
  ASSUME Typed, KnowNames, NEW STATE m, VolumeTyped(m), Renamed(m), InBoth(m)
  PROVE  BothOn(m)
<1> DEFINE p == <<call.odir, call.oclust, call.oslot>>
<1> DEFINE q == <<call.dir, call.clust, call.slot>>
<1> DEFINE both == {x \in Places(m) : EntryAt(m, x).start = call.entry.start}
<1>1. /\ call.odir \in Dirs(m) /\ call.dir \in Dirs(m)
      /\ call.oclust \in Chain(m, call.odir) /\ call.clust \in Chain(m, call.dir)
      /\ call.cmd = "rnto" /\ call.entry.start # 0 /\ Renaming
      /\ UsedIn(m, call.oclust, call.oslot) /\ UsedIn(m, call.clust, call.slot)
      /\ EntryIn(m, call.oclust, call.oslot).start = call.entry.start
      /\ EntryIn(m, call.clust, call.slot).start = call.entry.start
  BY DEF InBoth, Renamed, Renaming
<1>2. call.odir # 0
  BY <1>1, DirsAre, Zeros
<1>3. call.oslot \in Slots /\ call.slot \in Slots
      /\ (call.clust # call.oclust \/ call.slot # call.oslot)
  BY <1>1, <1>2 DEF KnowNames, Typed, StepTyped
<1>4. p \in both /\ q \in both /\ p # q
  <2>1. p \in Places(m) /\ EntryAt(m, p) = EntryIn(m, call.oclust, call.oslot)
    BY <1>1, <1>3, PlaceIs
  <2>2. q \in Places(m) /\ EntryAt(m, q) = EntryIn(m, call.clust, call.slot)
    BY <1>1, <1>3, PlaceIs
  <2>3. p # q
    BY <1>3
  <2> HIDE DEF p, q
  <2> QED BY <1>1, <2>1, <2>2, <2>3
<1>5. IsFiniteSet(both) /\ Cardinality(both) \in Nat
  <2>1. both \in SUBSET Places(m)
    OBVIOUS
  <2>2. IsFiniteSet(Places(m))
    BY PlacesFinite
  <2> HIDE DEF both
  <2> QED BY <2>1, <2>2, FS_Subset, FS_CardinalityType
<1>6. Cardinality(both) > 1
  <2> HIDE DEF p, q, both
  <2>1. Cardinality(both) # 0
    BY <1>4, <1>5, FS_EmptySet
  <2>2. Cardinality(both) # 1
    <3> SUFFICES ASSUME Cardinality(both) = 1 PROVE FALSE
      OBVIOUS
    <3>1. PICK x : both = {x}
      BY <1>5, FS_Singleton
    <3> QED BY <1>4, <3>1
  <2> QED BY <1>5, <2>1, <2>2
<1> QED BY <1>1, <1>6 DEF BothOn

\* What a volume keeps when a call ends in the middle.
LEMMA LeftPlain ==
  ASSUME Typed, KnowNames, NEW STATE m, VolumeTyped(m), Sure(m),
         NEW x, x \in BOOLEAN, crossed => x, BothOn(m) => x
  PROVE  Plain(m, x, raw, kept)
<1>1. Whole(m, Twice(m), raw) /\ InBoth(m) /\ (~crossed => FilesHold(m, kept))
  BY DEF Sure
<1>2. CASE x
  <2>1. Twice(m) \subseteq Clusters
    <3>1. call.entry.start \in Starts
      <4>1. call.entry \in Entry
        BY DEF Typed, CallTyped, Locals
      <4> QED BY <4>1 DEF Entry
    <3> QED BY <3>1, Zeros DEF Twice, Renamed
  <2>2. Whole(m, Clusters, raw)
    BY <1>1, <2>1, WholeMore
  <2> QED BY <1>2, <2>2 DEF Plain
<1>3. CASE ~x
  <2>1. ~Renamed(m)
    BY <1>1, <1>3, TwoPlaces
  <2>2. Twice(m) = {} /\ ~crossed
    BY <1>3, <2>1 DEF Twice
  <2> QED BY <1>1, <1>3, <2>2 DEF Plain
<1> QED BY <1>2, <1>3

\* An error ends the call, closes the file or frees the cluster.
LEMMA FaultHeld ==
  ASSUME Typed, Held, Fault, pc # "found"
  PROVE  Held'
<1>1. GivesUp /\ view' = view /\ card' = card /\ kept' = kept /\ raw' = raw /\ open' = open
  BY DEF Fault
<1>2. KnowNames /\ Sure(view) /\ Sure(card) /\ FreeApart
  BY DEF Held, Known
<1>3. FreeApart'
  BY <1>1, <1>2 DEF FreeApart
<1>4. CASE Return /\ crossed' = (crossed \/ BothOn(view) \/ BothOn(card))
  <2>1. VolumeTyped(view) /\ VolumeTyped(card)
    BY DEF Typed, DiskTyped
  <2>2. crossed' \in BOOLEAN /\ (crossed => crossed') /\ (BothOn(view) => crossed')
        /\ (BothOn(card) => crossed')
    BY <1>4 DEF Typed, HistoryTyped
  <2>3. Plain(view, crossed', raw, kept) /\ Plain(card, crossed', raw, kept)
    BY <1>2, <2>1, <2>2, LeftPlain
  <2>4. ~Renaming' /\ call'.promise = NoPromise
    BY <1>4 DEF Return, NoCall, Renaming
  <2>5. Sure(view)' /\ Sure(card)'
    BY <1>1, <2>3, <2>4, PlainSure
  <2>6. Known'
    BY <1>4, IdleKnown
  <2> QED BY <1>3, <2>5, <2>6 DEF Held
<1>5. CASE /\ Opened /\ pc \notin {"close", "sync"}
           /\ pc' = "close" /\ call' = call /\ crossed' = crossed
  <2>1. call.cmd = "stor" /\ open = Here /\ pc # "idle" /\ ~Renaming
    BY <1>5 DEF Opened, Typed, CallTyped, Renaming
  <2>2. open # NoPlace /\ call.slot \in Slots
    <3>1. open # NoPlace
      BY <2>1, InCall, Zeros DEF Here, NoPlace
    <3> QED BY <2>1, <3>1 DEF Typed, CallTyped, Here
  <2>3. pc \in Taking \cup Writing
    <3>1. pc \in Searching => call.slot = 0
      BY <2>1 DEF Typed, StorTyped
    <3>2. 0 \notin Slots
      BY FatAssumption DEF Slots
    <3>3. pc \notin Searching
      BY <2>2, <3>1, <3>2
    <3>4. pc \in Searching \cup Entering \cup Taking \cup Writing
                 \cup {"found", "free", "reopen", "sync"}
      BY <2>1 DEF Typed, StorTyped
    <3>5. pc \notin Entering \cup {"free", "reopen"}
      BY <2>1, <2>2 DEF Typed, StorTyped
    <3> QED BY <1>5, <3>3, <3>4, <3>5
  <2>4. Filling /\ Opened' /\ pc' \in Writing /\ pc' \notin Taking
    BY <1>1, <1>5, <2>3 DEF Filling, Opened, Here, Writing, Taking
  <2>5. raw = {}
    BY <2>3, InCall DEF Taking, Writing
  <2>6. KnowHere /\ KnowText /\ KnowFile /\ KnowPromise
    BY DEF Held, Known
  <2>7. KnowHere' /\ KnowRaw' /\ KnowLink' /\ KnowPromise'
    BY <1>1, <1>5, <2>1, <2>5, <2>6 DEF KnowHere, KnowRaw, KnowLink, KnowPromise
  <2>8. KnowText'
    BY <1>1, <1>5, <2>4, <2>6 DEF KnowText
  <2>9. KnowFile'
    BY <1>1, <1>5, <2>4, <2>6 DEF KnowFile, Found, Ents, Filling
  <2>10. Known'
    BY <2>4, <2>7, <2>8, <2>9, FillKnown
  <2>11. ~Renaming' /\ call'.promise = NoPromise
    BY <1>5, <2>1, <2>6 DEF Renaming, KnowPromise
  <2> QED BY <1>1, <1>5, <2>1, <2>10, <2>11, QuietSure DEF Held
<1>6. CASE /\ call.cmd = "mkd" /\ call.dcl # 0 /\ pc \notin {"free", "sync"}
           /\ pc' = "free" /\ call' = [call EXCEPT !.clst = call.dcl] /\ crossed' = crossed
  <2>1. pc # "idle" /\ ~Renaming
    BY <1>6 DEF Typed, CallTyped, Renaming
  <2>2. call \in Locals
    BY DEF Typed, CallTyped
  <2>3. /\ call'.cmd = "mkd" /\ call'.clst = call.dcl /\ call'.dir = call.dir
        /\ call'.clust = call.clust /\ call'.promise = call.promise
    BY <1>6, <2>2 DEF Locals
  <2>4. KnowHere /\ KnowRaw /\ KnowPromise /\ KnowMade
    BY DEF Held, Known
  <2>5. KnowHere' /\ KnowRaw' /\ KnowPromise' /\ KnowBlank' /\ KnowFile'
    BY <1>1, <1>6, <2>1, <2>3, <2>4 DEF KnowHere, KnowRaw, KnowPromise, KnowBlank,
                                        KnowFile, Renaming
  <2>6. Loose(view, card, call.dcl)
    BY <1>6, <2>4 DEF KnowMade, Fresh
  <2>7. KnowFree'
    <3>1. /\ Head(view, call.dcl) /\ ~Lead(view, call.dcl) /\ AllBare(view, call.dcl)
          /\ \A c \in Chain(view, call.dcl) : Outside(card, c)
      BY <2>6 DEF Loose, AllBare
    <3> QED BY <1>1, <2>3, <3>1 DEF KnowFree
  <2>8. ~Renaming' /\ call'.promise = NoPromise
    BY <1>6, <2>1, <2>3, <2>4 DEF Renaming, KnowPromise
  <2>9. Known'
    BY <1>6, <2>3, <2>5, <2>7, RestKnown
  <2> QED BY <1>1, <1>6, <2>1, <2>8, <2>9, QuietSure DEF Held
<1> QED BY <1>1, <1>4, <1>5, <1>6 DEF GivesUp

LEMMA TroubleHeld == Typed /\ Held /\ (FlushFails \/ LoadFails \/ StorWholeFails) => Held'
<1> SUFFICES ASSUME Typed, Held, FlushFails \/ LoadFails \/ StorWholeFails PROVE Held'
  OBVIOUS
<1>1. Fault
  BY DEF FlushFails, LoadFails, StorWholeFails
<1>2. pc # "found"
  <2>1. pc = "found" => ~Elsewhere /\ pc \notin Syncing
    BY DEF Elsewhere, Needs, InDir, InFat, Syncing
  <2> QED BY <2>1 DEF FlushFails, LoadFails, StorWholeFails, At
<1> QED BY <1>1, <1>2, FaultHeld

\* Of the clusters a table has, only those with a link to them are looked at.
LEMMA RawLed ==
  ASSUME NEW m, NEW X, NEW r, Whole(m, X, r),
         NEW q, q = {c \in r : \E b \in Clusters : m.fat[b] = c}
  PROVE  Whole(m, X, q)
<1>1. TablesHold(m, q)
  <2> SUFFICES ASSUME NEW d \in Clusters, DirHead(m, d), NEW c \in Chain(m, d)
               PROVE  m.data[c].text = Tab \/ (c \in q /\ c # d)
    BY DEF TablesHold
  <2>1. m.data[c].text = Tab \/ (c \in r /\ c # d)
    BY DEF Whole, TablesHold
  <2>2. ASSUME c # d PROVE \E b \in Clusters : m.fat[b] = c
    <3>1. Linked(m) /\ Chain(m, d) \subseteq Clusters
      BY LeadIsHead, ChainIs
    <3> QED BY <2>2, <3>1, ChainLed
  <2> QED BY <2>1, <2>2
<1> QED BY <1>1 DEF Whole

LEMMA CrashHeld == Typed /\ Held /\ Crash => Held'
<1> SUFFICES ASSUME Typed, Held, Crash PROVE Held'
  OBVIOUS
<1>1. /\ view' = card /\ card' = card /\ kept' = kept /\ Return
      /\ crossed' = (crossed \/ BothOn(card))
      /\ raw' = {c \in raw : \E b \in Clusters : card.fat[b] = c}
  BY DEF Crash
<1>2. KnowNames /\ Sure(card) /\ VolumeTyped(card)
  BY DEF Held, Known, Typed, DiskTyped
<1>3. Plain(card, crossed', raw, kept)
  <2>1. crossed' \in BOOLEAN /\ (crossed => crossed') /\ (BothOn(card) => crossed')
    BY <1>1 DEF Typed, HistoryTyped
  <2> QED BY <1>2, <2>1, LeftPlain
<1>4. Plain(card, crossed', raw', kept)
  BY <1>1, <1>3, RawLed DEF Plain
<1>5. ~Renaming' /\ call'.promise = NoPromise
  BY <1>1 DEF Return, NoCall, Renaming
<1>6. Sure(view)' /\ Sure(card)'
  BY <1>1, <1>4, <1>5, PlainSure
<1>7. FreeApart'
  BY <1>1, <1>4, FreeIsOutside DEF FreeApart, Plain
<1> QED BY <1>1, <1>6, <1>7, IdleKnown DEF Held

\* A formatted volume has one table, which is empty.
LEMMA FormattedWhole ==
  ASSUME NEW m, VolumeTyped(m),
         m.fat = [c \in Clusters |-> IF c = Root THEN EOC ELSE 0],
         m.data = [c \in Clusters |-> IF c = Root THEN Table(0) ELSE Datum(Old)]
  PROVE  Whole(m, {}, {})
<1>1. \A c \in Clusters : m.fat[c] \notin Clusters /\ (c = Root => m.fat[c] = EOC)
  BY LinkValues
<1>2. \A c \in Clusters, s \in Slots : EntryIn(m, c, s) = Unused("end")
  BY DEF EntryIn, Table, Datum
<1>3. \A c \in Clusters, s \in Slots : ~UsedIn(m, c, s)
  BY <1>2, FatAssumption DEF UsedIn, Used, Unused
<1>4. Linked(m)
  BY TypedIsLinked
<1>5. Head(m, Root) /\ Chain(m, Root) = {Root}
  <2>1. Chain(m, Root) = {Root} \cup Chain(m, m.fat[Root])
    BY <1>4, ClustersCount, ChainUnrolls
  <2>2. Chain(m, m.fat[Root]) = {}
    BY <1>1, <1>4, ClustersCount, ChainNone
  <2>3. Head(m, Root)
    BY <1>1, ClustersCount, LinkValues DEF Head
  <2> QED BY <2>1, <2>2, <2>3
<1>6. LinksHold(m)
  BY <1>1, <1>5 DEF LinksHold, Single
<1>7. EntriesHold(m) /\ EndMarksHold(m) /\ StartsHold(m, {})
  BY <1>1, <1>3 DEF EntriesHold, EndMarksHold, StartsHold
<1>8. \A d \in Clusters : DirHead(m, d) => d = Root
  BY <1>3 DEF DirHead
<1>9. \A d \in Clusters : DirHead(m, d) => \A c \in Chain(m, d) : c \in Clusters
  BY <1>4, ChainIs
<1>10. NamesHold(m) /\ UpsHold(m, {})
  BY <1>3, <1>9 DEF NamesHold, UpsHold
<1>11. TablesHold(m, {})
  <2>1. m.data[Root].text = Tab
    BY ClustersCount DEF Table
  <2> QED BY <1>5, <1>8, <2>1 DEF TablesHold
<1> QED BY <1>6, <1>7, <1>10, <1>11 DEF Whole

LEMMA InitHeld == Typed /\ Init => Held
<1> SUFFICES ASSUME Typed, Init PROVE Held
  OBVIOUS
<1>1. /\ card = view /\ raw = {} /\ crossed = FALSE
      /\ pc = "idle" /\ call = NoCall /\ VolumeTyped(view)
      /\ kept = [d \in Clusters |-> [n \in Names |-> NoPromise]]
  BY DEF Init, Typed, DiskTyped
<1>2. Whole(view, {}, {})
  BY <1>1, FormattedWhole DEF Init
<1>3. FilesHold(view, kept)
  BY <1>1 DEF FilesHold
<1>4. call.cmd = "none" /\ call.odir = 0 /\ call.promise = NoPromise
  BY <1>1 DEF NoCall
<1>5. Sure(view)
  <2>1. ~Renamed(view)
    BY <1>1 DEF Renamed, Renaming
  <2>2. Twice(view) = {}
    BY <1>1, <2>1 DEF Twice
  <2> QED BY <1>1, <1>2, <1>3, <1>4, <2>1, <2>2 DEF Sure, Promised, InBoth
<1>6. Sure(card)
  BY <1>1, <1>5
<1>7. FreeApart
  BY <1>1, <1>2, FreeIsOutside DEF FreeApart
<1>8. KnowHere /\ KnowRaw /\ KnowSearch /\ KnowRoom /\ KnowLink /\ KnowText /\ KnowBlank
      /\ KnowFile
  BY <1>1, <1>4 DEF KnowHere, KnowRaw, KnowSearch, KnowRoom, KnowLink, KnowText, KnowBlank,
     KnowFile, Entering, Taking, Writing, Stretching, Filling
<1>9. KnowOld /\ KnowEmpty /\ KnowDirs /\ KnowNames /\ KnowPromise /\ KnowFree /\ KnowMade
  BY <1>1, <1>4 DEF KnowOld, KnowEmpty, KnowDirs, KnowNames, KnowPromise, KnowFree,
                    KnowMade,
     Renaming
<1> QED BY <1>5, <1>6, <1>7, <1>8, <1>9 DEF Held, Known

\* A volume that is no more used.
LEMMA StoppedHeld == Held /\ UNCHANGED vars => Held'
BY StillHeld DEF vars, diskVars, history

\* The inductive invariant: what a call knows of the volume at each step, that what
\* ff.c sees and the card are whole, and that what is free in the FAT is in no use
\* on the card; through errors of the disk and power failures.
THEOREM SpecHeld == Spec => []Held
<1>1. Typed /\ Inv /\ Held /\ [Next]_vars => Held'
  <2> SUFFICES ASSUME Typed, Inv, Held, [Next]_vars PROVE Held'
    OBVIOUS
  <2>1. CardBehindWindow /\ FoundInWindow
    BY DEF Inv
  <2>2. CASE Command
    BY <2>2, BeginHeld DEF Command
  <2>3. CASE Find \/ FindNext \/ Alloc \/ AllocNext \/ Scan \/ Link \/ Stretch \/ Stretched
    BY <2>1, <2>3, FindHeld, FindNextHeld, AllocHeld, AllocNextHeld, ScanHeld, LinkHeld,
       StretchHeld, StretchedHeld
  <2>4. CASE Free \/ Seek \/ StorFound \/ StorMissing \/ Reopen \/ Register \/ StorAbandoned
    BY <2>1, <2>4, FreeHeld, SeekHeld, StorFoundHeld, ToEntryHeld, ReopenHeld, RegisterHeld,
       RefusedHeld
  <2>5. CASE StorMore \/ More \/ StorWhole \/ StorPart \/ StorEnd \/ Close \/ Sync
    BY <2>1, <2>5, FillingHeld, StoredHeld, CloseHeld, SyncHeld
  <2>6. CASE UnlinkFound \/ UnlinkMissing \/ Empty \/ EmptyNext \/ Remove
    BY <2>6, UnlinkFoundHeld, RefusedHeld, EmptyHeld, RemoveHeld
  <2>7. CASE MkdFound \/ MkdMissing \/ MkdTable \/ MkdDots \/ RntoFound \/ RntoMissing \/ Dotdot
    BY <2>7, RefusedHeld, MkdMissingHeld, MkdTableHeld, ToEntryHeld, RntoFoundHeld, DotdotHeld
  <2>8. CASE Flush \/ Load \/ FlushFails \/ LoadFails \/ StorWholeFails \/ Crash
    BY <2>1, <2>8, FlushHeld, LoadHeld, TroubleHeld, CrashHeld
  <2>9. CASE Stopped \/ UNCHANGED vars
    BY <2>9, StoppedHeld DEF Stopped
  <2> QED BY <2>2, <2>3, <2>4, <2>5, <2>6, <2>7, <2>8, <2>9 DEF Next, Step
<1>2. Typed /\ Init => Held
  BY InitHeld
<1> QED BY <1>1, <1>2, SpecTyped, SpecInv, PTL DEF Spec

-----------------------------------------------------------------------------
(* What the runs check follows from the invariant.                         *)

\* What a whole volume says of a place.
LEMMA WholeIsSound ==
  ASSUME NEW m, NEW X, NEW r, Whole(m, X, r), NEW p \in Places(m)
  PROVE  /\ p[1] \in Dirs(m) /\ DirHead(m, p[1]) /\ p[2] \in Chain(m, p[1]) /\ p[2] \in Clusters
         /\ p[3] \in Slots /\ p = <<p[1], p[2], p[3]>>
         /\ EntryAt(m, p) = EntryIn(m, p[2], p[3]) /\ UsedIn(m, p[2], p[3])
         /\ EntryAt(m, p).start # 0 =>
              Head(m, EntryAt(m, p).start) /\ EntryAt(m, p).start # Root
         /\ EntryAt(m, p).start = 0 => Chain(m, EntryAt(m, p).start) = {}
         /\ EntryAt(m, p).size <= Cardinality(Chain(m, EntryAt(m, p).start))
<1>1. PICK d \in Dirs(m) : p \in {d} \X Chain(m, d) \X Slots
  BY DEF Places
<1>2. /\ p[1] = d /\ p[2] \in Chain(m, d) /\ p[3] \in Slots /\ p = <<p[1], p[2], p[3]>>
  BY <1>1
<1>3. VolumeTyped(m) /\ Linked(m)
  BY LeadIsHead DEF Whole
<1>4. DirHead(m, d) /\ Chain(m, d) \subseteq Clusters
  BY <1>3, DirsAreHeads, DirsAre, ChainIs
<1>5. EntryAt(m, p) = EntryIn(m, p[2], p[3]) /\ UsedIn(m, p[2], p[3])
  BY DEF Places, EntryAt, EntryIn, UsedIn
<1>6. EntryHolds(m, EntryAt(m, p))
  BY <1>2, <1>4, <1>5 DEF Whole, EntriesHold
<1>7. EntryAt(m, p).start = 0 => Chain(m, EntryAt(m, p).start) = {}
  BY <1>3, ChainNone, Zeros
<1> QED BY <1>2, <1>4, <1>5, <1>6, <1>7 DEF EntryHolds

\* Two places have one chain only if it is one of the exceptions.
LEMMA PlacesApart ==
  ASSUME NEW m, NEW X, NEW r, Whole(m, X, r), NEW p \in Places(m), NEW q \in Places(m), p # q,
         Chain(m, EntryAt(m, p).start) \cap Chain(m, EntryAt(m, q).start) # {}
  PROVE  EntryAt(m, p).start = EntryAt(m, q).start /\ EntryAt(m, p).start \in X
<1> DEFINE a == EntryAt(m, p).start
<1> DEFINE b == EntryAt(m, q).start
<1>1. /\ p[1] \in Dirs(m) /\ DirHead(m, p[1]) /\ p[2] \in Chain(m, p[1]) /\ p[2] \in Clusters
      /\ p[3] \in Slots /\ p = <<p[1], p[2], p[3]>>
      /\ a = EntryIn(m, p[2], p[3]).start /\ UsedIn(m, p[2], p[3])
      /\ a # 0 => Head(m, a)
      /\ a = 0 => Chain(m, a) = {}
  BY WholeIsSound
<1>2. /\ q[1] \in Dirs(m) /\ DirHead(m, q[1]) /\ q[2] \in Chain(m, q[1]) /\ q[2] \in Clusters
      /\ q[3] \in Slots /\ q = <<q[1], q[2], q[3]>>
      /\ b = EntryIn(m, q[2], q[3]).start /\ UsedIn(m, q[2], q[3])
      /\ b # 0 => Head(m, b)
      /\ b = 0 => Chain(m, b) = {}
  BY WholeIsSound
<1> HIDE DEF a, b
<1>3. PICK x : x \in Chain(m, a) /\ x \in Chain(m, b)
  BY DEF a, b
<1>4. a # 0 /\ b # 0
  BY <1>1, <1>2, <1>3
<1>5. a = b
  BY <1>1, <1>2, <1>3, <1>4, LeadsApart
<1>6. p[2] # q[2] \/ p[3] # q[3]
  <2> SUFFICES ASSUME p[2] = q[2], p[3] = q[3] PROVE FALSE
    OBVIOUS
  <2>1. Head(m, p[1]) /\ Head(m, q[1])
    BY <1>1, <1>2, LeadIsHead
  <2>2. p[1] = q[1]
    BY <1>1, <1>2, <2>1, LeadsApart
  <2> QED BY <1>1, <1>2, <2>2
<1>7. StartsHold(m, X)
  BY DEF Whole
<1>8. a \in X
  <2>1. ASSUME NEW c \in Clusters, NEW d \in Clusters, NEW s \in Slots, NEW t \in Slots,
               UsedIn(m, c, s), UsedIn(m, d, t), EntryIn(m, c, s).start = a,
               EntryIn(m, d, t).start = a, c # d \/ s # t
        PROVE  a \in X
    BY <1>4, <1>7, <2>1 DEF StartsHold
  <2>2. /\ p[2] \in Clusters /\ q[2] \in Clusters /\ p[3] \in Slots /\ q[3] \in Slots
        /\ UsedIn(m, p[2], p[3]) /\ UsedIn(m, q[2], q[3])
        /\ EntryIn(m, p[2], p[3]).start = a /\ EntryIn(m, q[2], q[3]).start = a
    BY <1>1, <1>2, <1>5
  <2> QED BY <1>6, <2>1, <2>2
<1> QED BY <1>5, <1>8 DEF a, b

\* Leaving out what the raw clusters hold takes entries away, and nothing else.
LEMMA BlindIs ==
  ASSUME NEW STATE m, VolumeTyped(m), NEW n, n = WithoutRaw(m)
  PROVE  /\ VolumeTyped(n) /\ n.fat = m.fat
         /\ \A c : Chain(n, c) = Chain(m, c)
         /\ \A c \in Clusters, s \in Slots :
              UsedIn(n, c, s) => EntryIn(n, c, s) = EntryIn(m, c, s)
<1> DEFINE none == Table(0).ents
<1>1. none \in [Slots -> Entry] /\ \A s \in Slots : ~Used(none[s]) /\ none[s].kind = "file"
  BY TableIs DEF Starts, Content
<1> HIDE DEF none
<1>2. n = [m EXCEPT !.data = [c \in Clusters |->
             IF c \in raw THEN [m.data[c] EXCEPT !.ents = none] ELSE m.data[c]]]
  BY DEF WithoutRaw, none
<1>3. m \in Volume /\ m.data \in [Clusters -> Content]
  BY DEF VolumeTyped, Volume
<1>4. n.fat = m.fat /\ \A c \in Clusters :
        n.data[c] = IF c \in raw THEN [m.data[c] EXCEPT !.ents = none] ELSE m.data[c]
  BY <1>2, <1>3 DEF Volume
<1>5. \A c \in Clusters : [m.data[c] EXCEPT !.ents = none] \in Content
  BY <1>1, <1>3 DEF Content
<1>6. n \in Volume
  BY <1>2, <1>3, <1>5 DEF Volume
<1>7. \A c \in Clusters : n.data[c].ents = IF c \in raw THEN none ELSE m.data[c].ents
  BY <1>3, <1>4 DEF Content
<1>8. VolumeTyped(n)
  BY <1>1, <1>6, <1>7 DEF VolumeTyped
<1>9. \A c \in Clusters, s \in Slots :
        UsedIn(n, c, s) => EntryIn(n, c, s) = EntryIn(m, c, s)
  BY <1>1, <1>7 DEF UsedIn, EntryIn
<1>10. \A c : Chain(n, c) = Chain(m, c)
  BY <1>4, <1>8, SameFat
<1> QED BY <1>4, <1>8, <1>9, <1>10

\* What is reached without them is reached with them.
LEMMA BlindDirs ==
  ASSUME NEW STATE m, VolumeTyped(m), NEW n, n = WithoutRaw(m)
  PROVE  Dirs(n) \subseteq Dirs(m) /\ \A d : EntriesOf(n, d) \subseteq EntriesOf(m, d)
<1>1. ASSUME NEW d, NEW e \in EntriesOf(n, d) PROVE e \in EntriesOf(m, d)
  <2>1. VolumeTyped(n) /\ Chain(n, d) = Chain(m, d)
    BY BlindIs
  <2>2. PICK c \in Chain(n, d), s \in Slots : e = n.data[c].ents[s]
    BY <2>1, EntriesAre
  <2>3. Used(e) /\ c \in Clusters
    BY <2>1, <2>2, EntriesAre, TypedIsLinked, ChainIs, ChainNone
  <2>4. e = m.data[c].ents[s]
    BY <2>2, <2>3, BlindIs DEF UsedIn, EntryIn
  <2> QED BY <2>1, <2>2, <2>3, <2>4, EntriesAre
<1>2. Root \in Dirs(m) /\ VolumeTyped(n)
  BY DirsAre, BlindIs
<1>3. \A d \in Dirs(m) : \A e \in EntriesOf(n, d) : e.kind = "dir" => e.start \in Dirs(m)
  BY <1>1, DirsAre
<1> QED BY <1>1, <1>2, <1>3, DirsWithin

LEMMA BlindPlaces ==
  ASSUME NEW STATE m, VolumeTyped(m), NEW n, n = WithoutRaw(m), NEW p \in Places(n)
  PROVE  p \in Places(m) /\ EntryAt(n, p) = EntryAt(m, p)
<1>1. PICK d \in Dirs(n) : p \in {d} \X Chain(n, d) \X Slots
  BY DEF Places
<1>2. Used(n.data[p[2]].ents[p[3]])
  BY DEF Places
<1>3. /\ p[2] \in Chain(n, d) /\ p[3] \in Slots /\ p = <<d, p[2], p[3]>>
  BY <1>1
<1>4. d \in Dirs(m) /\ Chain(n, d) = Chain(m, d) /\ p[2] \in Clusters
  BY <1>3, BlindDirs, BlindIs, TypedIsLinked, ChainIs, ChainNone
<1>5. UsedIn(n, p[2], p[3]) /\ EntryIn(n, p[2], p[3]) = EntryIn(m, p[2], p[3])
  BY <1>2, <1>3, <1>4, BlindIs DEF UsedIn, EntryIn
<1>6. UsedIn(m, p[2], p[3])
  BY <1>5 DEF UsedIn
<1>7. <<d, p[2], p[3]>> \in Places(m)
  BY <1>3, <1>4, <1>6, PlaceIs
<1> QED BY <1>3, <1>5, <1>7 DEF EntryAt, EntryIn

\* Sound is what the property ChainsSound asks of a volume.
LEMMA SureIsSound ==
  ASSUME NEW STATE m, Sure(m), NEW n, n = WithoutRaw(m)
  PROVE  Sound(n)
<1> DEFINE X == Twice(m)
<1>1. Whole(m, X, raw)
  BY DEF Sure
<1>2. \A c : c \in X => Renaming \/ crossed
  BY DEF Twice, Renamed
<1> HIDE DEF X
<1>3. Linked(m) /\ LinksHold(m) /\ Head(m, Root)
  BY <1>1, LeadIsHead DEF Whole, LinksHold
<1>4. Ends(m, Root)
  BY <1>3, ChainEnds
<1>5. ASSUME NEW p \in Places(m)
      PROVE  /\ EntryAt(m, p).start = 0 \/ Ends(m, EntryAt(m, p).start)
             /\ EntryAt(m, p).size <= Cardinality(Chain(m, EntryAt(m, p).start))
             /\ Chain(m, EntryAt(m, p).start) \cap Chain(m, Root) = {}
  <2>1. /\ EntryAt(m, p).start # 0 =>
             Head(m, EntryAt(m, p).start) /\ EntryAt(m, p).start # Root
        /\ EntryAt(m, p).start = 0 => Chain(m, EntryAt(m, p).start) = {}
        /\ EntryAt(m, p).size <= Cardinality(Chain(m, EntryAt(m, p).start))
    BY <1>1, WholeIsSound
  <2>2. EntryAt(m, p).start # 0 => Ends(m, EntryAt(m, p).start)
    BY <1>3, <2>1, ChainEnds
  <2>3. Chain(m, EntryAt(m, p).start) \cap Chain(m, Root) = {}
    BY <1>1, <1>3, <2>1, LeadsApart
  <2> QED BY <2>1, <2>2, <2>3
<1>6. ASSUME NEW p \in Places(m), NEW q \in Places(m), p # q
      PROVE  \/ Chain(m, EntryAt(m, p).start) \cap Chain(m, EntryAt(m, q).start) = {}
             \/ EntryAt(m, p).start = EntryAt(m, q).start /\ (Renaming \/ crossed)
  BY <1>1, <1>2, <1>6, PlacesApart
<1>7. \A p \in Places(m) :
        /\ EntryAt(m, p).start = 0 \/ Ends(m, EntryAt(m, p).start)
        /\ EntryAt(m, p).size <= Cardinality(Chain(m, EntryAt(m, p).start))
        /\ Chain(m, EntryAt(m, p).start) \cap Chain(m, Root) = {}
        /\ \A q \in Places(m) \ {p} :
             \/ Chain(m, EntryAt(m, p).start) \cap Chain(m, EntryAt(m, q).start) = {}
             \/ EntryAt(m, p).start = EntryAt(m, q).start /\ (Renaming \/ crossed)
  BY <1>5, <1>6
<1>8. /\ n.fat = m.fat /\ \A c : Chain(n, c) = Chain(m, c)
      /\ \A p \in Places(n) : p \in Places(m) /\ EntryAt(n, p) = EntryAt(m, p)
  BY <1>1, BlindIs, BlindPlaces DEF Whole
<1>9. \A c : Ends(n, c) <=> Ends(m, c)
  BY <1>8 DEF Ends
<1>10. ASSUME NEW p \in Places(n)
       PROVE  /\ EntryAt(n, p).start = 0 \/ Ends(n, EntryAt(n, p).start)
              /\ EntryAt(n, p).size <= Cardinality(Chain(n, EntryAt(n, p).start))
              /\ Chain(n, EntryAt(n, p).start) \cap Chain(n, Root) = {}
  BY <1>7, <1>8, <1>9
<1>11. ASSUME NEW p \in Places(n), NEW q \in Places(n), p # q
       PROVE  \/ Chain(n, EntryAt(n, p).start) \cap Chain(n, EntryAt(n, q).start) = {}
              \/ EntryAt(n, p).start = EntryAt(n, q).start /\ (Renaming \/ crossed)
  BY <1>7, <1>8, <1>11
<1>12. Ends(n, Root)
  BY <1>4, <1>9
<1> QED BY <1>10, <1>11, <1>12 DEF Sound

\* The tables of a directory that can be reached.
LEMMA SureHasTables ==
  ASSUME NEW STATE m, Sure(m), NEW d \in Dirs(WithoutRaw(m))
  PROVE  /\ \A c \in Chain(m, d) : m.data[c].text = Tab \/ c \in raw
         /\ \A e \in EntriesOf(WithoutRaw(m), d) :
              e.kind = "dir" => m.data[e.start].up = d \/ Renaming \/ crossed
<1>1. Whole(m, Twice(m), raw) /\ VolumeTyped(m) /\ Linked(m)
  BY LeadIsHead DEF Sure, Whole
<1>2. \A c : c \in Twice(m) => Renaming \/ crossed
  BY DEF Twice, Renamed
<1>3. d \in Clusters /\ DirHead(m, d) /\ Chain(m, d) \subseteq Clusters
  BY <1>1, BlindDirs, DirsAre, DirsAreHeads, ChainIs
<1>4. \A c \in Chain(m, d) : m.data[c].text = Tab \/ c \in raw
  BY <1>1, <1>3 DEF Whole, TablesHold
<1>5. ASSUME NEW e \in EntriesOf(m, d), e.kind = "dir"
      PROVE  m.data[e.start].up = d \/ Renaming \/ crossed
  <2>1. PICK c \in Chain(m, d), s \in Slots : e = EntryIn(m, c, s) /\ UsedIn(m, c, s)
    BY <1>1, EntriesAre DEF EntryIn, UsedIn
  <2>2. m.data[e.start].up = d \/ e.start \in Twice(m)
    BY <1>1, <1>3, <1>5, <2>1 DEF Whole, UpsHold
  <2> QED BY <1>2, <2>2
<1> QED BY <1>1, <1>4, <1>5, BlindDirs

\* A call is in directories, which have no raw sector while it looks at entries.
LEMMA EntriesInTables ==
  ASSUME Typed, Held, NEW c \in EntriesAt
  PROVE  view.data[c].text = Tab
<1>1. /\ pc \in InDir \cup {"found", "empty", "remove"} /\ raw = {}
      /\ \A d \in Clusters : DirHead(view, d) => \A b \in Chain(view, d) : view.data[b].text = Tab
  <2>1. pc \in InDir \cup {"found", "empty", "remove"}
    BY DEF EntriesAt
  <2>2. raw = {}
    BY <2>1 DEF Held, Known, KnowRaw, InDir
  <2>3. TablesHold(view, raw)
    BY DEF Held, Sure, Whole
  <2> QED BY <2>1, <2>2, <2>3 DEF TablesHold
<1>2. VolumeTyped(view)
  BY DEF Held, Sure, Whole
<1>3. CASE pc \in InDir \cup {"found"}
  <2>1. c = call.clust /\ DirHead(view, call.dir) /\ call.clust \in Chain(view, call.dir)
    BY <1>3 DEF EntriesAt, InDir, Held, Known, KnowHere
  <2>2. call.dir \in Clusters
    BY <1>2, <2>1, LeadIsHead, TypedIsLinked, ChainNone
  <2> QED BY <1>1, <2>1, <2>2
<1>4. CASE pc = "empty"
  <2> DEFINE h == call.entry.start
  <2>1. c = call.clst /\ call.cmd = "unlink"
    BY <1>4 DEF EntriesAt, InDir, Typed, CallTyped, StorTyped, OtherTyped, Locals, Searching,
                Entering, Taking, Writing, Removing
  <2>2. KnowOld /\ KnowEmpty
    BY DEF Held, Known
  <2>3. call.entry.kind = "dir" /\ h \in Clusters /\ call.odir # 0
    BY <1>4, <2>1 DEF Typed, OtherTyped, StepTyped
  <2>4. /\ EntryIn(view, call.oclust, call.oslot) = call.entry /\ call.oclust \in Clusters
        /\ call.oslot \in Slots /\ Used(call.entry)
    BY <1>4, <2>1, <2>2, <2>3 DEF KnowOld, Typed, StepTyped, Used
  <2>5. DirHead(view, h) /\ c \in Chain(view, h)
    BY <1>4, <2>1, <2>2, <2>3, <2>4 DEF DirHead, UsedIn, KnowEmpty
  <2> QED BY <1>1, <2>3, <2>5
<1>5. CASE pc = "remove"
  <2>1. c = call.oclust
    BY <1>5 DEF EntriesAt, InDir
  <2>2. DirHead(view, call.odir) /\ call.oclust \in Chain(view, call.odir)
    BY <1>5 DEF Held, Known, KnowOld, Typed, CallTyped, StorTyped, OtherTyped, StepTyped, Locals,
                Searching, Entering, Taking, Writing, Removing
  <2>3. call.odir \in Clusters
    BY <1>2, <2>2, TypedIsLinked, ChainNone
  <2> QED BY <1>1, <2>1, <2>2, <2>3
<1> QED BY <1>1, <1>3, <1>4, <1>5

\* Every chain of ff.c's FAT ends, no two entries share one, and none is shorter
\* than its file: on the card too, whatever a power failure takes away, but for
\* what a directory cluster leads to that was linked and not cleared.
THEOREM ChainsSoundThm == Spec => []ChainsSound
<1>1. Held => ChainsSound
  BY SureIsSound DEF Held, ChainsSound
<1> QED BY <1>1, SpecHeld, PTL

\* Directories are tables of entries, and .. leads to the parent: f_mkdir() and
\* the growing of a directory, each of whose steps can be the last; and a call that
\* looks for entries is in one of them.
THEOREM TablesSoundThm == Spec => []TablesSound
<1>1. Typed /\ Held => TablesSound
  BY SureHasTables, EntriesInTables DEF Held, TablesSound
<1> QED BY <1>1, SpecTyped, SpecHeld, PTL

\* What f_close() has stored stays on the card until a command names the file.
THEOREM ClosedFilesStayThm == Spec => []ClosedFilesStay
<1>1. Held => ClosedFilesStay
  BY DEF Held, Sure, FilesHold, Promised, ClosedFilesStay
<1> QED BY <1>1, SpecHeld, PTL

-----------------------------------------------------------------------------
(* What can be reached.                                                    *)

\* What is reached is the root, and what an entry of a directory leads to.
LEMMA ReachedIs ==
  ASSUME NEW m, VolumeTyped(m), NEW c
  PROVE  c \in Reached(m) <=>
           \/ c \in Chain(m, Root)
           \/ \E d \in Dirs(m) : \E b \in Chain(m, d), s \in Slots :
                UsedIn(m, b, s) /\ c \in Chain(m, EntryIn(m, b, s).start)
<1>1. ASSUME NEW p \in Places(m), c \in Chain(m, EntryAt(m, p).start)
      PROVE  \E d \in Dirs(m) : \E b \in Chain(m, d), s \in Slots :
               UsedIn(m, b, s) /\ c \in Chain(m, EntryIn(m, b, s).start)
  <2>1. PICK d \in Dirs(m) : p \in {d} \X Chain(m, d) \X Slots /\ Used(m.data[p[2]].ents[p[3]])
    BY DEF Places
  <2>2. p[2] \in Chain(m, d) /\ p[3] \in Slots
    BY <2>1
  <2> QED BY <1>1, <2>1, <2>2 DEF UsedIn, EntryIn, EntryAt
<1>2. ASSUME NEW d \in Dirs(m), NEW b \in Chain(m, d), NEW s \in Slots, UsedIn(m, b, s),
             c \in Chain(m, EntryIn(m, b, s).start)
      PROVE  \E p \in Places(m) : c \in Chain(m, EntryAt(m, p).start)
  <2>1. <<d, b, s>> \in Places(m) /\ EntryAt(m, <<d, b, s>>) = EntryIn(m, b, s)
    BY <1>2, PlaceIs
  <2> QED BY <1>2, <2>1
<1> QED BY <1>1, <1>2 DEF Reached

\* The clusters of a directory that is reached.
LEMMA DirsReached ==
  ASSUME NEW m, VolumeTyped(m), NEW d \in Dirs(m)
  PROVE  Chain(m, d) \subseteq Reached(m)
<1> DEFINE S == {e \in Dirs(m) : Chain(m, e) \subseteq Reached(m)}
<1>1. Root \in S
  BY DirsAre, ReachedIs
<1>2. ASSUME NEW e \in S, NEW x \in EntriesOf(m, e), x.kind = "dir"
      PROVE  x.start \in S
  <2>1. PICK b \in Chain(m, e), s \in Slots : x = m.data[b].ents[s]
    BY EntriesAre
  <2>2. Used(x)
    BY EntriesAre
  <2>3. UsedIn(m, b, s) /\ EntryIn(m, b, s) = x
    BY <2>1, <2>2 DEF UsedIn, EntryIn
  <2>4. Chain(m, x.start) \subseteq Reached(m)
    BY <2>1, <2>3, ReachedIs
  <2>5. x.start \in Dirs(m)
    BY <1>2, DirsAre
  <2> QED BY <2>4, <2>5
<1>3. Dirs(m) \subseteq S
  <2> HIDE DEF S
  <2> QED BY <1>1, <1>2, DirsWithin
<1> QED BY <1>3

\* Nothing gets out of reach when a volume grows.
LEMMA GrowsReached ==
  ASSUME NEW m, NEW n, NEW q, NEW X, NEW r, Whole(m, X, r), Grows(m, n, q, X)
  PROVE  Reached(m) \subseteq Reached(n)
<1>1. VolumeTyped(m) /\ VolumeTyped(n) /\ Linked(m) /\ Dirs(m) \subseteq Dirs(n)
  BY GrowsDirs, TypedIsLinked DEF Whole, Grows
<1>2. \A h \in Clusters : Lead(m, h) => Chain(m, h) \subseteq Chain(n, h)
  BY GrownChain
<1>3. Chain(m, Root) \subseteq Chain(n, Root)
  BY <1>2, ClustersCount DEF Lead
<1>4. ASSUME NEW d \in Dirs(m), NEW b \in Chain(m, d), NEW s \in Slots, UsedIn(m, b, s),
             NEW c \in Chain(m, EntryIn(m, b, s).start)
      PROVE  c \in Reached(n)
  <2>1. d \in Clusters /\ Lead(m, d)
    BY <1>1, DirsAreHeads, LeadIsHead
  <2>2. b \in Chain(n, d) /\ b \in Clusters
    BY <1>1, <1>2, <2>1, ChainIs
  <2>3. EntryIn(n, b, s) = EntryIn(m, b, s) /\ UsedIn(n, b, s)
    BY <1>4, <2>2 DEF Grows, SameEntries, UsedIn
  <2>4. EntryIn(m, b, s).start \in Clusters
    BY <1>1, ChainNone
  <2>5. Lead(m, EntryIn(m, b, s).start)
    BY <1>4, <2>2 DEF Lead
  <2>6. c \in Chain(n, EntryIn(n, b, s).start)
    BY <1>2, <2>3, <2>4, <2>5
  <2> QED BY <1>1, <2>2, <2>3, <2>6, ReachedIs
<1> QED BY <1>1, <1>3, <1>4, ReachedIs

\* An entry that is no directory leads to none, before the step.
LEMMA DirsStay ==
  ASSUME NEW m, NEW n, VolumeTyped(m), NEW c \in Clusters, NEW s \in Slots, NEW e,
         OnlyEntry(m, n, c, s, e), ~UsedIn(m, c, s) \/ EntryIn(m, c, s).kind = "file"
  PROVE  Dirs(m) \subseteq Dirs(n)
<1>1. ASSUME NEW d \in Dirs(m), NEW x \in EntriesOf(m, d), x.kind = "dir"
      PROVE  x \in EntriesOf(n, d)
  <2>1. PICK b \in Chain(m, d), t \in Slots : x = EntryIn(m, b, t)
    BY EntriesAre DEF EntryIn
  <2>2. UsedIn(m, b, t) /\ b \in Clusters
    BY <2>1, EntriesAre, ChainIs, ChainNone DEF UsedIn, OnlyEntry
  <2>3. b # c \/ t # s
    BY <1>1, <2>1, <2>2
  <2>4. EntryIn(n, b, t) = x /\ b \in Chain(n, d)
    BY <2>1, <2>2, <2>3 DEF OnlyEntry
  <2> QED BY <2>1, <2>2, <2>4, EntriesAre DEF OnlyEntry, UsedIn, EntryIn
<1> QED BY <1>1, DirsGrow DEF OnlyEntry

\* Without the entry of an empty directory, that one directory is gone.
LEMMA DirsLeft ==
  ASSUME NEW m, NEW n, VolumeTyped(m), NEW c \in Clusters, NEW s \in Slots, NEW e,
         OnlyEntry(m, n, c, s, e), NEW h, h = EntryIn(m, c, s).start, AllBare(m, h)
  PROVE  Dirs(m) \subseteq Dirs(n) \cup {h}
<1> DEFINE S == Dirs(n) \cup {h}
<1>1. VolumeTyped(n) /\ Root \in S
  BY DirsAre DEF OnlyEntry
<1>2. ASSUME NEW d \in S, NEW x \in EntriesOf(m, d), x.kind = "dir"
      PROVE  x.start \in S
  <2>1. PICK b \in Chain(m, d), t \in Slots : x = EntryIn(m, b, t)
    BY EntriesAre DEF EntryIn
  <2>2. UsedIn(m, b, t) /\ b \in Clusters
    BY <2>1, EntriesAre, ChainIs, ChainNone DEF UsedIn, OnlyEntry
  <2>3. d # h
    BY <2>1, <2>2 DEF AllBare, Bare
  <2>4. CASE b = c /\ t = s
    BY <2>1, <2>4
  <2>5. CASE b # c \/ t # s
    <3>1. EntryIn(n, b, t) = x /\ b \in Chain(n, d) /\ d \in Dirs(n)
      BY <2>1, <2>2, <2>3, <2>5 DEF OnlyEntry
    <3>2. x \in EntriesOf(n, d)
      BY <1>1, <2>1, <2>2, <3>1, EntriesAre DEF UsedIn, EntryIn
    <3> QED BY <1>1, <1>2, <3>1, <3>2, DirsAre
  <2> QED BY <2>4, <2>5
<1>3. Dirs(m) \subseteq S
  <2> HIDE DEF S
  <2> QED BY <1>1, <1>2, DirsWithin
<1> QED BY <1>3

\* An entry that is set puts out of reach what it has led to, and no more.
LEMMA EntryReached ==
  ASSUME NEW m, NEW n, VolumeTyped(m), NEW c \in Clusters, NEW s \in Slots, NEW e,
         OnlyEntry(m, n, c, s, e), \A d \in Dirs(m) : d \in Dirs(n) \/ AllBare(m, d),
         NEW b \in Reached(m), b \notin Reached(n)
  PROVE  UsedIn(m, c, s) /\ b \in Chain(m, EntryIn(m, c, s).start)
<1>1. VolumeTyped(n) /\ \A h : Chain(n, h) = Chain(m, h)
  BY DEF OnlyEntry
<1>2. b \notin Chain(m, Root)
  BY <1>1, ReachedIs
<1>3. PICK d \in Dirs(m) : \E a \in Chain(m, d), t \in Slots :
        UsedIn(m, a, t) /\ b \in Chain(m, EntryIn(m, a, t).start)
  BY <1>2, ReachedIs
<1>4. PICK a \in Chain(m, d), t \in Slots :
        UsedIn(m, a, t) /\ b \in Chain(m, EntryIn(m, a, t).start)
  BY <1>3
<1>5. d \in Dirs(n) /\ a \in Clusters
  BY <1>4, ChainIs, ChainNone DEF AllBare, Bare, OnlyEntry
<1>6. CASE a # c \/ t # s
  <2>1. EntryIn(n, a, t) = EntryIn(m, a, t)
    BY <1>5, <1>6 DEF OnlyEntry
  <2>2. UsedIn(n, a, t) /\ a \in Chain(n, d) /\ b \in Chain(n, EntryIn(n, a, t).start)
    BY <1>1, <1>4, <2>1 DEF UsedIn
  <2> QED BY <1>1, <1>5, <2>2, ReachedIs
<1>7. CASE a = c /\ t = s
  BY <1>4, <1>7
<1> QED BY <1>6, <1>7

-----------------------------------------------------------------------------
(* What is taken is reached, was dropped, or is in the hands of the call.  *)

\* f_mkdir() has a cluster that no entry leads to.
Making == call.cmd = "mkd" /\ pc \notin {"free", "sync"}

\* A cluster that the call will enter, or free.
InHand(c) ==
  \/ Filling /\ c \in Chain(view, call.sclust)
  \/ Making /\ c \in Chain(view, call.dcl)
  \/ pc = "link" /\ c = call.ncl
  \/ pc = "free" /\ c \in Chain(view, call.clst)

\* Taken, and neither reached nor dropped.
Lost(m, d, c) == m.fat[c] # 0 /\ c \notin Reached(m) \cup d

\* The directory of a call that enters a file or a directory.
DirReached == call.cmd \in {"stor", "mkd"} => call.dir \in Dirs(view)

Owned ==
  troubles = 0 =>
    DirReached /\ \A c \in Clusters : Lost(view, dropped, c) => InHand(c)

\* What is in hand stays in hand while the call does not let it go.
LEMMA HandStays ==
  ASSUME Typed, Owned, UNCHANGED <<view, dropped, troubles>>, DirReached => DirReached',
         pc # "link", pc # "free",
         Filling /\ call.sclust # 0 => Filling' /\ call'.sclust = call.sclust,
         Making /\ call.dcl # 0 =>
           \/ Making' /\ call'.dcl = call.dcl
           \/ pc' = "free" /\ call'.clst = call.dcl
  PROVE  Owned'
<1>1. Linked(view) /\ 0 \notin Clusters
  BY TypedIsLinked, Zeros DEF Typed, DiskTyped
<1>2. Chain(view, 0) = {}
  BY <1>1, ChainNone
<1>3. ASSUME NEW c \in Clusters, InHand(c)
      PROVE  InHand(c)'
  BY <1>2, <1>3 DEF InHand
<1> QED BY <1>3 DEF Owned, Lost

\* A step of a call that holds nothing, or that goes on holding it.
Carried ==
  /\ UNCHANGED <<view, open, dropped, troubles>>
  /\ call'.cmd = call.cmd /\ call'.dcl = call.dcl /\ call'.sclust = call.sclust
  /\ call.cmd # "rnto" => call'.dir = call.dir
  /\ pc \notin {"idle", "link", "free", "sync"} /\ pc' \notin {"idle", "free", "sync"}

LEMMA CarriedOwned ==
  ASSUME Typed, Owned, Carried, Filling => Filling'
  PROVE  Owned'
<1>1. DirReached => DirReached'
  BY DEF DirReached, Carried
<1> QED BY <1>1, HandStays DEF Carried, Making

\* A call that holds nothing returns.
LEMMA ReturnOwned ==
  ASSUME Typed, Owned, Return, UNCHANGED <<view, dropped, troubles>>,
         pc # "link", pc # "free", Filling => call.sclust = 0, Making => call.dcl = 0
  PROVE  Owned'
<1>1. DirReached'
  BY DEF DirReached, Return, NoCall
<1> QED BY <1>1, HandStays

LEMMA LookOwned ==
  Typed /\ Owned /\ (Find \/ FindNext \/ Alloc \/ AllocNext) => Owned'
<1> SUFFICES ASSUME Typed, Owned, Find \/ FindNext \/ Alloc \/ AllocNext PROVE Owned'
  OBVIOUS
<1>1. call \in Locals
  BY DEF Typed, CallTyped
<1>2. UNCHANGED <<view, open, dropped, troubles>>
  BY DEF Find, FindNext, Alloc, AllocNext, Follow, Local, diskVars, history
<1>3. CASE Find
  <2>1. /\ pc = "find" /\ pc' \in {"found", "missing", "findNext"}
        /\ call' = call \/ \E s : call' = [call EXCEPT !.slot = s]
    BY <1>3 DEF Find, At, Goto
  <2>2. Carried /\ ~Filling
    BY <1>1, <1>2, <2>1 DEF Carried, Filling, Taking, Writing, Locals
  <2> QED BY <2>2, CarriedOwned
<1>4. CASE FindNext
  <2>1. /\ pc = "findNext" /\ pc' \in {"find", "missing"}
        /\ call' = call \/ \E c : call' = [call EXCEPT !.clust = c]
    BY <1>4 DEF FindNext, Follow, At, Goto
  <2>2. Carried /\ ~Filling
    BY <1>1, <1>2, <2>1 DEF Carried, Filling, Taking, Writing, Locals
  <2> QED BY <2>2, CarriedOwned
<1>5. CASE Alloc
  <2>1. /\ pc = "alloc" /\ pc' \in {"allocNext", "register"}
        /\ call' = call \/ \E s : call' = [call EXCEPT !.slot = s]
    BY <1>5 DEF Alloc, At, Goto
  <2>2. Carried /\ ~Filling
    BY <1>1, <1>2, <2>1 DEF Carried, Filling, Taking, Writing, Locals
  <2> QED BY <2>2, CarriedOwned
<1>6. CASE AllocNext
  <2>1. /\ pc = "allocNext"
        /\ \/ pc' = "alloc" /\ \E c : call' = [call EXCEPT !.clust = c]
           \/ Scans(call.clust)
    BY <1>6 DEF AllocNext, Follow, At
  <2>2. call.clust \in Starts
    BY <1>1, LocalsAre
  <2>3. Scans(call.clust) => SameName /\ pc' = "scan"
    BY <1>1, <2>2, ScansIs
  <2>4. Carried /\ ~Filling
    BY <1>1, <1>2, <2>1, <2>3 DEF Carried, Filling, Taking, Writing, Locals, SameName
  <2> QED BY <2>4, CarriedOwned
<1> QED BY <1>3, <1>4, <1>5, <1>6

LEMMA MissingOwned ==
  Typed /\ Held /\ Owned /\ (StorMissing \/ RntoMissing \/ UnlinkMissing \/ MkdMissing \/ MkdFound)
    => Owned'
<1> SUFFICES ASSUME Typed, Held, Owned,
                    StorMissing \/ RntoMissing \/ UnlinkMissing \/ MkdMissing \/ MkdFound
             PROVE  Owned'
  OBVIOUS
<1>1. call \in Locals /\ 0 \in Starts
  BY Zeros DEF Typed, CallTyped
<1>2. /\ UNCHANGED <<view, open, dropped, troubles>> /\ pc \in {"found", "missing"}
      /\ \/ Return
         \/ pc' = "alloc" /\ call' = [call EXCEPT !.clust = call.dir]
         \/ Scans(0)
  BY DEF StorMissing, RntoMissing, UnlinkMissing, MkdMissing, MkdFound, Refused, At, Local,
         diskVars, history
<1>3. ~Filling /\ (Making => call.dcl = 0)
  BY <1>2 DEF Filling, Taking, Writing, Making, Held, Known, KnowMade
<1>4. Scans(0) => SameName /\ pc' = "scan"
  BY <1>1, ScansIs
<1>5. CASE Return
  BY <1>2, <1>3, <1>5, ReturnOwned
<1>6. CASE ~Return
  <2>1. Carried
    BY <1>1, <1>2, <1>4, <1>6 DEF Carried, Locals, SameName
  <2> QED BY <1>3, <2>1, CarriedOwned
<1> QED BY <1>5, <1>6

LEMMA RemovalOwned ==
  Typed /\ Owned /\ (Seek \/ Empty \/ EmptyNext \/ UnlinkFound \/ RntoFound) => Owned'
<1> SUFFICES ASSUME Typed, Owned, Seek \/ Empty \/ EmptyNext \/ UnlinkFound \/ RntoFound
             PROVE  Owned'
  OBVIOUS
<1>1. call \in Locals
  BY DEF Typed, CallTyped
<1>2. /\ UNCHANGED <<view, open, dropped, troubles>>
      /\ pc \in {"seek", "empty", "emptyNext", "found"}
      /\ pc = "found" => call.cmd \in {"unlink", "rnto"}
  BY DEF Seek, Empty, EmptyNext, UnlinkFound, RntoFound, At, Local, diskVars, history
<1>3. ~Filling /\ ~Making
  BY <1>2 DEF Filling, Taking, Writing, Making, Typed, OtherTyped, Searching, Entering
<1>4. CASE Return
  BY <1>2, <1>3, <1>4, ReturnOwned
<1>5. CASE Seek
  <2>1. pc' \in {"remove", "seek"} /\ (call' = call \/ \E c : call' = [call EXCEPT !.walk = c])
    BY <1>5 DEF Seek, Goto
  <2>2. Carried
    BY <1>1, <1>2, <2>1 DEF Carried, Locals
  <2> QED BY <1>3, <2>2, CarriedOwned
<1>6. CASE (Empty \/ EmptyNext) /\ ~Return
  <2>1. /\ pc' \in {"seek", "empty", "emptyNext"}
        /\ call' = call \/ \E c : call' = [call EXCEPT !.clst = c]
    BY <1>6 DEF Empty, EmptyNext, Goto
  <2>2. Carried
    BY <1>1, <1>2, <2>1 DEF Carried, Locals
  <2> QED BY <1>3, <2>2, CarriedOwned
<1>7. CASE UnlinkFound /\ ~Return
  <2>1. /\ pc' \in {"seek", "empty"} /\ pc = "found"
        /\ call' = OldIsHere \/ \E c : call' = [OldIsHere EXCEPT !.clst = c]
    BY <1>7 DEF UnlinkFound, At
  <2>2. /\ OldIsHere.cmd = call.cmd /\ OldIsHere.dir = call.dir /\ OldIsHere \in Locals
        /\ OldIsHere.dcl = call.dcl /\ OldIsHere.sclust = call.sclust
    BY <2>1, OldIsHereIs
  <2>3. Carried
    BY <1>1, <1>2, <2>1, <2>2 DEF Carried, Locals
  <2> QED BY <1>3, <2>3, CarriedOwned
<1>8. CASE RntoFound /\ ~Return
  <2>1. /\ pc' = "find" /\ pc = "found" /\ call.cmd = "rnto"
        /\ \E d, n : call' = [OldIsHere EXCEPT !.dir = d, !.clust = d, !.name = n, !.slot = 0]
    BY <1>8 DEF RntoFound, At
  <2>2. /\ OldIsHere.cmd = call.cmd /\ OldIsHere \in Locals
        /\ OldIsHere.dcl = call.dcl /\ OldIsHere.sclust = call.sclust
    BY <2>1, OldIsHereIs
  <2>3. Carried
    BY <1>1, <1>2, <2>1, <2>2 DEF Carried, Locals
  <2> QED BY <1>3, <2>3, CarriedOwned
<1> QED BY <1>4, <1>5, <1>6, <1>7, <1>8

LEMMA MakingOwned == Typed /\ Owned /\ (MkdDots \/ Stretched \/ Reopen) => Owned'
<1> SUFFICES ASSUME Typed, Owned, MkdDots \/ Stretched \/ Reopen PROVE Owned'
  OBVIOUS
<1>1. call \in Locals
  BY DEF Typed, CallTyped
<1>2. UNCHANGED <<view, dropped, troubles>> /\ pc \in {"mkdDots", "stretched", "reopen"}
  BY DEF MkdDots, Stretched, Reopen, At, Local, diskVars, history
<1>3. /\ pc' \in {"alloc", "data"}
      /\ \/ call' = call
         \/ \E c : call' = [call EXCEPT !.clust = c, !.ncl = 0]
  BY DEF MkdDots, Stretched, Reopen, Goto
<1>4. /\ call'.cmd = call.cmd /\ call'.dir = call.dir /\ call'.dcl = call.dcl
  BY <1>1, <1>3 DEF Locals
<1>5. ~Filling /\ (DirReached => DirReached')
  BY <1>2, <1>4 DEF Filling, Taking, Writing, DirReached
<1> QED BY <1>2, <1>3, <1>4, <1>5, HandStays DEF Making

LEMMA FillingOwned ==
  Typed /\ Owned /\ (StorMore \/ More \/ StorEnd \/ StorAbandoned) => Owned'
<1> SUFFICES ASSUME Typed, Owned, StorMore \/ More \/ StorEnd \/ StorAbandoned PROVE Owned'
  OBVIOUS
<1>1. call \in Locals /\ 0 \in Starts
  BY Zeros DEF Typed, CallTyped
<1>2. UNCHANGED <<view, open, dropped, troubles>> /\ pc \in {"data", "more"}
  BY DEF StorMore, More, StorEnd, StorAbandoned, Refused, At, Local, diskVars, history
<1>3. call.cmd = "stor" /\ Filling
  BY <1>2, WritingIs DEF Writing
<1>4. CASE StorAbandoned
  <2>1. Return /\ call.sclust = 0
    BY <1>4 DEF StorAbandoned, Refused
  <2> QED BY <1>2, <1>3, <2>1, ReturnOwned DEF Making
<1>5. CASE ~StorAbandoned
  <2>1. \/ pc' \in {"more", "close"} /\ call' = call
        \/ Scans(0) \/ Scans(call.last)
    BY <1>5 DEF StorMore, More, StorEnd, Goto
  <2>2. call.last \in Starts
    BY <1>1, LocalsAre
  <2>3. SameName /\ pc' \in {"more", "close", "scan"} /\ call'.clust = call.clust
        /\ call'.slot = call.slot
    <3>1. CASE Scans(0)
      BY <1>1, <3>1, ScansIs
    <3>2. CASE Scans(call.last)
      BY <1>1, <2>2, <3>2, ScansIs
    <3> QED BY <2>1, <3>1, <3>2 DEF SameName
  <2>4. Filling'
    BY <1>2, <1>3, <2>3 DEF Filling, Taking, Writing, Opened, Here, SameName
  <2>5. Carried
    BY <1>2, <2>3 DEF Carried, SameName
  <2> QED BY <2>4, <2>5, CarriedOwned
<1> QED BY <1>4, <1>5

LEMMA SyncOwned == Typed /\ Owned /\ Sync => Owned'
<1> SUFFICES ASSUME Typed, Owned, Sync PROVE Owned'
  OBVIOUS
<1>1. Return /\ UNCHANGED <<view, dropped, troubles>> /\ pc = "sync"
  BY DEF Sync, At, OnlyKept, diskVars
<1> QED BY <1>1, ReturnOwned DEF Filling, Taking, Writing, Making

LEMMA BeginOwned == Typed /\ Owned /\ Command => Owned'
<1> SUFFICES ASSUME Typed, Owned, NEW d \in Clusters, NEW n \in Names,
                    NEW cmd \in {"stor", "unlink", "mkd", "rnto"}, Begin(cmd, d, n)
             PROVE  Owned'
  BY DEF Command
<1>1. pc = "idle" /\ UNCHANGED <<view, dropped, troubles>> /\ d \in Dirs(view) /\ pc' = "find"
  BY DEF Begin, diskVars
<1>2. call'.dir = d
  BY DEF Begin, NoCall
<1>3. DirReached'
  BY <1>1, <1>2 DEF DirReached
<1>4. ~Filling /\ ~Making
  BY <1>1 DEF Filling, Taking, Writing, Making, Typed, CallTyped
<1> QED BY <1>1, <1>3, <1>4, HandStays

LEMMA WindowOwned ==
  Typed /\ Owned /\ (Flush \/ Load \/ UNCHANGED vars) => Owned'
<1> SUFFICES ASSUME Typed, Owned, Flush \/ Load \/ UNCHANGED vars PROVE Owned'
  OBVIOUS
<1>1. UNCHANGED <<view, pc, call, open, dropped, troubles>>
  BY DEF Flush, Load, vars, diskVars, history
<1> QED BY <1>1 DEF Owned, InHand, DirReached, Filling, Opened, Here, Making

LEMMA TroubleOwned ==
  Typed /\ (FlushFails \/ LoadFails \/ StorWholeFails \/ Crash) => Owned'
<1> SUFFICES ASSUME Typed, FlushFails \/ LoadFails \/ StorWholeFails \/ Crash PROVE Owned'
  OBVIOUS
<1>1. troubles' = troubles + 1 /\ troubles \in 0 .. MAX_TROUBLES
  BY DEF FlushFails, LoadFails, StorWholeFails, Fault, Crash, Typed, HistoryTyped
<1>2. troubles' # 0
  BY <1>1, FatAssumption
<1> QED BY <1>2 DEF Owned

-----------------------------------------------------------------------------
(* Clusters are taken and linked.                                          *)

\* A step under which what is held, stays held: the volume grows.
LEMMA GrownOwned ==
  ASSUME Typed, Owned, troubles' = troubles, dropped' = dropped,
         NEW q, NEW X, NEW r, Whole(view, X, r), Grows(view, view', q, X),
         call'.cmd = call.cmd, call'.dir = call.dir,
         \A c \in Clusters : Lost(view, dropped, c) /\ view'.fat[c] # 0 =>
           c \in Reached(view') \/ (InHand(c) => InHand(c)'),
         \A c \in Clusters : view.fat[c] = 0 /\ view'.fat[c] # 0 => InHand(c)'
  PROVE  Owned'
<1>1. Reached(view) \subseteq Reached(view') /\ Dirs(view) \subseteq Dirs(view')
  BY GrowsReached, GrowsDirs
<1>2. DirReached => DirReached'
  BY <1>1 DEF DirReached
<1>3. ASSUME troubles = 0, NEW c \in Clusters, Lost(view', dropped', c)
      PROVE  InHand(c)'
  <2>1. CASE view.fat[c] = 0
    BY <1>3, <2>1 DEF Lost
  <2>2. CASE view.fat[c] # 0
    <3>1. Lost(view, dropped, c) /\ c \notin Reached(view')
      BY <1>1, <1>3, <2>2 DEF Lost
    <3> QED BY <1>3, <3>1 DEF Owned, Lost
  <2> QED BY <2>1, <2>2
<1> QED BY <1>2, <1>3 DEF Owned

LEMMA ScanOwned == Typed /\ Held /\ Owned /\ Scan => Owned'
<1> SUFFICES ASSUME Typed, Held, Owned, Scan PROVE Owned'
  OBVIOUS
<1>1. /\ pc = "scan" /\ open' = open /\ dropped' = dropped /\ troubles' = troubles
      /\ call \in Locals /\ call.ncl \in Clusters /\ (Filling <=> Opened)
      /\ (Stretching <=> ~Opened) /\ Whole(view, {}, {}) /\ Linked(view)
      /\ call.cmd \in {"stor", "mkd", "rnto"}
  BY ScanIs DEF Scan, At, history, Typed, CallTyped, OtherTyped, Searching, Locals
<1>2. CASE view.fat[call.ncl] # 0
  <2>1. /\ view' = view
        /\ NoSpace \/ (pc' = "scan" /\ call' = [call EXCEPT !.ncl = After(@)])
    BY <1>2 DEF Scan
  <2>2. CASE Return
    <3>1. ~Opened /\ ~(call.cmd = "mkd" /\ call.dcl # 0)
      BY <1>1, <2>1, <2>2 DEF NoSpace, Return, NoCall
    <3> QED BY <1>1, <2>1, <2>2, <3>1, ReturnOwned DEF Making
  <2>3. CASE ~Return
    <3>1. /\ call'.cmd = call.cmd /\ call'.dir = call.dir /\ call'.dcl = call.dcl
          /\ call'.sclust = call.sclust /\ call'.clust = call.clust /\ call'.slot = call.slot
      BY <1>1, <2>1, <2>3 DEF NoSpace, Locals
    <3>2. /\ Opened => pc' \in {"data", "scan"}
          /\ ~Opened => \/ pc' = "scan"
                        \/ pc' = "free" /\ call'.clst = call.dcl
      BY <1>1, <2>1, <2>3 DEF NoSpace, Locals
    <3>3. Filling => Filling'
      BY <1>1, <3>1, <3>2 DEF Filling, Opened, Here, Taking, Writing
    <3>4. DirReached => DirReached'
      BY <2>1, <3>1 DEF DirReached
    <3>5. Making => Making' \/ (pc' = "free" /\ call'.clst = call.dcl)
      BY <3>1, <3>2 DEF Making, Opened
    <3> QED BY <1>1, <2>1, <3>1, <3>3, <3>4, <3>5, HandStays
  <2> QED BY <2>2, <2>3
<1>3. CASE view.fat[call.ncl] = 0
  <2>1. /\ OnlyLink(view, view', call.ncl, EOC) /\ Grows(view, view', raw', {})
        /\ Chain(view', call.ncl) = {call.ncl}
        /\ IF call.prev = 0 THEN Allocated ELSE pc' = "link" /\ call' = call
        /\ \A h : Head(view, h) => Chain(view', h) = Chain(view, h)
    BY <1>3, TakeIs
  <2>2. /\ call'.cmd = call.cmd /\ call'.dir = call.dir /\ call'.clust = call.clust
        /\ call'.slot = call.slot /\ ~Renaming'
    BY <1>3, TakeRest DEF SameWork
  <2>3. /\ Filling => call.prev = IF call.sclust = 0 THEN 0 ELSE call.last
        /\ Filling /\ call.sclust # 0 => Head(view, call.sclust) /\ call.last # 0
        /\ Making /\ call.dcl # 0 => Head(view, call.dcl)
        /\ ~Opened /\ ~(call.cmd = "mkd" /\ call.dcl = 0) => call.prev # 0
    <3>1. call.sclust # 0 => call.last # 0
      BY Zeros DEF Typed, StepTyped
    <3>2. /\ Filling => call.prev = IF call.sclust = 0 THEN 0 ELSE call.last
          /\ Filling /\ call.sclust # 0 => Head(view, call.sclust)
      BY <1>1 DEF Held, Known, KnowText, Taking, Loose
    <3>3. Making /\ call.dcl # 0 => Head(view, call.dcl)
      BY DEF Making, Held, Known, KnowMade, Fresh, Loose
    <3>4. ~Opened /\ ~(call.cmd = "mkd" /\ call.dcl = 0) => call.prev # 0
      <4> SUFFICES ASSUME ~Opened, ~(call.cmd = "mkd" /\ call.dcl = 0) PROVE call.prev # 0
        OBVIOUS
      <4>1. call.prev \in Chain(view, call.dir)
        BY <1>1 DEF Held, Known, KnowRoom
      <4>2. call.dir \in Clusters
        BY ScanIs
      <4> QED BY <1>1, <4>1, <4>2, ChainIs, Zeros
    <3> QED BY <3>1, <3>2, <3>3, <3>4
  <2>4. Chain(view, 0) = {}
    BY <1>1, ChainNone, Zeros
  <2>5. CASE call.prev # 0
    <3>1. pc' = "link" /\ call' = call /\ open' = open
      BY <1>1, <2>1, <2>5
    <3>2. /\ Filling => Filling'
          /\ Making => Making'
      BY <1>1, <3>1 DEF Filling, Opened, Here, Taking, Making
    <3>3. ASSUME NEW c \in Clusters, InHand(c)
          PROVE  InHand(c)'
      BY <1>1, <2>1, <2>3, <2>4, <3>1, <3>2, <3>3 DEF InHand
    <3>4. ASSUME NEW c \in Clusters, view.fat[c] = 0, view'.fat[c] # 0
          PROVE  InHand(c)'
      BY <2>1, <3>1, <3>4 DEF OnlyLink, InHand
    <3> QED BY <1>1, <2>1, <3>1, <3>3, <3>4, GrownOwned
  <2>6. CASE call.prev = 0
    <3>1. /\ Opened => /\ pc' \in {"whole", "part"} /\ call'.sclust = call.ncl
                       /\ call.sclust = 0
          /\ ~Opened => /\ call.cmd = "mkd" /\ call.dcl = 0 /\ pc' = "mkdSync"
                        /\ call'.dcl = call.ncl
      BY <1>1, <2>1, <2>3, <2>6, AllocatedIs
    <3>2. /\ Opened => Filling'
          /\ ~Opened => Making'
      BY <1>1, <2>2, <3>1 DEF Filling, Opened, Here, Writing, Making
    <3>3. ASSUME NEW c \in Clusters, InHand(c)
          PROVE  FALSE
      <4>1. CASE Opened
        BY <1>1, <2>4, <3>1, <3>3, <4>1 DEF InHand, Making, Opened
      <4>2. CASE ~Opened
        BY <1>1, <2>4, <3>1, <3>3, <4>2 DEF InHand
      <4> QED BY <4>1, <4>2
    <3>4. ASSUME NEW c \in Clusters, view.fat[c] = 0, view'.fat[c] # 0
          PROVE  InHand(c)'
      <4>1. c = call.ncl
        BY <2>1, <3>4 DEF OnlyLink
      <4>2. \/ Filling' /\ call'.sclust = call.ncl
            \/ Making' /\ call'.dcl = call.ncl
        BY <3>1, <3>2
      <4> QED BY <2>1, <4>1, <4>2 DEF InHand
    <3> QED BY <1>1, <2>1, <2>2, <3>3, <3>4, GrownOwned
  <2> QED BY <2>5, <2>6
<1> QED BY <1>2, <1>3

LEMMA LinkOwned == Typed /\ Held /\ Owned /\ Link => Owned'
<1> SUFFICES ASSUME Typed, Held, Owned, Link PROVE Owned'
  OBVIOUS
<1>1. /\ pc = "link" /\ open' = open /\ dropped' = dropped /\ troubles' = troubles
      /\ call \in Locals /\ call.ncl \in Clusters /\ (Filling <=> Opened)
      /\ Whole(view, {}, {}) /\ Linked(view) /\ call.dir \in Clusters /\ ~Renaming
      /\ call.cmd \in {"stor", "mkd", "rnto"} /\ VolumeTyped(view) /\ DirHead(view, call.dir)
  BY ScanIs DEF Link, At, Typed, CallTyped, OtherTyped, Searching, Locals
<1>2. /\ Allocated /\ call.prev \in Clusters /\ call.prev # call.ncl /\ view.fat[call.prev] = EOC
      /\ Opened => /\ Loose(view, card, call.sclust) /\ call.prev = call.last
                   /\ call.last \in Chain(view, call.sclust) /\ call.sclust # call.ncl
                   /\ call.sclust # 0
      /\ ~Opened => /\ ~(call.cmd = "mkd" /\ call.dcl = 0)
                    /\ call.prev \in Chain(view, call.dir)
  BY LinkToIs
<1>3. /\ OnlyLink(view, view', call.prev, call.ncl) /\ Grows(view, view', raw', {})
      /\ \A h : Head(view, h) /\ h # call.ncl =>
           Chain(view', h) = IF call.prev \in Chain(view, h)
                             THEN Chain(view, h) \cup {call.ncl} ELSE Chain(view, h)
  BY LinkIsGrows
<1>4. /\ call'.cmd = call.cmd /\ call'.dir = call.dir
      /\ Opened => /\ pc' \in {"whole", "part"} /\ call'.sclust = call.sclust /\ Filling'
      /\ ~Opened => pc' = "stretch" /\ call'.dcl = call.dcl
  <2>1. /\ call'.cmd = call.cmd /\ call'.dir = call.dir /\ call'.clust = call.clust
        /\ call'.slot = call.slot
        /\ Opened => /\ pc' \in {"whole", "part"} /\ call'.sclust = call.sclust
        /\ ~Opened => pc' = "stretch" /\ call'.dcl = call.dcl
    BY <1>1, <1>2, AllocatedIs DEF SameWork
  <2> QED BY <1>1, <2>1 DEF Filling, Opened, Here, Writing
<1>5. ASSUME NEW c \in Clusters, Filling, c \in Chain(view, call.sclust)
      PROVE  InHand(c)'
  <2>1. Head(view, call.sclust) /\ call.sclust # call.ncl
    BY <1>1, <1>2, <1>5 DEF Loose
  <2>2. c \in Chain(view', call.sclust)
    BY <1>3, <1>5, <2>1
  <2> QED BY <1>1, <1>4, <1>5, <2>2 DEF InHand
<1>6. ASSUME NEW c \in Clusters, Making, c \in Chain(view, call.dcl)
      PROVE  InHand(c)'
  <2>1. call.dcl \in Clusters
    BY <1>1, <1>6, ChainNone
  <2>2. Fresh(view, card, call.dcl) /\ call.dcl # call.ncl
    BY <1>1, <1>6, <2>1, Zeros DEF Making, Held, Known, KnowMade, KnowLink
  <2>3. c \in Chain(view', call.dcl)
    BY <1>3, <1>6, <2>2 DEF Fresh, Loose
  <2>4. ~Opened /\ Making'
    BY <1>4, <1>6 DEF Making, Opened
  <2> QED BY <1>4, <2>3, <2>4 DEF InHand
<1>7. CASE troubles = 0
  <2>1. \/ call.ncl \in Reached(view')
        \/ Filling' /\ call.ncl \in Chain(view', call'.sclust)
    <3>1. CASE Opened
      <4>1. Head(view, call.sclust) /\ call.prev \in Chain(view, call.sclust)
        BY <1>2, <3>1 DEF Loose
      <4>2. call.ncl \in Chain(view', call.sclust)
        BY <1>2, <1>3, <3>1, <4>1
      <4> QED BY <1>4, <3>1, <4>2
    <3>2. CASE ~Opened
      <4>1. call.dir \in Dirs(view)
        BY <1>1, <1>7 DEF Owned, DirReached, Held, Known, KnowDirs
      <4>2. Head(view, call.dir) /\ Lead(view, call.dir)
        BY <1>1, LeadIsHead
      <4>3. call.dir # call.ncl
        BY <1>1, <4>2 DEF Held, Known, KnowLink, Fresh, Loose
      <4>4. call.ncl \in Chain(view', call.dir)
        BY <1>2, <1>3, <3>2, <4>2, <4>3
      <4>5. call.dir \in Dirs(view') /\ VolumeTyped(view')
        BY <1>1, <1>3, <4>1, GrowsDirs DEF Grows
      <4> QED BY <4>4, <4>5, DirsReached
    <3> QED BY <3>1, <3>2
  <2>2. ASSUME NEW c \in Clusters, InHand(c)
        PROVE  c \in Reached(view') \/ InHand(c)'
    <3>1. CASE c = call.ncl
      BY <2>1, <3>1 DEF InHand
    <3>2. CASE c # call.ncl
      BY <1>1, <1>5, <1>6, <2>2, <3>2 DEF InHand
    <3> QED BY <3>1, <3>2
  <2>3. ASSUME NEW c \in Clusters, view.fat[c] = 0, view'.fat[c] # 0
        PROVE  InHand(c)'
    <3>1. c # call.prev
      BY <1>2, <2>3, LinkValues
    <3> QED BY <1>3, <2>3, <3>1 DEF OnlyLink
  <2> QED BY <1>1, <1>3, <1>4, <2>2, <2>3, GrownOwned
<1>8. CASE troubles # 0
  BY <1>1, <1>8 DEF Owned
<1> QED BY <1>7, <1>8

-----------------------------------------------------------------------------
(* Sectors are written.                                                    *)

\* A sector is written in which there was no entry, or whose entries stay.
LEMMA SectorReached ==
  ASSUME NEW m, VolumeTyped(m), NEW n, VolumeTyped(n), n.fat = m.fat,
         \A b \in Clusters, s \in Slots : UsedIn(m, b, s) => EntryIn(n, b, s) = EntryIn(m, b, s)
  PROVE  Reached(m) \subseteq Reached(n) /\ Dirs(m) \subseteq Dirs(n)
<1>1. Linked(m) /\ \A h : Chain(n, h) = Chain(m, h)
  BY SameFat
<1>2. ASSUME NEW d, NEW b \in Chain(m, d), NEW s \in Slots, UsedIn(m, b, s)
      PROVE  b \in Chain(n, d) /\ EntryIn(n, b, s) = EntryIn(m, b, s) /\ UsedIn(n, b, s)
  <2>1. b \in Clusters
    BY <1>1, ChainIs, ChainNone
  <2> QED BY <1>1, <1>2, <2>1 DEF UsedIn
<1>3. Dirs(m) \subseteq Dirs(n)
  <2>1. ASSUME NEW d \in Dirs(m), NEW x \in EntriesOf(m, d) PROVE x \in EntriesOf(n, d)
    <3>1. PICK b \in Chain(m, d), s \in Slots : x = EntryIn(m, b, s)
      BY EntriesAre DEF EntryIn
    <3>2. UsedIn(m, b, s)
      BY <3>1, EntriesAre DEF UsedIn
    <3> QED BY <1>2, <3>1, <3>2, EntriesAre DEF UsedIn, EntryIn
  <2> QED BY <2>1, DirsGrow
<1>4. ASSUME NEW d \in Dirs(m), NEW b \in Chain(m, d), NEW s \in Slots, UsedIn(m, b, s),
             NEW c \in Chain(m, EntryIn(m, b, s).start)
      PROVE  c \in Reached(n)
  <2>1. b \in Chain(n, d) /\ UsedIn(n, b, s) /\ c \in Chain(n, EntryIn(n, b, s).start)
    BY <1>1, <1>2, <1>4
  <2> QED BY <1>3, <2>1, ReachedIs
<1> QED BY <1>1, <1>3, <1>4, ReachedIs

LEMMA SectorOwned ==
  ASSUME Typed, Owned, UNCHANGED <<dropped, troubles>>, VolumeTyped(view'), view'.fat = view.fat,
         \A b \in Clusters, s \in Slots :
           UsedIn(view, b, s) => EntryIn(view', b, s) = EntryIn(view, b, s),
         call'.cmd = call.cmd, call'.dir = call.dir, call'.dcl = call.dcl,
         call'.sclust = call.sclust, Filling => Filling', Making => Making',
         pc # "link", pc # "free"
  PROVE  Owned'
<1>1. VolumeTyped(view)
  BY DEF Typed, DiskTyped
<1>2. Reached(view) \subseteq Reached(view') /\ Dirs(view) \subseteq Dirs(view')
  BY <1>1, SectorReached
<1>3. \A h : Chain(view', h) = Chain(view, h)
  BY <1>1, SameFat
<1>4. DirReached => DirReached'
  BY <1>2 DEF DirReached
<1>5. ASSUME NEW c \in Clusters, InHand(c) PROVE InHand(c)'
  BY <1>3, <1>5 DEF InHand
<1> QED BY <1>2, <1>4, <1>5 DEF Owned, Lost

LEMMA SectorsOwned ==
  Typed /\ Held /\ Owned /\ (Stretch \/ MkdTable \/ StorPart \/ StorWhole \/ Dotdot) => Owned'
<1> SUFFICES ASSUME Typed, Held, Owned, Stretch \/ MkdTable \/ StorPart \/ StorWhole \/ Dotdot
             PROVE  Owned'
  OBVIOUS
<1>1. VolumeTyped(view) /\ VolumeTyped(view') /\ call \in Locals
  BY SectorsTyped DEF Typed, DiskTyped, CallTyped
<1>2. UNCHANGED <<dropped, troubles, open>>
  BY DEF Stretch, MkdTable, StorPart, StorWhole, Stored, Dotdot, history
<1>3. CASE Stretch \/ MkdTable
  <2>1. /\ pc \in {"stretch", "mkdSync"} /\ pc' \in {"stretched", "mkdDots"} /\ call' = call
    BY <1>3 DEF Stretch, MkdTable, At, Goto
  <2>2. \E c, x : DataIs(view, view', c, x) /\ Bare(view, c)
    <3>1. CASE Stretch
      <4>1. pc = "stretch" /\ DataIs(view, view', call.ncl, Table(0))
        BY <3>1 DEF Stretch, At, DataIs
      <4> QED BY <4>1 DEF Held, Known, KnowRoom
    <3>2. CASE MkdTable
      <4>1. pc = "mkdSync" /\ DataIs(view, view', call.dcl, Table(call.dir))
        BY <3>2 DEF MkdTable, At, DataIs
      <4>2. call.cmd = "mkd" /\ call.dcl # 0
        BY <4>1 DEF Typed, CallTyped, StorTyped, OtherTyped, Locals, Searching, Entering, Taking,
           Writing, Removing
      <4>3. Loose(view, card, call.dcl)
        BY <4>1, <4>2 DEF Held, Known, KnowMade, Fresh
      <4>4. call.dcl \in Chain(view, call.dcl)
        BY <1>1, <4>3, ChainIs, TypedIsLinked DEF Loose, Head
      <4>5. Bare(view, call.dcl)
        BY <4>3, <4>4 DEF Loose
      <4> QED BY <4>1, <4>5
    <3> QED BY <1>3, <3>1, <3>2
  <2>3. PICK c, x : DataIs(view, view', c, x) /\ Bare(view, c)
    BY <2>2
  <2>4. /\ view'.fat = view.fat
        /\ \A b \in Clusters : b # c => view'.data[b] = view.data[b]
    BY <1>1, <2>3 DEF DataIs, VolumeTyped, Volume
  <2>5. \A b \in Clusters, s \in Slots :
           UsedIn(view, b, s) => EntryIn(view', b, s) = EntryIn(view, b, s)
    BY <2>3, <2>4 DEF Bare, EntryIn
  <2>6. ~Filling /\ (Making => Making')
    BY <2>1 DEF Filling, Taking, Writing, Making
  <2> QED BY <1>1, <1>2, <2>1, <2>4, <2>5, <2>6, SectorOwned
<1>4. CASE StorPart \/ StorWhole
  <2>1. /\ pc \in {"whole", "part"} /\ pc' = "data" /\ Filling
        /\ call' = [call EXCEPT !.ncl = 0, !.size = @ + 1]
        /\ Outside(view, call.ncl) /\ OnlyData(view, view', call.ncl, Datum(call.text))
    BY <1>4, StoredIs
  <2>2. /\ call'.cmd = call.cmd /\ call'.dir = call.dir /\ call'.dcl = call.dcl
        /\ call'.sclust = call.sclust /\ call'.clust = call.clust /\ call'.slot = call.slot
    BY <1>1, <2>1 DEF Locals
  <2>3. \A b \in Clusters, s \in Slots :
           UsedIn(view, b, s) => EntryIn(view', b, s) = EntryIn(view, b, s)
    BY <2>1 DEF Outside, Bare, OnlyData, EntryIn
  <2>4. Filling' /\ (Making => Making')
    BY <1>2, <2>1, <2>2 DEF Filling, Opened, Here, Writing, Making
  <2> QED BY <1>1, <1>2, <2>1, <2>2, <2>3, <2>4, SectorOwned DEF OnlyData
<1>5. CASE Dotdot
  <2>1. pc = "dotdot" /\ pc' = "seek" /\ call' = call
        /\ UpIs(view, view', call.entry.start, call.dir)
    BY <1>5 DEF Dotdot, At, Goto, UpIs
  <2>2. /\ view'.fat = view.fat
        /\ \A b \in Clusters : view'.data[b].ents = view.data[b].ents
    BY <1>1, <2>1 DEF UpIs, VolumeTyped, Volume, Content
  <2>3. ~Filling /\ (Making => Making')
    BY <2>1 DEF Filling, Taking, Writing, Making
  <2> QED BY <1>1, <1>2, <2>1, <2>2, <2>3, SectorOwned DEF EntryIn
<1> QED BY <1>3, <1>4, <1>5

-----------------------------------------------------------------------------
(* A cluster is freed; entries are set.                                    *)

LEMMA FreeOwned == Typed /\ Held /\ Owned /\ Free => Owned'
<1> SUFFICES ASSUME Typed, Held, Owned, Free PROVE Owned'
  OBVIOUS
<1> DEFINE c == call.clst
<1> DEFINE nxt == view.fat[c]
<1>1. /\ pc = "free" /\ LinkIs(view, view', c, 0) /\ UNCHANGED <<dropped, troubles, raw>>
      /\ crossed' = crossed
  BY DEF Free, At, history, SetLink, LinkIs
<1>2. /\ call.cmd \in {"stor", "unlink", "mkd"} /\ c \in Clusters /\ call \in Locals
      /\ VolumeTyped(view) /\ Linked(view) /\ ~Renaming /\ ~crossed
  BY <1>1, InCall
     DEF Typed, CallTyped, OtherTyped, StepTyped, Locals, Searching, Entering, Taking, Removing,
         Renaming
<1>3. \/ nxt \in Clusters /\ pc' = "free" /\ call' = [call EXCEPT !.clst = nxt]
      \/ nxt \notin Clusters /\ call' = [call EXCEPT !.clst = 0]
      \/ nxt \notin Clusters /\ Return
  BY <1>2 DEF Free
<1>4. /\ Whole(view, {}, raw) /\ Head(view, c) /\ ~Lead(view, c) /\ Bare(view, c)
  <2>1. Whole(view, {}, raw)
    BY <1>2, SurePlain DEF Held, Plain
  <2>2. Head(view, c) /\ ~Lead(view, c) /\ AllBare(view, c)
    BY <1>1 DEF Held, Known, KnowFree
  <2>3. c \in Chain(view, c)
    BY <1>2, ChainIs
  <2> QED BY <2>1, <2>2, <2>3 DEF AllBare
<1>5. Grows(view, view', raw, {}) /\ OnlyLink(view, view', c, 0)
  BY <1>1, <1>2, <1>4, FreeGrows, LinkSetIs, LinkValues
<1>6. Reached(view) \subseteq Reached(view') /\ Dirs(view) \subseteq Dirs(view')
  BY <1>4, <1>5, GrowsReached, GrowsDirs
<1>7. ~Filling /\ ~Making
  BY <1>1 DEF Filling, Taking, Writing, Making
<1>8. Chain(view, c) = {c} \cup Chain(view, nxt)
  BY <1>2, ChainUnrolls
<1>9. ASSUME NEW b \in Clusters, view'.fat[b] # 0, InHand(b)
      PROVE  InHand(b)'
  <2>1. b # c /\ b \in Chain(view, nxt)
    BY <1>1, <1>5, <1>7, <1>8, <1>9 DEF InHand, OnlyLink
  <2>2. nxt \in Clusters
    BY <1>2, <2>1, ChainNone
  <2>3. pc' = "free" /\ call'.clst = nxt
    <3>1. call' = [call EXCEPT !.clst = nxt] /\ pc' = "free"
      BY <1>3, <2>2
    <3> QED BY <1>2, <3>1 DEF Locals
  <2>4. c \notin Chain(view, nxt)
    <3> SUFFICES ASSUME c \in Chain(view, nxt) PROVE FALSE
      OBVIOUS
    <3>1. \A a \in Clusters : view.fat[a] # c
      BY <1>4 DEF Head
    <3>2. nxt # c
      BY <1>2, <3>1
    <3>3. \E a \in Chain(view, nxt) : view.fat[a] = c
      BY <1>2, <2>2, <3>2, ChainLed
    <3> QED BY <1>2, <2>2, <3>1, <3>3, ChainIs
  <2>5. Chain(view', nxt) = Chain(view, nxt)
    <3>1. \A a \in Chain(view, nxt) : view'.fat[a] = view.fat[a]
      <4>1. Chain(view, nxt) \subseteq Clusters
        BY <1>2, <2>2, ChainIs
      <4> QED BY <1>5, <2>4, <4>1 DEF OnlyLink
    <3>2. Linked(view) /\ Linked(view')
      BY <1>5 DEF OnlyLink
    <3> HIDE DEF nxt
    <3> QED BY <3>1, <3>2, ChainSame
  <2> QED BY <2>1, <2>3, <2>5 DEF InHand
<1>10. DirReached => DirReached'
  <2>1. (call'.cmd = call.cmd /\ call'.dir = call.dir) \/ call'.cmd = "none"
    BY <1>2, <1>3 DEF Return, NoCall, Locals
  <2> QED BY <1>6, <2>1 DEF DirReached
<1>11. \A b \in Clusters : view'.fat[b] # 0 => view.fat[b] # 0
  BY <1>5 DEF OnlyLink
<1> QED BY <1>1, <1>6, <1>9, <1>10, <1>11 DEF Owned, Lost

\* The entry that is set has led to the chain the call now frees, or to none.
LEMMA EntryOwned ==
  ASSUME Typed, Owned, troubles' = troubles,
         NEW c \in Clusters, NEW s \in Slots, NEW e, OnlyEntry(view, view', c, s, e),
         \A d \in Dirs(view) : d \in Dirs(view') \/ AllBare(view, d),
         DirReached => DirReached',
         \A b \in Clusters : b \in dropped \/ InHand(b) =>
           b \in Reached(view') \cup dropped' \/ InHand(b)',
         \A b \in Clusters :
           /\ b \in Reached(view) \ Reached(view') /\ UsedIn(view, c, s)
           /\ b \in Chain(view, EntryIn(view, c, s).start)
           => b \in dropped' \/ InHand(b)'
  PROVE  Owned'
<1>1. VolumeTyped(view) /\ view'.fat = view.fat
  BY DEF Typed, DiskTyped, OnlyEntry
<1>2. ASSUME troubles = 0, NEW b \in Clusters, Lost(view', dropped', b)
      PROVE  InHand(b)'
  <2>1. CASE b \in Reached(view)
    <3>1. b \in Reached(view) \ Reached(view')
      BY <1>2, <2>1 DEF Lost
    <3>2. UsedIn(view, c, s) /\ b \in Chain(view, EntryIn(view, c, s).start)
      BY <1>1, <3>1, EntryReached
    <3> QED BY <1>2, <3>1, <3>2 DEF Lost
  <2>2. CASE b \notin Reached(view)
    <3>1. b \in dropped \/ InHand(b)
      BY <1>1, <1>2, <2>2 DEF Lost, Owned
    <3> QED BY <1>2, <3>1 DEF Lost
  <2> QED BY <2>1, <2>2
<1> QED BY <1>2 DEF Owned

LEMMA StorFoundOwned == Typed /\ Held /\ Owned /\ StorFound => Owned'
<1> SUFFICES ASSUME Typed, Held, Owned, StorFound PROVE Owned'
  OBVIOUS
<1> DEFINE c == call.clust
<1> DEFINE s == call.slot
<1> DEFINE e == [Found EXCEPT !.start = 0, !.size = 0]
<1>1. pc = "found" /\ call.cmd = "stor"
  BY DEF StorFound, At
<1>2. ~Filling /\ ~Making
  BY <1>1 DEF Filling, Taking, Writing, Making
<1>3. CASE Refused
  <2>1. Return /\ UNCHANGED <<view, dropped, troubles>>
    BY <1>3 DEF Refused, Local, diskVars, history
  <2> QED BY <1>1, <1>2, <2>1, ReturnOwned
<1>4. CASE ~Refused
  <2>1. /\ Found.kind # "dir" /\ EntryIs(view, view', c, s, e)
        /\ UNCHANGED <<dropped, troubles>>
        /\ \/ Found.start = 0 /\ call' = call
           \/ /\ Found.start # 0 /\ pc' = "free"
              /\ call' = [call EXCEPT !.clst = Found.start, !.entry = Found]
    BY <1>4 DEF StorFound, SetEntry, EntryIs, Forget, OnlyKept
  <2>2. /\ call \in Locals /\ c \in Clusters /\ s \in Slots
        /\ Found = EntryIn(view, c, s) /\ Found \in Entry /\ VolumeTyped(view) /\ Linked(view)
    BY <1>1, FoundIsUsed
  <2>3. Found.kind = "file"
    BY <2>1, <2>2 DEF Entry
  <2>4. OnlyEntry(view, view', c, s, e)
    <3>1. e \in Entry /\ e.kind = "file"
      BY <2>2, <2>3, EmptiedIs
    <3> HIDE DEF e
    <3> QED BY <2>1, <2>2, <3>1, EntrySetIs
  <2> HIDE DEF e
  <2>5. Dirs(view) \subseteq Dirs(view')
    BY <2>2, <2>3, <2>4, DirsStay
  <2>6. call'.cmd = call.cmd /\ call'.dir = call.dir
        /\ (Found.start # 0 => pc' = "free" /\ call'.clst = Found.start)
    BY <2>1, <2>2 DEF Locals
  <2>7. DirReached => DirReached'
    BY <2>5, <2>6 DEF DirReached
  <2>8. ASSUME NEW b \in Clusters, b \in Chain(view, Found.start) PROVE InHand(b)'
    <3>1. Found.start # 0
      BY <2>2, <2>8, ChainNone, Zeros
    <3>2. Chain(view', Found.start) = Chain(view, Found.start)
      BY <2>4 DEF OnlyEntry
    <3> QED BY <2>6, <2>8, <3>1, <3>2 DEF InHand
  <2>9. \A b \in Clusters : ~InHand(b)
    BY <1>1, <1>2 DEF InHand
  <2> QED BY <2>1, <2>2, <2>4, <2>5, <2>7, <2>8, <2>9, EntryOwned
<1> QED BY <1>3, <1>4

LEMMA RegisterOwned == Typed /\ Held /\ Owned /\ Register => Owned'
<1> SUFFICES ASSUME Typed, Held, Owned, Register PROVE Owned'
  OBVIOUS
<1> DEFINE c == call.clust
<1> DEFINE s == call.slot
<1> DEFINE d == call.dir
<1>1. /\ pc = "register" /\ call \in Locals /\ c \in Clusters /\ s \in Slots
      /\ call.name \in Names /\ ~UsedIn(view, c, s) /\ VolumeTyped(view) /\ Linked(view)
      /\ call.cmd \in {"stor", "mkd", "rnto"} /\ c \in Chain(view, d) /\ 0 \notin Clusters
  BY RegisterIs, Zeros
<1>2. ~Filling
  BY <1>1 DEF Filling, Taking, Writing
<1>3. /\ UNCHANGED <<dropped, troubles>>
      /\ call'.cmd = call.cmd /\ call'.dir = call.dir
  BY <1>1 DEF Register, OnlyKept, Goto, history, Locals
<1>4. \E e : /\ OnlyEntry(view, view', c, s, e)
             /\ call.cmd = "mkd" => Used(e) /\ e.start = call.dcl
  <2>1. CASE call.cmd = "stor"
    <3> DEFINE e == NewFile(call.name)
    <3>1. EntryIs(view, view', c, s, e)
      BY <2>1 DEF Register, SetEntry, EntryIs, NewFile
    <3>2. /\ e \in Entry /\ e.kind = "file"
      BY <1>1, FatAssumption DEF Entry, Starts, Blocks, NewFile
    <3> HIDE DEF e
    <3>3. OnlyEntry(view, view', c, s, e)
      BY <1>1, <3>1, <3>2, EntrySetIs
    <3> QED BY <2>1, <3>3
  <2>2. CASE call.cmd = "mkd"
    <3> DEFINE e == NewDir(call.name, call.dcl)
    <3>1. EntryIs(view, view', c, s, e)
      <4>1. e = [[name |-> call.name, kind |-> "file", start |-> 0, size |-> 0]
                   EXCEPT !.kind = "dir", !.start = call.dcl]
        BY DEF NewDir, NewFile
      <4> HIDE DEF e
      <4> QED BY <2>2, <4>1 DEF Register, SetEntry, EntryIs
    <3>2. call.dcl \in Starts /\ call.dcl # 0
      BY <1>1, <2>2, LocalsAre DEF Typed, OtherTyped, Entering
    <3>3. /\ e \in Entry /\ e.kind = "dir" /\ e.start = call.dcl /\ e.name = call.name
      <4>1. 0 \in Starts /\ 0 \in Blocks
        BY Zeros
      <4>2. NewFile(call.name) \in Entry
        BY <1>1, <4>1 DEF Entry, NewFile
      <4>3. e \in Entry
        BY <3>2, <4>2 DEF Entry, NewDir
      <4> QED BY <4>3 DEF NewDir, NewFile
    <3> HIDE DEF e
    <3>4. call.dcl \in Clusters
      BY <3>2, Zeros
    <3>5. OnlyEntry(view, view', c, s, e)
      BY <1>1, <3>1, <3>3, <3>4, EntrySetIs
    <3> QED BY <1>1, <3>3, <3>5 DEF Used
  <2>3. CASE call.cmd = "rnto"
    BY <2>3, NewNameIs
  <2> QED BY <1>1, <2>1, <2>2, <2>3
<1>5. PICK e : /\ OnlyEntry(view, view', c, s, e)
               /\ call.cmd = "mkd" => Used(e) /\ e.start = call.dcl
  BY <1>4
<1>6. Dirs(view) \subseteq Dirs(view') /\ VolumeTyped(view')
  BY <1>1, <1>5, DirsStay DEF OnlyEntry
<1>7. DirReached => DirReached'
  BY <1>3, <1>6 DEF DirReached
<1>8. CASE troubles = 0
  <2>1. ASSUME NEW b \in Clusters, InHand(b) PROVE b \in Reached(view')
    <3>1. call.cmd = "mkd" /\ b \in Chain(view, call.dcl)
      BY <1>1, <1>2, <2>1 DEF InHand, Making
    <3>2. d \in Dirs(view')
      BY <1>6, <1>8, <3>1 DEF Owned, DirReached
    <3>3. /\ c \in Chain(view', d) /\ UsedIn(view', c, s)
          /\ b \in Chain(view', EntryIn(view', c, s).start)
      BY <1>1, <1>5, <3>1 DEF OnlyEntry, UsedIn
    <3> QED BY <1>1, <1>6, <3>2, <3>3, ReachedIs
  <2> QED BY <1>1, <1>3, <1>5, <1>6, <1>7, <2>1, EntryOwned
<1>9. CASE troubles # 0
  BY <1>3, <1>9 DEF Owned
<1> QED BY <1>8, <1>9

LEMMA CloseOwned == Typed /\ Held /\ Owned /\ Close => Owned'
<1> SUFFICES ASSUME Typed, Held, Owned, Close PROVE Owned'
  OBVIOUS
<1> DEFINE c == call.clust
<1> DEFINE s == call.slot
<1> DEFINE d == call.dir
<1> DEFINE e == Filled(Found, call.sclust, call.size)
<1>1. /\ pc = "close" /\ pc' = "sync" /\ call' = call /\ EntryIs(view, view', c, s, e)
      /\ UNCHANGED <<dropped, troubles>>
  BY DEF Close, At, Goto, SetEntry, EntryIs, history, Filled
<1>2. /\ call \in Locals /\ call.cmd = "stor" /\ c \in Clusters /\ s \in Slots
      /\ c \in Chain(view, d) /\ VolumeTyped(view) /\ Linked(view)
      /\ Found = EntryIn(view, c, s) /\ Found \in Entry /\ Found.kind = "file"
      /\ Found.start = 0 /\ UsedIn(view, c, s)
  BY <1>1, CloseIs
<1>3. /\ e \in Entry /\ e.kind = "file" /\ e.start = call.sclust /\ e.name = Found.name
  <2>1. call.sclust \in Starts /\ call.size \in Blocks
    BY <1>2, LocalsAre
  <2> QED BY <1>2, <2>1, FilledIs
<1> HIDE DEF e
<1>4. OnlyEntry(view, view', c, s, e)
  BY <1>1, <1>2, <1>3, EntrySetIs
<1>5. Dirs(view) \subseteq Dirs(view') /\ VolumeTyped(view')
  BY <1>2, <1>4, DirsStay DEF OnlyEntry
<1>6. DirReached => DirReached'
  BY <1>1, <1>5 DEF DirReached
<1>7. Chain(view, Found.start) = {}
  BY <1>2, ChainNone, Zeros
<1>8. CASE troubles = 0
  <2>1. ASSUME NEW b \in Clusters, InHand(b) PROVE b \in Reached(view')
    <3>1. b \in Chain(view, call.sclust)
      BY <1>1, <1>2, <2>1 DEF InHand, Making
    <3>2. d \in Dirs(view')
      BY <1>2, <1>5, <1>8 DEF Owned, DirReached
    <3>3. /\ c \in Chain(view', d) /\ UsedIn(view', c, s)
          /\ b \in Chain(view', EntryIn(view', c, s).start)
      BY <1>2, <1>3, <1>4, <3>1 DEF OnlyEntry, UsedIn, Used
    <3> QED BY <1>2, <1>5, <3>2, <3>3, ReachedIs
  <2> QED BY <1>1, <1>2, <1>4, <1>5, <1>6, <1>7, <2>1, EntryOwned
<1>9. CASE troubles # 0
  BY <1>1, <1>9 DEF Owned
<1> QED BY <1>8, <1>9

LEMMA RemoveOwned == Typed /\ Held /\ Owned /\ Remove => Owned'
<1> SUFFICES ASSUME Typed, Held, Owned, Remove PROVE Owned'
  OBVIOUS
<1> DEFINE c == call.oclust
<1> DEFINE s == call.oslot
<1> DEFINE h == call.entry.start
<1>1. /\ pc = "remove" /\ EntryIs(view, view', c, s, Unused("gone"))
      /\ OnlyEntry(view, view', c, s, Unused("gone"))
      /\ call \in Locals /\ call.cmd \in {"unlink", "rnto"}
      /\ c \in Clusters /\ s \in Slots
      /\ EntryIn(view, c, s) = call.entry /\ UsedIn(view, c, s)
      /\ VolumeTyped(view) /\ Linked(view) /\ troubles' = troubles
  BY RemoveIs DEF Remove
<1>2. \A b \in Clusters : ~InHand(b)
  BY <1>1 DEF InHand, Filling, Taking, Writing, Making
<1>3. CASE call.cmd = "unlink" /\ call.entry.kind = "dir"
  <2>1. pc' = "free" /\ call' = [call EXCEPT !.clst = h] /\ dropped' = dropped
    BY <1>3 DEF Remove
  <2>2. AllBare(view, h)
    BY <1>1, <1>3 DEF Held, Known, KnowEmpty
  <2>3. Dirs(view) \subseteq Dirs(view') \cup {h}
    BY <1>1, <2>2, DirsLeft
  <2>4. call'.clst = h /\ call'.cmd = call.cmd
    BY <1>1, <2>1 DEF Locals
  <2>5. ASSUME NEW b \in Clusters, b \in Chain(view, EntryIn(view, c, s).start)
        PROVE  InHand(b)'
    <3>1. Chain(view', h) = Chain(view, h)
      BY <1>1 DEF OnlyEntry
    <3> QED BY <1>1, <2>1, <2>4, <2>5, <3>1 DEF InHand
  <2>6. DirReached'
    BY <1>3, <2>4 DEF DirReached
  <2>7. \A d \in Dirs(view) : d \in Dirs(view') \/ AllBare(view, d)
    BY <2>2, <2>3
  <2> QED BY <1>1, <1>2, <2>1, <2>5, <2>6, <2>7, EntryOwned
<1>4. CASE ~(call.cmd = "unlink" /\ call.entry.kind = "dir")
  <2>1. call' = call /\ dropped' = dropped \cup CutOff(view)
    BY <1>4 DEF Remove, Goto
  <2>2. CutOff(view) = {b \in Clusters : b \in Reached(view) \ Reached(view')}
    BY <1>1 DEF CutOff, EntryIs
  <2>3. DirReached'
    BY <1>1, <2>1 DEF DirReached
  <2>4. view'.fat = view.fat
    BY <1>1 DEF OnlyEntry
  <2> QED BY <1>1, <1>2, <2>1, <2>2, <2>3, <2>4 DEF Owned, Lost
<1> QED BY <1>3, <1>4

-----------------------------------------------------------------------------
(* What is lost is what was deleted.                                       *)

LEMMA InitOwned == Typed /\ Init => Owned
<1> SUFFICES ASSUME Typed, Init PROVE Owned
  OBVIOUS
<1>1. VolumeTyped(view) /\ \A c \in Clusters : view.fat[c] # 0 => c = Root
  BY DEF Init, Typed, DiskTyped
<1>2. Root \in Chain(view, Root)
  BY <1>1, ChainIs, ClustersCount, TypedIsLinked
<1>3. Root \in Reached(view)
  BY <1>1, <1>2, ReachedIs
<1>4. DirReached
  BY DEF Init, NoCall, DirReached
<1> QED BY <1>1, <1>3, <1>4 DEF Owned, Lost

\* The inductive invariant of what is lost holds.
THEOREM SpecOwned == Spec => []Owned
<1>1. Init => Owned
  BY InitTyped, InitOwned
<1>2. Typed /\ Held /\ Owned /\ [Next]_vars => Owned'
  <2> SUFFICES ASSUME Typed, Held, Owned, [Next]_vars PROVE Owned'
    OBVIOUS
  <2>1. CASE Step
    BY <2>1, LookOwned, MissingOwned, RemovalOwned, MakingOwned, FillingOwned, SyncOwned,
       ScanOwned, LinkOwned, SectorsOwned, FreeOwned, StorFoundOwned, RegisterOwned, CloseOwned,
       RemoveOwned DEF Step
  <2>2. CASE ~Step
    BY <2>2, BeginOwned, WindowOwned, TroubleOwned DEF Next, Stopped
  <2> QED BY <2>1, <2>2
<1> QED BY <1>1, <1>2, SpecTyped, SpecHeld, PTL DEF Spec

\* While nothing has failed, no cluster is lost but to deleted files and to
\* directories that were cut off.
THEOREM OnlyDeletedIsLostThm == Spec => []OnlyDeletedIsLost
<1>1. Typed /\ Owned => OnlyDeletedIsLost
  <2> SUFFICES ASSUME Typed, Owned, pc = "idle", troubles = 0, NEW c \in Clusters,
                      view.fat[c] # 0, c \notin Reached(view) \cup dropped
               PROVE  FALSE
    BY DEF OnlyDeletedIsLost
  <2>1. InHand(c)
    BY DEF Owned, Lost
  <2>2. call.cmd = "none"
    BY DEF Typed, CallTyped
  <2> QED BY <2>1, <2>2 DEF InHand, Filling, Taking, Writing, Making
<1> QED BY <1>1, SpecTyped, SpecOwned, PTL
=============================================================================
