--------------------------- MODULE FatVolumeProofs ---------------------------
(***************************************************************************)
(* Two results about the FAT volume, for volumes of any size.  A call has  *)
(* at every step the clusters, the slot and the entry the step needs.  And *)
(* what ff.c sees and what the card holds differ in the sector of the      *)
(* window only: so that is all a power failure takes away.                 *)
(*                                                                         *)
(* Then the lemmas that FatSoundProofs rests on, each about one volume m   *)
(* or about two, before and after a step: what a chain is and which        *)
(* directories can be reached, both defined by recursion; what makes a     *)
(* volume whole (Whole), but for what a call is at work on; and that it    *)
(* stays whole when one link, one sector or one entry changes.             *)
(***************************************************************************)
EXTENDS FatVolume, FiniteSetTheorems, WellFoundedInduction, TLAPS

-----------------------------------------------------------------------------
(* Types.  What a call has in its locals at each step, so that a step that *)
(* needs a cluster or a slot has one.                                      *)

Searching == {"find", "findNext", "missing"}
Entering  == {"alloc", "allocNext", "register", "stretch", "stretched"}
Taking    == {"scan", "link"}
Writing   == {"data", "more", "whole", "part", "close"}
Removing  == {"dotdot", "seek", "remove"}

VolumeTyped(m) ==
  /\ m \in Volume
  /\ \A c \in Clusters, s \in Slots :
       m.data[c].ents[s].kind = "dir" => m.data[c].ents[s].start \in Clusters

DiskTyped ==
  /\ VolumeTyped(view) /\ VolumeTyped(card)
  /\ win \in Sectors \cup {NoSector} /\ wflag \in BOOLEAN
  /\ last_clust \in 0 .. LAST

HistoryTyped ==
  /\ kept \in [Clusters -> [Names -> Promise \cup {NoPromise}]]
  /\ dropped \subseteq Clusters /\ raw \subseteq Clusters /\ crossed \in BOOLEAN
  /\ calls \in 0 .. MAX_CALLS /\ troubles \in 0 .. MAX_TROUBLES

CallTyped ==
  /\ pc \in Syncing \cup InDir \cup InFat \cup Others
  /\ call \in Locals
  /\ open = NoPlace \/ open \in Clusters \X Slots
  /\ pc = "idle" <=> call.cmd = "none"
  /\ pc # "idle" => call.clust \in Clusters /\ call.dir \in Clusters /\ call.name \in Names

StorTyped ==
  call.cmd = "stor" =>
    /\ pc \in Searching \cup Entering \cup Taking \cup Writing
              \cup {"found", "free", "reopen", "sync"}
    /\ call.text \in Texts
    /\ pc \in Searching => call.slot = 0
    /\ pc \in Entering \cup {"free", "reopen"} => open = NoPlace
    /\ pc \in Writing \cup {"sync"} => open = Here
    /\ pc \in Taking => open = NoPlace \/ open = Here
    /\ pc \in Taking \cup {"more", "whole", "part"} /\ open # NoPlace => call.size < MAX_BLOCKS
    /\ pc \in {"free", "reopen"} => call.slot \in Slots
    /\ pc = "free" => call.entry.start # 0

OtherTyped ==
  /\ call.cmd = "mkd" =>
       /\ pc \in Searching \cup Entering \cup Taking
                 \cup {"found", "mkdSync", "mkdDots", "free", "sync"}
       /\ pc \in Entering \cup {"mkdSync", "mkdDots"} => call.dcl # 0
  /\ call.cmd = "unlink" =>
       /\ pc \in Searching \cup {"found", "empty", "emptyNext", "seek", "remove", "free", "sync"}
       /\ pc \in {"empty", "emptyNext"} => call.entry.kind = "dir" /\ call.odir # 0
  /\ call.cmd = "rnto" =>
       /\ pc \in Searching \cup Entering \cup Taking \cup Removing \cup {"found", "sync"}
       /\ pc \in Entering \cup Taking => call.odir # 0

StepTyped ==
  /\ pc \in {"found", "register"} => call.slot \in Slots
  /\ pc \in Removing => call.odir # 0
  /\ call.odir # 0 => /\ call.oclust \in Clusters /\ call.oslot \in Slots
                      /\ call.walk \in Clusters /\ call.entry.name \in Names
  /\ pc \in {"empty", "emptyNext", "free"} => call.clst \in Clusters
  /\ pc \in Taking \cup {"stretch", "stretched", "whole", "part"} => call.ncl \in Clusters
  /\ pc = "link" => call.prev \in Clusters
  /\ pc = "more" => call.last \in Clusters
  /\ call.sclust # 0 => call.last \in Clusters
  /\ call.entry.kind = "dir" => call.entry.start \in Clusters

\* The entry a call has found, and the one of the file it has open.
EntryTyped ==
  /\ pc = "found" => Found.name = call.name
  /\ /\ call.cmd = "stor"
     /\ (pc \in Taking \cup Writing /\ open # NoPlace) \/ pc \in {"free", "reopen"}
     => Found.kind = "file"

Typed ==
  /\ DiskTyped /\ HistoryTyped
  /\ CallTyped /\ StorTyped /\ OtherTyped /\ StepTyped /\ EntryTyped

LEMMA TypedIsTypeOK == Typed => TypeOK
BY FatAssumption DEF Typed, TypeOK, DiskTyped, VolumeTyped, HistoryTyped, CallTyped,
   Place, NoPlace, Starts, Slots

LEMMA EntrySetTyped ==
  ASSUME NEW m, VolumeTyped(m), NEW c, NEW s, NEW e \in Entry,
         e.kind = "dir" => e.start \in Clusters,
         NEW n, n = [m EXCEPT !.data[c].ents[s] = e]
  PROVE  VolumeTyped(n)
<1>1. n \in Volume
  BY DEF VolumeTyped, Volume, Content
<1>2. ASSUME NEW d \in Clusters, NEW t \in Slots
      PROVE  n.data[d].ents[t] = IF d = c /\ t = s THEN e ELSE m.data[d].ents[t]
  BY DEF VolumeTyped, Volume, Content
<1> QED BY <1>1, <1>2 DEF VolumeTyped

LEMMA SectorSetTyped ==
  ASSUME NEW m, VolumeTyped(m), NEW c, NEW x \in Content,
         \A s \in Slots : x.ents[s].kind = "dir" => x.ents[s].start \in Clusters,
         NEW n, n = [m EXCEPT !.data[c] = x]
  PROVE  VolumeTyped(n)
<1>1. n \in Volume
  BY DEF VolumeTyped, Volume
<1>2. ASSUME NEW d \in Clusters
      PROVE  n.data[d] = IF d = c THEN x ELSE m.data[d]
  BY DEF VolumeTyped, Volume
<1> QED BY <1>1, <1>2 DEF VolumeTyped

LEMMA LinkSetTyped ==
  ASSUME NEW m, VolumeTyped(m), NEW c, NEW v \in Links,
         NEW n, n = [m EXCEPT !.fat[c] = v]
  PROVE  VolumeTyped(n) /\ n.data = m.data
<1>1. n \in Volume /\ n.data = m.data
  BY DEF VolumeTyped, Volume
<1> QED BY <1>1 DEF VolumeTyped

\* A new table, and the text of a file, have unused entries.
LEMMA TableTyped ==
  ASSUME NEW up \in Starts, NEW t \in Texts \cup {Tab, Old}
  PROVE  /\ Table(up) \in Content /\ Datum(t) \in Content
         /\ \A s \in Slots : Table(up).ents[s].kind = "file" /\ Datum(t).ents[s].kind = "file"
         /\ Unused("end") \in Entry /\ Unused("gone") \in Entry
         /\ Unused("end").kind = "file" /\ Unused("gone").kind = "file"
         /\ Unused("end").name = "end" /\ Unused("gone").name = "gone"
<1>1. \A mark \in {"end", "gone"} :
        Unused(mark) \in Entry /\ Unused(mark).kind = "file" /\ Unused(mark).name = mark
  BY FatAssumption DEF Unused, Entry, Starts, Blocks
<1>2. Table(up) \in Content /\ \A s \in Slots : Table(up).ents[s] = Unused("end")
  BY <1>1 DEF Table, Content
<1>3. Table(0) \in Content /\ \A s \in Slots : Table(0).ents[s] = Unused("end")
  BY <1>1 DEF Table, Content, Starts
<1>4. Datum(t) \in Content /\ Datum(t).ents = Table(0).ents
  BY <1>3 DEF Datum, Content
<1> QED BY <1>1, <1>2, <1>3, <1>4

-----------------------------------------------------------------------------
(* Where a call goes on or ends.                                           *)

CallFits == CallTyped /\ StorTyped /\ OtherTyped /\ StepTyped /\ EntryTyped

LEMMA Zeros ==
  /\ 0 \in Starts /\ 0 \in 0 .. LAST /\ 0 \in 0 .. ENTS /\ 0 \in Blocks /\ 0 \notin Clusters
  /\ \A c \in Starts : c # 0 <=> c \in Clusters
  /\ \A c \in Clusters : c \in Starts /\ c \in 0 .. LAST /\ c # 0
BY FatAssumption DEF Starts, Clusters, Root, Blocks

LEMMA NoCallTyped == NoCall \in Locals
BY FatAssumption DEF NoCall, Locals, Starts, Entry, Unused, Blocks

LEMMA LocalsAre ==
  ASSUME call \in Locals
  PROVE  /\ call.cmd \in {"none", "stor", "unlink", "mkd", "rnto"}
         /\ call.dir \in Starts /\ call.clust \in Starts /\ call.odir \in Starts
         /\ call.oclust \in Starts /\ call.walk \in Starts /\ call.prev \in Starts
         /\ call.ncl \in Starts /\ call.clst \in Starts /\ call.dcl \in Starts
         /\ call.sclust \in Starts /\ call.last \in Starts
         /\ call.name \in Names \cup {"end"} /\ call.slot \in 0 .. ENTS
         /\ call.oslot \in 0 .. ENTS /\ call.entry \in Entry /\ call.scl \in 0 .. LAST
         /\ call.size \in Blocks /\ call.text \in Texts \cup {Old}
         /\ call.promise \in Promise \cup {NoPromise}
BY DEF Locals

LEMMA ReturnFits ==
  ASSUME Typed, Return, open' = open \/ open' = NoPlace
  PROVE  CallFits'
<1> USE DEF Typed, Return
<1>1. CallTyped'
  BY NoCallTyped DEF CallTyped, NoCall, Others
<1>2. StorTyped' /\ OtherTyped' /\ EntryTyped'
  BY DEF StorTyped, OtherTyped, EntryTyped, NoCall
<1>3. StepTyped'
  BY DEF StepTyped, NoCall, Unused, Taking, Removing
<1> QED BY <1>1, <1>2, <1>3 DEF CallFits

LEMMA ScansFits ==
  ASSUME Typed, NEW prev \in Starts, Scans(prev), UNCHANGED <<view, open>>,
         call.cmd \in {"stor", "mkd", "rnto"},
         call.cmd = "stor" =>
           (pc \in {"data", "more"} /\ call.size < MAX_BLOCKS) \/ pc = "allocNext",
         call.cmd = "rnto" => call.odir # 0
  PROVE  CallFits'
<1> USE DEF Typed
<1>1. PICK scl \in 0 .. LAST, ncl \in Clusters :
        call' = [call EXCEPT !.prev = prev, !.scl = scl, !.ncl = ncl] /\ pc' = "scan"
  <2>1. (IF prev # 0 THEN prev ELSE IF last_clust = 0 THEN 1 ELSE last_clust) \in 1 .. LAST
    BY FatAssumption DEF DiskTyped, Starts, Clusters, Root
  <2>2. \A c \in 1 .. LAST : c \in 0 .. LAST /\ After(c) \in Clusters
    BY FatAssumption DEF After, Clusters, Root
  <2> QED BY <2>1, <2>2 DEF Scans
<1>2. call' \in Locals
  BY <1>1, Zeros DEF CallTyped, Locals
<1> USE <1>1 DEF CallTyped, Locals
<1>3. CallTyped'
  BY <1>2 DEF Others
<1>4. StorTyped'
  BY DEF StorTyped, Searching, Entering, Taking, Writing, Here
<1>5. OtherTyped'
  BY DEF OtherTyped, Entering, Taking, Removing, Searching
<1>6. StepTyped'
  BY DEF StepTyped, Taking, Removing
<1>7. EntryTyped'
  BY DEF EntryTyped, StorTyped, Taking, Writing, Entering, Found, Ents
<1> QED BY <1>3, <1>4, <1>5, <1>6, <1>7 DEF CallFits

\* The files of the directory sectors stay where a step changes links only.
LEMMA AllocatedFits ==
  ASSUME Typed, pc \in Taking, Allocated, open' = open, view'.data = view.data
  PROVE  CallFits'
<1> USE DEF Typed
<1>1. call.ncl \in Clusters /\ call.cmd \in {"stor", "mkd", "rnto"}
  BY DEF StepTyped, CallTyped, OtherTyped, Locals, Taking, Removing, Searching, Entering
<1>2. PICK last \in Starts, sclust \in Starts, dcl \in Starts :
        /\ call' = [call EXCEPT !.prev = 0, !.scl = 0, !.last = last,
                                !.sclust = sclust, !.dcl = dcl]
        /\ sclust # 0 => last \in Clusters
        /\ \/ Opened /\ pc' \in {"whole", "part"}
           \/ ~Opened /\ call.cmd = "mkd" /\ dcl \in Clusters /\ pc' = "mkdSync"
           \/ ~Opened /\ (call.cmd = "mkd" => dcl \in Clusters) /\ pc' = "stretch"
  <2>1. CASE Opened
    <3>1. call' = [call EXCEPT !.prev = 0, !.scl = 0, !.last = call.ncl,
                               !.sclust = IF @ = 0 THEN call.ncl ELSE @, !.dcl = call.dcl]
      BY <2>1 DEF Allocated, CallTyped, Locals
    <3>2. call.ncl \in Starts /\ call.dcl \in Starts /\ call.sclust \in Starts
      BY DEF CallTyped, Locals
    <3> QED BY <1>1, <2>1, <3>1, <3>2 DEF Allocated
  <2>2. CASE ~Opened
    <3>1. call' = [call EXCEPT !.prev = 0, !.scl = 0, !.last = call.last, !.sclust = call.sclust,
                     !.dcl = IF call.cmd = "mkd" /\ @ = 0 THEN call.ncl ELSE @]
      BY <2>2 DEF Allocated, CallTyped, Locals
    <3>2. /\ call.ncl \in Starts /\ call.dcl \in Starts
          /\ call.sclust \in Starts /\ call.last \in Starts
      BY DEF CallTyped, Locals
    <3> QED BY <1>1, <2>2, <3>1, <3>2, Zeros DEF Allocated, StepTyped
  <2> QED BY <2>1, <2>2
<1>3. call' \in Locals
  BY <1>2, Zeros DEF CallTyped, Locals
<1> USE <1>1, <1>2 DEF CallTyped, Locals
<1>4. CallTyped'
  BY <1>3 DEF Others, Syncing
<1>5. StorTyped'
  BY DEF StorTyped, Searching, Entering, Taking, Writing, Here, Opened
<1>6. OtherTyped' /\ StepTyped'
  BY Zeros DEF OtherTyped, StepTyped, Entering, Taking, Removing, Searching, Opened
<1>7. EntryTyped'
  BY DEF EntryTyped, StorTyped, Taking, Writing, Found, Ents, Opened
<1> QED BY <1>4, <1>5, <1>6, <1>7 DEF CallFits

LEMMA NoSpaceFits ==
  ASSUME Typed, pc = "scan", NoSpace, UNCHANGED <<view, open>>
  PROVE  CallFits'
<1> USE DEF Typed, NoSpace
<1>1. CASE Return
  BY <1>1, ReturnFits
<1>2. CASE Opened /\ pc' = "data" /\ call' = [call EXCEPT !.prev = 0, !.scl = 0, !.ncl = 0]
  <2> USE <1>2 DEF CallTyped, Locals
  <2>1. CallTyped'
    BY Zeros DEF Others
  <2>2. StorTyped'
    BY DEF StorTyped, Searching, Entering, Taking, Writing, Here, Opened
  <2>3. OtherTyped'
    BY DEF OtherTyped, Opened
  <2>4. StepTyped'
    BY DEF StepTyped, Taking, Removing
  <2>5. EntryTyped'
    BY DEF EntryTyped, StorTyped, Taking, Writing, Found, Ents, Opened
  <2> QED BY <2>1, <2>2, <2>3, <2>4, <2>5 DEF CallFits
<1>3. CASE /\ ~Opened /\ call.cmd = "mkd" /\ call.dcl # 0
           /\ pc' = "free" /\ call' = [call EXCEPT !.clst = call.dcl]
  <2> USE <1>3 DEF CallTyped, Locals
  <2>1. CallTyped'
    BY DEF Others
  <2>2. StorTyped' /\ OtherTyped' /\ EntryTyped'
    BY DEF StorTyped, OtherTyped, EntryTyped, Entering, Searching, Taking
  <2>3. StepTyped'
    BY DEF StepTyped, Taking, Removing, Starts
  <2> QED BY <2>1, <2>2, <2>3 DEF CallFits
<1> QED BY <1>1, <1>2, <1>3

\* What a call has open is not where it searches or enters a name.
LEMMA OpenedWhen ==
  ASSUME Typed, Opened
  PROVE  /\ open # NoPlace /\ call.slot \in Slots
         /\ pc \in {"found", "sync"} \cup Taking \cup Writing
<1>1. call.cmd = "stor" /\ open = Here /\ call.clust \in Clusters /\ 0 \notin Slots
  BY DEF Typed, CallTyped, Opened, Slots
<1>2. open # NoPlace /\ call.slot \in Slots
  BY <1>1, Zeros DEF Here, NoPlace, Typed, CallTyped
<1> QED BY <1>1, <1>2 DEF Typed, StorTyped

LEMMA GivesUpFits ==
  ASSUME Typed, pc # "found", GivesUp, UNCHANGED <<view, open>>
  PROVE  CallFits'
<1> USE DEF Typed, GivesUp
<1>1. CASE Opened /\ pc \notin {"close", "sync"}
  <2>1. open # NoPlace /\ call.slot \in Slots /\ pc \in Taking \cup Writing
    BY <1>1, OpenedWhen
  <2> USE <1>1, <2>1 DEF CallTyped, Locals
  <2>2. CallTyped' /\ StepTyped'
    BY DEF Opened, InDir, StepTyped, Taking, Removing
  <2>3. StorTyped' /\ OtherTyped' /\ EntryTyped'
    BY DEF StorTyped, OtherTyped, EntryTyped, Searching, Entering, Taking, Writing, Here,
           Opened, Found, Ents
  <2> QED BY <2>2, <2>3 DEF CallFits
<1>2. CASE /\ ~(Opened /\ pc \notin {"close", "sync"})
           /\ call.cmd = "mkd" /\ call.dcl # 0 /\ pc \notin {"free", "sync"}
  <2> USE <1>2 DEF CallTyped, Locals
  <2>1. CallTyped' /\ StepTyped'
    BY Zeros DEF Others, StepTyped, Taking, Removing
  <2>2. StorTyped' /\ OtherTyped' /\ EntryTyped'
    BY DEF StorTyped, OtherTyped, EntryTyped, Searching, Entering, Taking
  <2> QED BY <2>1, <2>2 DEF CallFits
<1> QED BY <1>1, <1>2, ReturnFits

\* A step that changes the cluster of the search only, and goes on searching.
LEMMA FollowFits ==
  ASSUME Typed, NEW step \in {"findNext", "allocNext"}, pc = step, NEW c \in Clusters,
         pc' = (IF step = "findNext" THEN "find" ELSE "alloc"),
         call' = [call EXCEPT !.clust = c], UNCHANGED <<view, open>>
  PROVE  CallFits'
<1> USE DEF Typed, CallTyped, Locals
<1>1. CallTyped' /\ StepTyped'
  BY Zeros DEF InDir, StepTyped, Taking, Removing
<1>2. StorTyped'
  BY DEF StorTyped, Searching, Entering, Taking, Writing
<1>3. OtherTyped'
  BY DEF OtherTyped, Searching, Entering, Taking, Removing
<1>4. EntryTyped'
  BY DEF EntryTyped, Taking, Writing
<1> QED BY <1>1, <1>2, <1>3, <1>4 DEF CallFits

\* What the entry that was found is.
LEMMA FoundIs ==
  ASSUME Typed, pc = "found"
  PROVE  /\ Found \in Entry /\ Found.start \in Starts /\ Found.name = call.name
         /\ call.slot \in Slots /\ call.clust \in Clusters /\ call.name \in Names
         /\ Found.kind \in {"file", "dir"}
         /\ Found.kind = "dir" => Found.start \in Clusters
<1>1. /\ call.slot \in Slots /\ call.clust \in Clusters
      /\ call.name \in Names /\ Found.name = call.name
  BY DEF Typed, StepTyped, CallTyped, EntryTyped
<1>2. Found \in Entry /\ (Found.kind = "dir" => Found.start \in Clusters)
  BY <1>1 DEF Typed, DiskTyped, VolumeTyped, Volume, Content, Found, Ents
<1> QED BY <1>1, <1>2 DEF Entry

LEMMA LocalTyped ==
  ASSUME Typed, Local
  PROVE  DiskTyped' /\ HistoryTyped' /\ view' = view /\ open' = open
BY DEF Local, diskVars, history, Typed, DiskTyped, VolumeTyped, HistoryTyped

LEMMA SearchTyped ==
  Typed /\ (Find \/ FindNext \/ Alloc \/ AllocNext \/ StorMissing \/ RntoMissing) => Typed'
<1> SUFFICES ASSUME Typed, Find \/ FindNext \/ Alloc \/ AllocNext \/ StorMissing \/ RntoMissing
             PROVE  Typed'
  OBVIOUS
<1>1. Local
  BY DEF Find, FindNext, Alloc, AllocNext, StorMissing, RntoMissing, Follow, Refused
<1>2. view' = view /\ open' = open
  BY <1>1, LocalTyped
<1> USE DEF At
<1>3. CallFits'
  <2>1. CASE Find
    <3> USE <1>2, <2>1 DEF Find, Typed, CallTyped, Locals
    <3>1. CASE \E s \in Slots : /\ Ents(call.clust)[s].name = call.name
                                /\ pc' = "found" /\ call' = [call EXCEPT !.slot = s]
      <4> USE <3>1
      <4>1. CallTyped'
        BY FatAssumption DEF Others, Slots
      <4>2. StorTyped' /\ OtherTyped' /\ EntryTyped'
        BY DEF StorTyped, OtherTyped, EntryTyped, Searching, Entering, Taking, Writing,
               Found, Ents
      <4>3. StepTyped'
        BY DEF StepTyped, Taking, Removing
      <4> QED BY <4>1, <4>2, <4>3 DEF CallFits
    <3>2. CASE pc' \in {"missing", "findNext"} /\ call' = call
      <4> USE <3>2
      <4>1. CallTyped' /\ StepTyped'
        BY DEF Others, InFat, StepTyped, Taking, Removing
      <4>2. StorTyped' /\ OtherTyped' /\ EntryTyped'
        BY DEF StorTyped, OtherTyped, EntryTyped, Searching, Entering, Taking, Writing
      <4> QED BY <4>1, <4>2 DEF CallFits
    <3> QED BY <3>1, <3>2 DEF Goto
  <2>2. CASE FindNext
    <3>1. CASE pc' = "missing" /\ call' = call
      <4> USE <1>2, <2>2, <3>1 DEF FindNext, Follow, Typed, CallTyped, Locals
      <4>1. CallTyped' /\ StepTyped'
        BY DEF Others, StepTyped, Taking, Removing
      <4>2. StorTyped' /\ OtherTyped' /\ EntryTyped'
        BY DEF StorTyped, OtherTyped, EntryTyped, Searching, Entering, Taking, Writing
      <4> QED BY <4>1, <4>2 DEF CallFits
    <3>2. pc = "findNext"
      BY <2>2 DEF FindNext, Follow
    <3>3. ASSUME ~(pc' = "missing" /\ call' = call)
          PROVE  \E c \in Clusters : pc' = "find" /\ call' = [call EXCEPT !.clust = c]
      BY <2>2, <3>3 DEF FindNext, Follow, Goto
    <3> QED BY <1>2, <3>1, <3>2, <3>3, FollowFits
  <2>3. CASE Alloc
    <3> USE <1>2, <2>3 DEF Alloc, Typed, CallTyped, Locals
    <3>1. CASE \E s \in Slots : pc' = "register" /\ call' = [call EXCEPT !.slot = s]
      <4> USE <3>1
      <4>1. CallTyped' /\ StepTyped'
        BY FatAssumption DEF InDir, Slots, StepTyped, Taking, Removing
      <4>2. StorTyped' /\ OtherTyped' /\ EntryTyped'
        BY DEF StorTyped, OtherTyped, EntryTyped, Searching, Entering, Taking, Writing,
               Removing
      <4> QED BY <4>1, <4>2 DEF CallFits
    <3>2. CASE pc' = "allocNext" /\ call' = call
      <4> USE <3>2
      <4>1. CallTyped' /\ StepTyped'
        BY DEF InFat, StepTyped, Taking, Removing
      <4>2. StorTyped' /\ OtherTyped' /\ EntryTyped'
        BY DEF StorTyped, OtherTyped, EntryTyped, Searching, Entering, Taking, Writing,
               Removing
      <4> QED BY <4>1, <4>2 DEF CallFits
    <3> QED BY <3>1, <3>2 DEF Goto
  <2>4. CASE AllocNext
    <3>1. pc = "allocNext"
      BY <2>4 DEF AllocNext, Follow
    <3>2. \/ \E c \in Clusters : pc' = "alloc" /\ call' = [call EXCEPT !.clust = c]
          \/ Scans(call.clust)
      BY <2>4 DEF AllocNext, Follow
    <3>3. /\ call.clust \in Starts /\ call.cmd \in {"stor", "mkd", "rnto"}
          /\ call.cmd = "rnto" => call.odir # 0
      BY <3>1 DEF Typed, CallTyped, Locals, OtherTyped, Entering, Searching, Removing
    <3> QED BY <1>2, <3>1, <3>2, <3>3, FollowFits, ScansFits
  <2>5. CASE StorMissing \/ RntoMissing
    <3>1. CASE Return
      BY <1>2, <3>1, ReturnFits
    <3>2. CASE ~Return
      <4> USE <1>2, <2>5, <3>2 DEF StorMissing, RntoMissing, Refused, Typed, CallTyped, Locals
      <4>1. CallTyped' /\ StepTyped'
        BY Zeros DEF InDir, StepTyped, Taking, Removing
      <4>2. StorTyped' /\ OtherTyped' /\ EntryTyped'
        BY DEF StorTyped, OtherTyped, EntryTyped, Searching, Entering, Taking, Writing
      <4> QED BY <4>1, <4>2 DEF CallFits
    <3> QED BY <3>1, <3>2
  <2> QED BY <2>1, <2>2, <2>3, <2>4, <2>5
<1> QED BY <1>1, <1>3, LocalTyped DEF Typed, CallFits

\* The steps of the data of STOR that are in the locals of the call.
LEMMA WriteTyped ==
  Typed /\ (StorAbandoned \/ StorMore \/ More \/ StorEnd) => Typed'
<1> SUFFICES ASSUME Typed, StorAbandoned \/ StorMore \/ More \/ StorEnd PROVE Typed'
  OBVIOUS
<1>1. Local
  BY DEF StorAbandoned, StorMore, More, StorEnd, Refused
<1>2. view' = view /\ open' = open
  BY <1>1, LocalTyped
<1>3. /\ pc \in {"data", "more"} /\ call.cmd = "stor"
      /\ pc = "more" => call.size < MAX_BLOCKS /\ call.last \in Starts
  <2>1. pc \in {"data", "more"}
    BY DEF StorAbandoned, StorMore, More, StorEnd, At
  <2>2. call.cmd = "stor"
    BY <2>1 DEF Typed, CallTyped, OtherTyped, Locals, Searching, Entering, Taking, Removing
  <2>3. open # NoPlace
    BY <2>1, <2>2, OpenedWhen DEF Typed, StorTyped, Opened, Writing
  <2> QED BY <2>1, <2>2, <2>3 DEF Typed, StorTyped, CallTyped, Locals
<1>4. CallFits'
  <2>1. CASE StorAbandoned
    BY <1>2, <2>1, ReturnFits DEF StorAbandoned, Refused
  <2>2. CASE (StorMore /\ Scans(0)) \/ More
    BY <1>2, <1>3, <2>2, ScansFits, Zeros DEF StorMore, More, At
  <2>3. CASE (StorMore /\ ~Scans(0)) \/ StorEnd
    <3> USE <1>2, <1>3, <2>3 DEF StorMore, StorEnd, Goto, Typed, CallTyped
    <3>1. CallTyped' /\ StepTyped'
      BY Zeros DEF Others, InDir, StepTyped, Taking, Removing
    <3>2. StorTyped' /\ OtherTyped' /\ EntryTyped'
      BY DEF StorTyped, OtherTyped, EntryTyped, Searching, Entering, Taking, Writing,
             Found, Ents, Here
    <3> QED BY <3>1, <3>2 DEF CallFits
  <2> QED BY <2>1, <2>2, <2>3 DEF StorMore
<1> QED BY <1>1, <1>4, LocalTyped DEF Typed, CallFits

LEMMA RemovalTyped ==
  Typed /\ (Seek \/ UnlinkFound \/ UnlinkMissing \/ Empty \/ EmptyNext \/ RntoFound) => Typed'
<1> SUFFICES ASSUME Typed,
                    Seek \/ UnlinkFound \/ UnlinkMissing \/ Empty \/ EmptyNext \/ RntoFound
             PROVE  Typed'
  OBVIOUS
<1>1. Local
  BY DEF Seek, UnlinkFound, UnlinkMissing, Empty, EmptyNext, RntoFound, Refused
<1>2. view' = view /\ open' = open
  BY <1>1, LocalTyped
<1> USE DEF At
<1>3. CallFits'
  <2>1. CASE Return
    BY <1>2, <2>1, ReturnFits
  <2>2. CASE Seek
    <3>1. \E w \in Clusters, p \in {"seek", "remove"} : pc' = p /\ call' = [call EXCEPT !.walk = w]
      BY <2>2 DEF Seek, Goto, Typed, CallTyped, StepTyped, Locals, Removing
    <3> USE <1>2, <2>2, <3>1 DEF Seek, Typed, CallTyped, Locals
    <3>2. CallTyped'
      BY Zeros DEF Others
    <3>3. StepTyped'
      BY DEF StepTyped, Taking, Removing
    <3>4. StorTyped' /\ OtherTyped' /\ EntryTyped'
      BY DEF StorTyped, OtherTyped, EntryTyped, Searching, Entering, Taking, Writing,
             Removing
    <3> QED BY <3>2, <3>3, <3>4 DEF CallFits
  <2>3. CASE UnlinkFound /\ ~Return
    <3>1. pc = "found" /\ call.cmd = "unlink"
      BY <2>3 DEF UnlinkFound
    <3>2. PICK c \in Starts, p \in {"empty", "seek"} :
            /\ call' = [call EXCEPT !.odir = call.dir, !.oclust = call.clust, !.oslot = call.slot,
                                    !.walk = call.dir, !.entry = Found, !.clst = c]
            /\ pc' = p /\ (p = "empty" => Found.kind = "dir" /\ c \in Clusters)
      <4>1. CASE Found.kind = "dir"
        BY <2>3, <3>1, <4>1, FoundIs DEF UnlinkFound, OldIsHere
      <4>2. CASE Found.kind # "dir"
        <5>1. call' = [call EXCEPT !.odir = call.dir, !.oclust = call.clust, !.oslot = call.slot,
                                   !.walk = call.dir, !.entry = Found, !.clst = call.clst]
          BY <2>3, <4>2 DEF UnlinkFound, OldIsHere, Typed, CallTyped, Locals
        <5> QED BY <2>3, <4>2, <5>1, LocalsAre DEF UnlinkFound, Typed, CallTyped
      <4> QED BY <4>1, <4>2
    <3>3. call' \in Locals
      BY <3>1, <3>2, FoundIs, Zeros DEF Typed, CallTyped, Locals
    <3> USE <1>2, <3>1, <3>2, FoundIs DEF Typed, CallTyped, Locals
    <3>4. CallTyped'
      BY <3>3 DEF Others
    <3>5. StepTyped'
      BY Zeros DEF StepTyped, Taking, Removing
    <3>6. StorTyped' /\ OtherTyped' /\ EntryTyped'
      BY Zeros DEF StorTyped, OtherTyped, EntryTyped, Removing
    <3> QED BY <3>4, <3>5, <3>6 DEF CallFits
  <2>4. CASE (Empty /\ ~Return) \/ EmptyNext
    <3>1. /\ pc \in {"empty", "emptyNext"} /\ pc' \in {"empty", "emptyNext", "seek"}
          /\ \/ call' = call
             \/ \E c \in Clusters : call' = [call EXCEPT !.clst = c]
      BY <2>4 DEF Empty, EmptyNext, Goto
    <3>2. call.cmd = "unlink"
      BY <3>1 DEF Typed, CallTyped, StorTyped, OtherTyped, Locals, Searching, Entering,
                  Taking, Writing, Removing
    <3> USE <1>2, <3>1, <3>2 DEF Typed, CallTyped, Locals
    <3>3. CallTyped'
      BY Zeros DEF Others, InFat
    <3>4. StepTyped'
      BY DEF StepTyped, OtherTyped, Taking, Removing
    <3>5. StorTyped' /\ OtherTyped' /\ EntryTyped'
      BY DEF StorTyped, OtherTyped, EntryTyped, Removing
    <3> QED BY <3>3, <3>4, <3>5 DEF CallFits
  <2>5. CASE RntoFound /\ ~Return
    <3>1. pc = "found" /\ call.cmd = "rnto"
      BY <2>5 DEF RntoFound
    <3>2. PICK d \in Clusters, n \in Names :
            /\ pc' = "find"
            /\ call' = [OldIsHere EXCEPT !.dir = d, !.clust = d, !.name = n, !.slot = 0]
      BY <2>5 DEF RntoFound
    <3> USE <1>2, <3>1, <3>2, FoundIs DEF OldIsHere, Typed, CallTyped, Locals
    <3>3. CallTyped'
      BY Zeros DEF InDir, Slots
    <3>4. StepTyped'
      BY DEF StepTyped, Taking, Removing
    <3>5. StorTyped' /\ OtherTyped' /\ EntryTyped'
      BY DEF StorTyped, OtherTyped, EntryTyped, Searching, Entering, Taking
    <3> QED BY <3>3, <3>4, <3>5 DEF CallFits
  <2> QED BY <1>1, <2>1, <2>2, <2>3, <2>4, <2>5 DEF UnlinkMissing, Refused
<1> QED BY <1>1, <1>3, LocalTyped DEF Typed, CallFits

LEMMA DiskSame ==
  ASSUME Typed, UNCHANGED diskVars
  PROVE  DiskTyped' /\ view' = view
BY DEF diskVars, Typed, DiskTyped, VolumeTyped

LEMMA MakingTyped ==
  Typed /\ (MkdFound \/ MkdMissing \/ MkdDots \/ Stretched \/ Reopen) => Typed'
<1> SUFFICES ASSUME Typed, MkdFound \/ MkdMissing \/ MkdDots \/ Stretched \/ Reopen PROVE Typed'
  OBVIOUS
<1>1. UNCHANGED diskVars
  BY DEF MkdFound, MkdMissing, MkdDots, Stretched, Reopen, Refused, Local
<1>2. DiskTyped' /\ view' = view
  BY <1>1, DiskSame
<1> USE DEF At
<1>3. HistoryTyped'
  BY DEF MkdFound, MkdMissing, MkdDots, Stretched, Reopen, Refused, Local, history,
         Typed, HistoryTyped
<1>4. CallFits'
  <2>1. CASE MkdFound
    BY <1>2, <2>1, ReturnFits DEF MkdFound, Refused, Local
  <2>2. CASE MkdMissing
    BY <1>2, <2>2, ScansFits, Zeros DEF MkdMissing, Local
  <2>3. CASE MkdDots
    <3> USE <1>2, <2>3 DEF MkdDots, Local, Typed, CallTyped, Locals
    <3>0. call.cmd = "mkd"
      BY DEF StorTyped, OtherTyped, Searching, Entering, Taking, Writing, Removing
    <3>1. CallTyped' /\ StepTyped'
      BY <3>0, Zeros DEF InDir, StepTyped, Taking, Removing
    <3>2. StorTyped' /\ OtherTyped' /\ EntryTyped'
      BY <3>0 DEF StorTyped, OtherTyped, EntryTyped, Searching, Entering, Taking
    <3> QED BY <3>1, <3>2 DEF CallFits
  <2>4. CASE Stretched
    <3> USE <1>2, <2>4 DEF Stretched, Typed, CallTyped, Locals
    <3>1. CallTyped' /\ StepTyped'
      BY Zeros DEF InDir, StepTyped, Taking, Removing
    <3>2. StorTyped' /\ OtherTyped' /\ EntryTyped'
      BY DEF StorTyped, OtherTyped, EntryTyped, Searching, Entering, Taking, Writing,
             Removing
    <3> QED BY <3>1, <3>2 DEF CallFits
  <2>5. CASE Reopen
    <3>1. call.cmd = "stor" /\ call.slot \in Slots /\ Found.kind = "file" /\ call.clust \in Clusters
      BY <2>5 DEF Reopen, Typed, CallTyped, StorTyped, EntryTyped, OtherTyped, Searching,
                  Entering, Taking, Removing, Locals
    <3> USE <1>2, <2>5, <3>1 DEF Reopen, Goto, Typed, CallTyped
    <3>2. CallTyped' /\ StepTyped'
      BY DEF Others, StepTyped, Taking, Removing, Here
    <3>3. StorTyped' /\ OtherTyped' /\ EntryTyped'
      BY DEF StorTyped, OtherTyped, EntryTyped, Searching, Entering, Taking, Writing,
             Here, Found, Ents
    <3> QED BY <3>2, <3>3 DEF CallFits
  <2> QED BY <2>1, <2>2, <2>3, <2>4, <2>5
<1> QED BY <1>2, <1>3, <1>4 DEF Typed, CallFits

LEMMA SyncTyped == Typed /\ Sync => Typed'
<1> SUFFICES ASSUME Typed, Sync PROVE Typed'
  OBVIOUS
<1>1. DiskTyped'
  BY DiskSame DEF Sync
<1>2. CallFits'
  BY ReturnFits DEF Sync
<1>3. [text |-> call.text, size |-> call.size] \in Promise \/ call.cmd # "stor"
  BY DEF Typed, CallTyped, Locals, StorTyped, Promise
<1>4. call.promise \in Promise \cup {NoPromise}
  BY LocalsAre DEF Typed, CallTyped
<1>5. HistoryTyped'
  BY <1>3, <1>4 DEF Sync, OnlyKept, Typed, HistoryTyped
<1> QED BY <1>1, <1>2, <1>5 DEF Typed, CallFits

LEMMA CommandTyped == Typed /\ (Command \/ UNCHANGED vars) => Typed'
<1>1. ASSUME Typed, UNCHANGED vars PROVE Typed'
  <2> USE <1>1 DEF Typed, vars, diskVars, history
  <2>1. DiskTyped' /\ HistoryTyped'
    BY DEF DiskTyped, VolumeTyped, HistoryTyped
  <2>2. CallTyped' /\ StorTyped' /\ OtherTyped' /\ StepTyped'
    BY DEF CallTyped, StorTyped, OtherTyped, StepTyped, Here
  <2>3. EntryTyped'
    BY DEF EntryTyped, Found, Ents
  <2> QED BY <2>1, <2>2, <2>3
<1>2. ASSUME Typed, NEW d \in Clusters, NEW n \in Names,
             NEW cmd \in {"stor", "unlink", "mkd", "rnto"}, Begin(cmd, d, n)
      PROVE  Typed'
  <2>1. DiskTyped' /\ view' = view
    BY <1>2, DiskSame DEF Begin
  <2>2. HistoryTyped' /\ calls' \in Texts
    BY <1>2, FatAssumption DEF Begin, Typed, HistoryTyped, Texts
  <2>3. CallFits'
    <3>1. PICK t \in Texts \cup {Old} :
            /\ call' = [NoCall EXCEPT !.cmd = cmd, !.dir = d, !.clust = d, !.name = n, !.text = t]
            /\ pc' = "find" /\ open' = open /\ (cmd = "stor" => t \in Texts)
      BY <1>2, <2>2 DEF Begin
    <3>2. call' \in Locals
      BY <3>1, NoCallTyped, Zeros DEF Locals
    <3>3. CallTyped'
      <4>1. call'.cmd = cmd /\ call'.clust = d /\ call'.dir = d /\ call'.name = n
        BY <3>1 DEF NoCall
      <4> QED BY <1>2, <3>1, <3>2, <4>1 DEF CallTyped, InDir, Typed
    <3> USE <2>1, <3>1 DEF Typed
    <3>4. StorTyped' /\ OtherTyped' /\ EntryTyped' /\ StepTyped'
      BY DEF StorTyped, OtherTyped, EntryTyped, StepTyped, NoCall, Searching, Entering,
             Taking, Writing, Removing, Unused
    <3> QED BY <3>3, <3>4 DEF CallFits
  <2> QED BY <2>1, <2>2, <2>3 DEF Typed, CallFits
<1> QED BY <1>1, <1>2 DEF Command

-----------------------------------------------------------------------------
(* Types: the window, errors of the disk and power failures.               *)

LEMMA NeedsTyped == Typed => Needs \in Sectors \cup {NoSector}
<1> SUFFICES ASSUME Typed PROVE Needs \in Sectors \cup {NoSector}
  OBVIOUS
<1>1. \A c \in Starts : c \in Sectors \cup {NoSector}
  BY DEF Sectors, Starts, NoSector
<1>2. \A c \in Clusters : FatOf(c) \in Sectors
  BY DEF Sectors
<1>3. /\ call.clust \in Starts /\ call.clst \in Starts /\ call.oclust \in Starts
      /\ call.entry.start \in Starts /\ win \in Sectors \cup {NoSector}
  BY LocalsAre DEF Typed, CallTyped, DiskTyped, Entry
<1>4. /\ pc \in InFat => call.clust \in Clusters
      /\ pc \in {"emptyNext", "free"} => call.clst \in Clusters
      /\ pc = "seek" => call.walk \in Clusters
      /\ pc = "scan" => call.ncl \in Clusters
      /\ pc = "link" => call.prev \in Clusters
      /\ pc = "more" => call.last \in Clusters
  BY DEF Typed, CallTyped, StepTyped, InFat, Taking, Removing
<1> QED BY <1>1, <1>2, <1>3, <1>4 DEF Needs

LEMMA FaultTyped ==
  Typed /\ (FlushFails \/ LoadFails \/ StorWholeFails) => Typed'
<1> SUFFICES ASSUME Typed, FlushFails \/ LoadFails \/ StorWholeFails PROVE Typed'
  OBVIOUS
<1>1. pc # "found"
  BY DEF FlushFails, LoadFails, StorWholeFails, At, Elsewhere, Needs, Syncing, InDir, InFat
<1>2. Fault /\ win' \in {win, NoSector} /\ wflag' = wflag
  BY DEF FlushFails, LoadFails, StorWholeFails
<1>3. DiskTyped'
  BY <1>2 DEF Fault, Typed, DiskTyped, VolumeTyped
<1>4. CallFits'
  BY <1>1, <1>2, GivesUpFits DEF Fault
<1>5. crossed' \in BOOLEAN
  <2>1. crossed \in BOOLEAN
    BY DEF Typed, HistoryTyped
  <2>2. crossed' = crossed \/ crossed' = (crossed \/ BothOn(view) \/ BothOn(card))
    BY <1>2 DEF Fault, GivesUp
  <2>3. (crossed \/ BothOn(view) \/ BothOn(card)) \in BOOLEAN
    OBVIOUS
  <2> QED BY <2>1, <2>2, <2>3
<1>6. HistoryTyped'
  BY <1>2, <1>5, FatAssumption DEF Fault, Typed, HistoryTyped
<1> QED BY <1>3, <1>4, <1>6 DEF Typed, CallFits

LEMMA WindowTyped == Typed /\ (Flush \/ Load) => Typed'
<1> SUFFICES ASSUME Typed, Flush \/ Load PROVE Typed'
  OBVIOUS
<1>1. /\ UNCHANGED <<view, last_clust, pc, call, open, history>>
      /\ \/ card' = Written /\ win' = win /\ wflag' = FALSE
         \/ card' = card /\ win' = Needs /\ wflag' = wflag
  BY DEF Flush, Load
<1>2. VolumeTyped(Written)
  <2>1. Written \in Volume /\ \A c \in Clusters : Written.data[c] \in {view.data[c], card.data[c]}
    BY DEF Written, Typed, DiskTyped, VolumeTyped, Volume
  <2> QED BY <2>1 DEF VolumeTyped, Typed, DiskTyped
<1>3. VolumeTyped(card') /\ VolumeTyped(view')
  BY <1>1, <1>2 DEF Typed, DiskTyped
<1>4. DiskTyped'
  BY <1>1, <1>3, NeedsTyped DEF Typed, DiskTyped, VolumeTyped
<1>5. HistoryTyped'
  BY <1>1 DEF history, Typed, HistoryTyped
<1> USE <1>1 DEF Typed
<1>6. CallTyped' /\ StorTyped' /\ OtherTyped' /\ StepTyped'
  BY DEF CallTyped, StorTyped, OtherTyped, StepTyped, Here
<1>7. EntryTyped'
  BY DEF EntryTyped, Found, Ents
<1> QED BY <1>4, <1>5, <1>6, <1>7

LEMMA CrashTyped == Typed /\ Crash => Typed'
<1> SUFFICES ASSUME Typed, Crash PROVE Typed'
  OBVIOUS
<1>1. CallFits'
  BY ReturnFits DEF Crash
<1>2. DiskTyped'
  BY Zeros DEF Crash, Typed, DiskTyped, VolumeTyped
<1>3. (crossed \/ BothOn(card)) \in BOOLEAN
  OBVIOUS
<1>4. HistoryTyped'
  BY <1>3, FatAssumption DEF Crash, Typed, HistoryTyped
<1> QED BY <1>1, <1>2, <1>4 DEF Typed, CallFits

-----------------------------------------------------------------------------
(* Types: steps that change the volume.                                    *)

LEMMA LinksTyped == Typed /\ (Scan \/ Link \/ Free) => Typed'
<1> SUFFICES ASSUME Typed, Scan \/ Link \/ Free PROVE Typed'
  OBVIOUS
<1> USE DEF At
<1>1. CASE Scan
  <2>1. call.ncl \in Clusters /\ pc = "scan"
    BY <1>1 DEF Scan, Typed, StepTyped, Taking
  <2>2. HistoryTyped' /\ open' = open /\ win' = win /\ card' = card
    BY <1>1 DEF Scan, history, Typed, HistoryTyped
  <2>3. CASE view.fat[call.ncl] = 0
    <3>1. VolumeTyped(view') /\ view'.data = view.data /\ wflag' = TRUE
      BY <1>1, <2>3, LinkSetTyped DEF Scan, SetLink, Links, Typed, DiskTyped
    <3>2. CASE call.prev = 0
      <4>1. Allocated
        BY <1>1, <2>3, <3>2 DEF Scan
      <4>2. last_clust' \in 0 .. LAST
        BY <2>1, <4>1, Zeros DEF Allocated
      <4>3. CallFits'
        BY <2>1, <2>2, <3>1, <4>1, AllocatedFits DEF Taking
      <4> QED BY <2>2, <3>1, <4>2, <4>3 DEF Typed, DiskTyped, CallFits, VolumeTyped
    <3>3. CASE call.prev # 0
      <4>1. pc' = "link" /\ call' = call /\ last_clust' = last_clust
        BY <1>1, <2>3, <3>3 DEF Scan, Goto
      <4>2. call.prev \in Clusters
        BY <3>3, LocalsAre, Zeros DEF Typed, CallTyped
      <4> USE <2>1, <2>2, <3>1, <4>1, <4>2 DEF Typed
      <4>3. CallTyped' /\ StepTyped'
        BY DEF CallTyped, StepTyped, Others, Taking, Removing
      <4>4. StorTyped' /\ OtherTyped'
        BY DEF StorTyped, OtherTyped, Searching, Entering, Taking, Writing, Removing, Here
      <4>5. EntryTyped'
        BY DEF EntryTyped, Taking, Writing, Found, Ents
      <4>6. DiskTyped'
        BY DEF DiskTyped, VolumeTyped
      <4> QED BY <4>3, <4>4, <4>5, <4>6
    <3> QED BY <3>2, <3>3
  <2>4. CASE view.fat[call.ncl] # 0
    <3>1. UNCHANGED diskVars
      BY <1>1, <2>4 DEF Scan, diskVars
    <3>2. DiskTyped' /\ view' = view
      BY <3>1, DiskSame
    <3>3. CASE NoSpace
      BY <2>1, <2>2, <3>2, <3>3, NoSpaceFits DEF Typed, CallFits
    <3>4. CASE ~NoSpace
      <4>1. pc' = "scan" /\ call' = [call EXCEPT !.ncl = After(call.ncl)]
        BY <1>1, <2>4, <3>4 DEF Scan, Typed, CallTyped, Locals
      <4>2. After(call.ncl) \in Clusters
        BY <2>1, FatAssumption DEF After, Clusters, Root
      <4> USE <2>1, <2>2, <3>2, <4>1, <4>2 DEF Typed, CallTyped, Locals
      <4>3. CallTyped' /\ StepTyped'
        BY Zeros DEF StepTyped, Taking, Removing
      <4>4. StorTyped' /\ OtherTyped'
        BY DEF StorTyped, OtherTyped, Searching, Entering, Taking, Writing, Removing, Here
      <4>5. EntryTyped'
        BY DEF EntryTyped, Taking, Writing, Found, Ents
      <4> QED BY <3>2, <4>3, <4>4, <4>5
    <3> QED BY <3>3, <3>4
  <2> QED BY <2>3, <2>4
<1>2. CASE Link
  <2>1. call.ncl \in Clusters /\ pc = "link" /\ Allocated /\ open' = open
    BY <1>2 DEF Link, Typed, StepTyped, Taking
  <2>2. call.ncl \in Links
    BY <2>1 DEF Links
  <2>3. VolumeTyped(view') /\ view'.data = view.data
    BY <1>2, <2>2, LinkSetTyped DEF Link, SetLink, Typed, DiskTyped
  <2>4. last_clust' \in 0 .. LAST
    BY <2>1, Zeros DEF Allocated
  <2>5. DiskTyped'
    BY <1>2, <2>3, <2>4 DEF Link, Typed, DiskTyped, VolumeTyped
  <2>6. CallFits'
    BY <2>1, <2>3, AllocatedFits DEF Taking
  <2>7. HistoryTyped'
    BY <1>2, <2>1 DEF Link, Typed, HistoryTyped
  <2> QED BY <2>5, <2>6, <2>7 DEF Typed, CallFits
<1>3. CASE Free
  <2>1. /\ call.clst \in Clusters /\ pc = "free" /\ open' = open
        /\ call.cmd = "stor" => call.entry.start \in Clusters
    BY <1>3, LocalsAre, Zeros DEF Free, Typed, StepTyped, StorTyped, CallTyped, Entry
  <2>2. VolumeTyped(view') /\ view'.data = view.data
    <3>1. view' = [view EXCEPT !.fat[call.clst] = 0] /\ 0 \in Links
      BY <1>3 DEF Free, SetLink, Links
    <3> QED BY <3>1, LinkSetTyped DEF Typed, DiskTyped
  <2>3. \A c \in Clusters : c - 1 \in 0 .. LAST
    BY FatAssumption DEF Clusters, Root
  <2>4. last_clust' \in 0 .. LAST
    BY <1>3, <2>1, <2>3 DEF Free, Typed, DiskTyped
  <2>5. DiskTyped' /\ HistoryTyped'
    BY <1>3, <2>2, <2>4 DEF Free, Typed, DiskTyped, VolumeTyped, history, HistoryTyped
  <2>6. CASE Return
    BY <2>1, <2>5, <2>6, ReturnFits DEF Typed, CallFits
  <2>7. CASE ~Return
    <3>1. PICK c \in Starts, p \in {"free", "reopen", "sync"} :
            /\ call' = [call EXCEPT !.clst = c] /\ pc' = p
            /\ p = "free" => c \in Clusters
            /\ p = "reopen" => call.cmd = "stor"
            /\ p = "sync" => call.cmd = "unlink"
      BY <1>3, <2>7, Zeros DEF Free
    <3> USE <2>1, <2>2, <3>1 DEF Typed, CallTyped, Locals
    <3>2. CallTyped'
      BY DEF Others, InDir, Syncing
    <3>3. StepTyped'
      BY DEF StepTyped, Taking, Removing
    <3>4. StorTyped' /\ OtherTyped'
      BY DEF StorTyped, OtherTyped, Searching, Entering, Taking, Writing, Removing
    <3>5. EntryTyped'
      BY DEF EntryTyped, Taking, Writing, Found, Ents
    <3> QED BY <2>5, <3>2, <3>3, <3>4, <3>5
  <2> QED BY <2>6, <2>7
<1> QED BY <1>1, <1>2, <1>3

\* A step that changes one entry or one sector leaves the files that are open
\* files.
LEMMA EntriesTyped == Typed /\ (StorFound \/ Register \/ Close \/ Remove) => Typed'
<1> SUFFICES ASSUME Typed, StorFound \/ Register \/ Close \/ Remove PROVE Typed'
  OBVIOUS
<1> USE DEF At
<1>1. CASE StorFound
  <2>1. pc = "found" /\ call.cmd = "stor"
    BY <1>1 DEF StorFound
  <2>2. CASE Refused
    <3>1. Local /\ CallFits'
      BY <2>2, ReturnFits DEF Refused, Local
    <3> QED BY <3>1, LocalTyped DEF Typed, CallFits
  <2>3. CASE ~Refused
    <3> DEFINE e == [Found EXCEPT !.start = 0, !.size = 0]
    <3>1. open = NoPlace /\ Found.kind = "file"
      BY <1>1, <2>1, <2>3, FoundIs DEF StorFound
    <3>2. e \in Entry /\ e.kind = "file"
      BY <2>1, <3>1, FoundIs, Zeros DEF Entry
    <3> HIDE DEF e
    <3>3. view' = [view EXCEPT !.data[call.clust].ents[call.slot] = e]
      BY <1>1, <2>3 DEF StorFound, SetEntry, e
    <3>4. VolumeTyped(view')
      BY <3>2, <3>3, EntrySetTyped DEF Typed, DiskTyped
    <3>5. wflag' = TRUE /\ UNCHANGED <<card, win, last_clust>>
      BY <1>1, <2>3 DEF StorFound
    <3>6. DiskTyped'
      BY <3>4, <3>5 DEF Typed, DiskTyped, VolumeTyped
    <3>7. HistoryTyped'
      BY <1>1, <2>3 DEF StorFound, Forget, OnlyKept, Typed, HistoryTyped
    <3>8. view'.data[call.clust].ents[call.slot] = e
      BY <2>1, <3>3, FoundIs DEF Typed, DiskTyped, VolumeTyped, Volume, Content
    <3>9. CallFits'
      <4>1. CASE Found.start = 0 
        <5>1. pc' = "data" /\ open' = Here /\ call' = call
          BY <1>1, <2>3, <4>1 DEF StorFound
        <5> USE <2>1, <5>1, FoundIs DEF Typed, CallTyped
        <5>2. CallTyped' /\ StepTyped'
          BY DEF Others, StepTyped, Taking, Removing, Here
        <5>3. StorTyped' /\ OtherTyped'
          BY DEF StorTyped, OtherTyped, Searching, Entering, Taking, Writing, Here
        <5>4. EntryTyped'
          BY <3>2, <3>8 DEF EntryTyped, Found, Ents
        <5> QED BY <5>2, <5>3, <5>4 DEF CallFits
      <4>2. CASE Found.start # 0
        <5>1. /\ pc' = "free" /\ open' = open
              /\ call' = [call EXCEPT !.clst = Found.start, !.entry = Found]
          BY <1>1, <2>3, <4>2 DEF StorFound
        <5>2. Found.start \in Clusters
          BY <2>1, <4>2, FoundIs, Zeros
        <5>3. call' \in Locals
          BY <2>1, <5>1, FoundIs DEF Typed, CallTyped, Locals
        <5> USE <2>1, <5>1, <5>2, FoundIs DEF Typed, CallTyped, Locals
        <5>4. CallTyped'
          BY <5>3 DEF Others
        <5>5. StepTyped'
          BY DEF StepTyped, Taking, Removing
        <5>6. StorTyped' /\ OtherTyped'
          BY <3>1, Zeros DEF StorTyped, OtherTyped, Searching, Entering, Taking, Writing
        <5>7. EntryTyped'
          BY <3>2, <3>8 DEF EntryTyped, Found, Ents
        <5> QED BY <5>4, <5>5, <5>6, <5>7 DEF CallFits
      <4> QED BY <4>1, <4>2
    <3> QED BY <3>6, <3>7, <3>9 DEF Typed, CallFits
  <2> QED BY <2>2, <2>3
<1>2. CASE Register
  <2>1. pc = "register" /\ call.slot \in Slots /\ call.clust \in Clusters
    BY <1>2 DEF Register, Typed, StepTyped, CallTyped
  <2>2. PICK e \in Entry :
          /\ SetEntry(call.clust, call.slot, e)
          /\ e.kind = "dir" => e.start \in Clusters
          /\ call.cmd = "stor" => e.kind = "file"
    <3> DEFINE new == [name |-> call.name, kind |-> "file", start |-> 0, size |-> 0]
    <3>1. call.name \in Names /\ call.dcl \in Starts /\ call.entry \in Entry
      BY <2>1, LocalsAre DEF Typed, CallTyped
    <3>2. new \in Entry
      BY <3>1, Zeros DEF Entry
    <3>3. CASE call.cmd = "stor"
      BY <1>2, <3>2, <3>3 DEF Register
    <3>4. CASE call.cmd = "mkd"
      <4>1. call.dcl \in Clusters
        BY <2>1, <3>1, <3>4, Zeros DEF Typed, OtherTyped, Entering
      <4>2. [new EXCEPT !.kind = "dir", !.start = call.dcl] \in Entry
        BY <3>1 , Zeros DEF Entry
      <4> QED BY <1>2, <3>4, <4>1, <4>2 DEF Register
    <3>5. CASE call.cmd \notin {"stor", "mkd"}
      <4>1. /\ [call.entry EXCEPT !.name = call.name] \in Entry
            /\ [call.entry EXCEPT !.name = call.name].kind = call.entry.kind
            /\ [call.entry EXCEPT !.name = call.name].start = call.entry.start
        BY <3>1 DEF Entry
      <4>2. call.entry.kind = "dir" => call.entry.start \in Clusters
        BY DEF Typed, StepTyped
      <4> QED BY <1>2, <3>5, <4>1, <4>2 DEF Register
    <3> QED BY <3>3, <3>4, <3>5
  <2>3. VolumeTyped(view') /\ view'.data[call.clust].ents[call.slot] = e
    <3>1. view' = [view EXCEPT !.data[call.clust].ents[call.slot] = e]
      BY <2>2 DEF SetEntry
    <3>2. VolumeTyped(view')
      BY <2>2, <3>1, EntrySetTyped DEF Typed, DiskTyped
    <3>3. view'.data[call.clust].ents[call.slot] = e
      BY <2>1, <3>1 DEF Typed, DiskTyped, VolumeTyped, Volume, Content
    <3> QED BY <3>2, <3>3
  <2>4. DiskTyped'
    BY <1>2, <2>3 DEF Register, Typed, DiskTyped, VolumeTyped
  <2>5. HistoryTyped'
    BY <1>2 DEF Register, Forget, OnlyKept, history, Typed, HistoryTyped
  <2>6. CallFits'
    <3>1. CASE call.cmd = "stor"
      <4>1. pc' = "data" /\ open' = Here /\ call' = call
        BY <1>2, <3>1 DEF Register, Goto
      <4> USE <2>1, <3>1, <4>1 DEF Typed, CallTyped
      <4>2. CallTyped' /\ StepTyped'
        BY DEF Others, StepTyped, Taking, Removing, Here
      <4>3. StorTyped' /\ OtherTyped'
        BY DEF StorTyped, OtherTyped, Searching, Entering, Taking, Writing, Here
      <4>4. EntryTyped'
        BY <2>2, <2>3 DEF EntryTyped, Found, Ents
      <4> QED BY <4>2, <4>3, <4>4 DEF CallFits
    <3>2. CASE call.cmd = "mkd"
      <4>1. pc' = "sync" /\ open' = open /\ call' = call
        BY <1>2, <3>2 DEF Register, Goto
      <4> USE <2>1, <3>2, <4>1 DEF Typed, CallTyped
      <4>2. CallTyped' /\ StepTyped'
        BY DEF Syncing, StepTyped, Taking, Removing
      <4>3. StorTyped' /\ OtherTyped' /\ EntryTyped'
        BY DEF StorTyped, OtherTyped, EntryTyped, Searching, Entering, Taking
      <4> QED BY <4>2, <4>3 DEF CallFits
    <3>3. CASE call.cmd \notin {"stor", "mkd"}
      <4>1. call.cmd = "rnto" /\ call.odir \in Clusters
        BY <2>1, <3>3, LocalsAre, Zeros DEF Typed, CallTyped, OtherTyped, Searching,
                                            Entering, Removing
      <4>2. call.entry.name \in Names
        BY <4>1, Zeros DEF Typed, StepTyped
      <4>3. PICK p \in Promise \cup {NoPromise}, q \in {"dotdot", "seek"} :
              call' = [call EXCEPT !.promise = p] /\ pc' = q /\ open' = open
        BY <1>2, <3>3, <4>1, <4>2 DEF Register, Typed, HistoryTyped
      <4> USE <2>1, <3>3, <4>1, <4>3 DEF Typed, CallTyped, Locals
      <4>4. CallTyped'
        BY DEF Others
      <4>5. StepTyped'
        BY Zeros DEF StepTyped, Taking, Removing
      <4>6. StorTyped' /\ OtherTyped' /\ EntryTyped'
        BY DEF StorTyped, OtherTyped, EntryTyped, Searching, Entering, Taking, Removing
      <4> QED BY <4>4, <4>5, <4>6 DEF CallFits
    <3> QED BY <3>1, <3>2, <3>3
  <2> QED BY <2>4, <2>5, <2>6 DEF Typed, CallFits
<1>3. CASE Close
  <2>1. pc = "close" /\ call.clust \in Clusters
    BY <1>3 DEF Close, Typed, CallTyped
  <2>2. call.cmd = "stor" /\ open = Here
    BY <2>1 DEF Typed, CallTyped, StorTyped, OtherTyped, Locals, Searching, Entering,
                Taking, Writing, Removing
  <2>3. call.slot \in Slots /\ Found.kind = "file"
    BY <2>1, <2>2, OpenedWhen DEF Opened, Typed, EntryTyped, Writing
  <2>4. Found \in Entry
    BY <2>1, <2>3 DEF Typed, DiskTyped, VolumeTyped, Volume, Content, Found, Ents
  <2> DEFINE e == [Found EXCEPT !.start = call.sclust, !.size = call.size]
  <2>5. e \in Entry /\ e.kind = "file"
    BY <2>3, <2>4, LocalsAre DEF Entry, Typed, CallTyped
  <2>6. view' = [view EXCEPT !.data[call.clust].ents[call.slot] = e]
    BY <1>3 DEF Close, SetEntry
  <2> HIDE DEF e
  <2>7. VolumeTyped(view')
    BY <2>5, <2>6, EntrySetTyped DEF Typed, DiskTyped
  <2>8. DiskTyped' /\ HistoryTyped'
    BY <1>3, <2>7 DEF Close, Typed, DiskTyped, VolumeTyped, history, HistoryTyped
  <2>9. pc' = "sync" /\ call' = call /\ open' = open
    BY <1>3 DEF Close, Goto
  <2> USE <2>1, <2>2, <2>9 DEF Typed, CallTyped
  <2>10. CallTyped' /\ StepTyped'
    BY DEF Syncing, StepTyped, Taking, Removing
  <2>11. StorTyped' /\ OtherTyped' /\ EntryTyped'
    BY DEF StorTyped, OtherTyped, EntryTyped, Searching, Entering, Taking, Writing, Here
  <2> QED BY <2>8, <2>10, <2>11
<1>4. CASE Remove
  <2>1. view' = [view EXCEPT !.data[call.oclust].ents[call.oslot] = Unused("gone")]
    BY <1>4 DEF Remove, SetEntry
  <2>2. VolumeTyped(view')
    BY <2>1, TableTyped, Zeros, EntrySetTyped DEF Typed, DiskTyped
  <2>3. /\ UNCHANGED <<card, win, last_clust, open, crossed, raw, calls, troubles>>
        /\ wflag' = TRUE /\ pc = "remove"
    BY <1>4 DEF Remove
  <2>4. dropped' \subseteq Clusters
    BY <1>4 DEF Remove, CutOff, Typed, HistoryTyped
  <2>5. kept' \in [Clusters -> [Names -> Promise \cup {NoPromise}]]
    BY <1>4 DEF Remove, Forget, Typed, HistoryTyped
  <2>6. DiskTyped' /\ HistoryTyped'
    BY <2>2, <2>3, <2>4, <2>5 DEF Typed, DiskTyped, VolumeTyped, HistoryTyped
  <2>7. call.cmd \in {"unlink", "rnto"}
    BY <2>3 DEF Typed, CallTyped, StorTyped, OtherTyped, Locals, Searching, Entering,
                Taking, Writing, Removing
  <2>8. CASE call.cmd = "unlink" /\ call.entry.kind = "dir"
    <3>1. /\ pc' = "free" /\ call' = [call EXCEPT !.clst = call.entry.start]
          /\ call.entry.start \in Clusters
      BY <1>4, <2>8 DEF Remove, Typed, StepTyped
    <3> USE <2>3, <2>8, <3>1 DEF Typed, CallTyped, Locals
    <3>2. CallTyped' /\ StepTyped'
      BY Zeros DEF Others, StepTyped, Taking, Removing
    <3>3. StorTyped' /\ OtherTyped' /\ EntryTyped'
      BY DEF StorTyped, OtherTyped, EntryTyped
    <3> QED BY <2>6, <3>2, <3>3
  <2>9. CASE ~(call.cmd = "unlink" /\ call.entry.kind = "dir")
    <3>1. pc' = "sync" /\ call' = call
      BY <1>4, <2>9 DEF Remove, Goto
    <3> USE <2>3, <2>7, <3>1 DEF Typed, CallTyped
    <3>2. CallTyped' /\ StepTyped'
      BY DEF Syncing, StepTyped, Taking, Removing
    <3>3. StorTyped' /\ OtherTyped' /\ EntryTyped'
      BY DEF StorTyped, OtherTyped, EntryTyped, Searching, Entering, Taking
    <3> QED BY <2>6, <3>2, <3>3
  <2> QED BY <2>8, <2>9
<1> QED BY <1>1, <1>2, <1>3, <1>4

\* Tables and texts come with unused entries, which are no directories.
LEMMA SectorsTyped ==
  Typed /\ (Stretch \/ MkdTable \/ StorPart \/ StorWhole \/ Dotdot) => Typed'
<1> SUFFICES ASSUME Typed, Stretch \/ MkdTable \/ StorPart \/ StorWhole \/ Dotdot PROVE Typed'
  OBVIOUS
<1> USE DEF At
<1>1. /\ HistoryTyped' /\ UNCHANGED <<last_clust, open>>
      /\ wflag' \in BOOLEAN
  BY DEF Stretch, MkdTable, StorPart, StorWhole, Stored, Dotdot, history, Typed,
         HistoryTyped
<1>2. CASE Stretch \/ MkdTable \/ StorPart \/ StorWhole
  <2>1. PICK c \in Starts, x \in Content :
          /\ view' = [view EXCEPT !.data[c] = x]
          /\ card' = card \/ card' = [card EXCEPT !.data[c] = x]
          /\ win' = c \/ win' = win
          /\ \A s \in Slots : x.ents[s].kind = "file"
    <3>1. /\ call.ncl \in Starts /\ call.dcl \in Starts /\ call.dir \in Starts
          /\ call.text \in Texts \cup {Tab, Old}
      BY LocalsAre DEF Typed, CallTyped
    <3> QED BY <1>2, <3>1, Zeros, TableTyped DEF Stretch, MkdTable, StorPart, StorWhole, Stored
  <2>2. VolumeTyped(view') /\ VolumeTyped(card')
    BY <2>1, SectorSetTyped DEF Typed, DiskTyped
  <2>3. c \in Sectors \cup {NoSector}
    BY DEF Starts, Sectors, NoSector
  <2>4. DiskTyped'
    BY <1>1, <2>1, <2>2, <2>3 DEF Typed, DiskTyped, VolumeTyped
  <2>5. Found.kind = "file" /\ call.slot \in Slots /\ call.clust \in Clusters =>
          view'.data[call.clust].ents[call.slot].kind = "file"
    BY <2>1 DEF Found, Ents, Typed, DiskTyped, VolumeTyped, Volume
  <2>6. CallFits'
    <3>1. CASE Stretch
      <4> USE <1>1, <3>1 DEF Stretch, Goto, Typed, CallTyped
      <4>1. call.cmd # "stor" \/ open = NoPlace
        BY DEF StorTyped, Entering
      <4>2. CallTyped' /\ StepTyped'
        BY DEF Syncing, StepTyped, Taking, Removing
      <4>3. StorTyped' /\ OtherTyped' /\ EntryTyped'
        BY <4>1 DEF StorTyped, OtherTyped, EntryTyped, Searching, Entering, Taking,
                    Writing, Removing
      <4> QED BY <4>2, <4>3 DEF CallFits
    <3>2. CASE MkdTable
      <4> USE <1>1, <3>2 DEF MkdTable, Goto, Typed, CallTyped
      <4>1. call.cmd = "mkd"
        BY DEF StorTyped, OtherTyped, Locals, Searching, Entering, Taking, Writing, Removing
      <4>2. CallTyped' /\ StepTyped'
        BY DEF Syncing, StepTyped, Taking, Removing
      <4>3. StorTyped' /\ OtherTyped' /\ EntryTyped'
        BY <4>1 DEF StorTyped, OtherTyped, EntryTyped, Searching, Entering, Taking,
                    Writing, Removing
      <4> QED BY <4>2, <4>3 DEF CallFits
    <3>3. CASE StorPart \/ StorWhole
      <4>1. /\ pc \in {"whole", "part"} /\ pc' = "data"
            /\ call' = [call EXCEPT !.ncl = 0, !.size = call.size + 1]
        BY <3>3 DEF StorPart, StorWhole, Stored, Typed, CallTyped, Locals
      <4>2. call.cmd = "stor" /\ open = Here
        BY <4>1 DEF Typed, CallTyped, StorTyped, OtherTyped, Locals, Searching, Entering,
                    Taking, Writing, Removing
      <4>3. open # NoPlace /\ call.slot \in Slots /\ Found.kind = "file" /\ call.clust \in Clusters
        BY <4>1, <4>2, OpenedWhen DEF Opened, Typed, EntryTyped, Writing, CallTyped
      <4>4. call.size + 1 \in Blocks
        BY <4>1, <4>2, <4>3, LocalsAre, FatAssumption DEF Typed, StorTyped, CallTyped,
                                                          Blocks
      <4> USE <1>1, <4>1, <4>2, <4>3, <4>4 DEF Typed, CallTyped, Locals
      <4>5. CallTyped' /\ StepTyped'
        BY Zeros DEF Others, StepTyped, Taking, Removing
      <4>6. StorTyped' /\ OtherTyped'
        BY DEF StorTyped, OtherTyped, Searching, Entering, Taking, Writing, Here
      <4>7. EntryTyped'
        BY <2>5 DEF EntryTyped, Found, Ents
      <4> QED BY <4>5, <4>6, <4>7 DEF CallFits
    <3> QED BY <1>2, <3>1, <3>2, <3>3
  <2> QED BY <1>1, <2>4, <2>6 DEF Typed, CallFits
<1>3. CASE Dotdot
  <2>1. /\ view' = [view EXCEPT !.data[call.entry.start].up = call.dir]
        /\ pc = "dotdot" /\ pc' = "seek" /\ call' = call /\ UNCHANGED <<card, win>>
    BY <1>3 DEF Dotdot, Goto
  <2>2. view' \in Volume
    <3>1. call.dir \in Starts
      BY LocalsAre DEF Typed, CallTyped
    <3>2. \A c \in Clusters : [view.data[c] EXCEPT !.up = call.dir] \in Content
      BY <3>1 DEF Typed, DiskTyped, VolumeTyped, Volume, Content
    <3> QED BY <2>1, <3>2 DEF Typed, DiskTyped, VolumeTyped, Volume
  <2>3. \A d \in Clusters : view'.data[d].ents = view.data[d].ents
    BY <2>1 DEF Typed, DiskTyped, VolumeTyped, Volume, Content
  <2>4. DiskTyped'
    BY <1>1, <2>1, <2>2, <2>3 DEF Typed, DiskTyped, VolumeTyped
  <2> USE <1>1, <2>1 DEF Typed, CallTyped
  <2>5. CallTyped' /\ StepTyped'
    BY DEF Others, StepTyped, Taking, Removing
  <2>6. StorTyped' /\ OtherTyped' /\ EntryTyped'
    BY DEF StorTyped, OtherTyped, EntryTyped, Searching, Entering, Taking, Writing, Removing
  <2> QED BY <1>1, <2>4, <2>5, <2>6
<1> QED BY <1>2, <1>3

LEMMA InitTyped == Init => Typed
<1> SUFFICES ASSUME Init PROVE Typed
  OBVIOUS
<1>1. VolumeTyped(view)
  <2>1. /\ view.fat \in [Clusters -> Links]
        /\ \A c \in Clusters : view.data[c] \in {Table(0), Datum(Old)}
        /\ view = [fat |-> view.fat, data |-> [c \in Clusters |-> view.data[c]]]
    BY DEF Init, Links
  <2>2. Table(0) \in Content /\ Datum(Old) \in Content
    BY TableTyped, Zeros
  <2>3. view \in Volume
    BY <2>1, <2>2 DEF Volume
  <2> QED BY <2>1, <2>3, TableTyped, Zeros DEF VolumeTyped
<1>2. DiskTyped
  BY <1>1, Zeros DEF Init, DiskTyped, NoSector
<1>3. HistoryTyped
  <2>1. calls \in 0 .. MAX_CALLS /\ troubles \in 0 .. MAX_TROUBLES
    BY FatAssumption DEF Init
  <2> QED BY <2>1 DEF Init, HistoryTyped
<1>4. CallTyped
  BY NoCallTyped DEF Init, CallTyped, Others, NoCall
<1>5. StorTyped /\ OtherTyped /\ EntryTyped /\ StepTyped
  BY DEF Init, StorTyped, OtherTyped, EntryTyped, StepTyped, NoCall, Unused, Taking,
         Removing
<1> QED BY <1>2, <1>3, <1>4, <1>5 DEF Typed

\* The types, with what the locals of a call hold at each of its steps.
THEOREM SpecTyped == Spec => []Typed
<1>1. Typed /\ [Next]_vars => Typed'
  BY SearchTyped, WriteTyped, RemovalTyped, MakingTyped, SyncTyped, CommandTyped,
     FaultTyped, WindowTyped, CrashTyped, LinksTyped, EntriesTyped, SectorsTyped
     DEF Next, Step, Stopped
<1> QED BY <1>1, InitTyped, PTL DEF Spec

\* Every step of a call has the clusters and the slot it needs, through errors
\* and power failures, for volumes, tables and files of any size: no step reads
\* the FAT or a table outside of it, and no directory lacks its table.
THEOREM TypeThm == Spec => []TypeOK
<1> QED BY SpecTyped, TypedIsTypeOK, PTL
-----------------------------------------------------------------------------
(* The card behind the window.  Nothing about the types of a call's locals *)
(* is needed, only which sector the window holds when a step changes one.  *)

\* m has an entry in the FAT and a sector for each cluster.
Shaped(m) ==
  /\ m = [fat |-> m.fat, data |-> m.data]
  /\ m.fat  = [c \in Clusters |-> m.fat[c]]
  /\ m.data = [c \in Clusters |-> m.data[c]]

\* dir_find() leaves the sector of the entry it found in the window, and the
\* command changes the entry without asking for the sector again.
FoundInWindow ==
  /\ "clust" \in DOMAIN call
  /\ pc = "found" => win = call.clust

Inv == Shaped(view) /\ Shaped(card) /\ CardBehindWindow /\ FoundInWindow

-----------------------------------------------------------------------------
(* Changes of the volume as ff.c sees it.                                  *)

\* Volume n is m with sector c replaced by x.
Replaced(m, n, c, x) ==
  /\ Shaped(n) /\ n.fat = m.fat
  /\ \A d \in Clusters : d # c => n.data[d] = m.data[d]
  /\ c \in Clusters => n.data[c] = x

LEMMA DataSet ==
  ASSUME NEW m, NEW n, Shaped(m), NEW c, NEW x, n = [m EXCEPT !.data[c] = x]
  PROVE  Replaced(m, n, c, x)
<1>1. n = [fat |-> m.fat, data |-> [m.data EXCEPT ![c] = x]]
  BY DEF Shaped
<1>2. n.fat = m.fat /\ n.data = [m.data EXCEPT ![c] = x]
  BY <1>1
<1>3. DOMAIN m.data = Clusters
  BY DEF Shaped
<1>4. n.data = [d \in Clusters |-> n.data[d]]
  BY <1>2, <1>3
<1> QED
  BY <1>1, <1>2, <1>3, <1>4 DEF Shaped, Replaced

LEMMA FatSet ==
  ASSUME NEW m, NEW n, Shaped(m), NEW c, NEW v, n = [m EXCEPT !.fat[c] = v]
  PROVE  /\ Shaped(n) /\ n.data = m.data
         /\ \A d \in Clusters : d # c => n.fat[d] = m.fat[d]
<1>1. n = [fat |-> [m.fat EXCEPT ![c] = v], data |-> m.data]
  BY DEF Shaped
<1>2. n.data = m.data /\ n.fat = [m.fat EXCEPT ![c] = v]
  BY <1>1
<1>3. DOMAIN m.fat = Clusters
  BY DEF Shaped
<1>4. n.fat = [d \in Clusters |-> n.fat[d]]
  BY <1>2, <1>3
<1> QED
  BY <1>1, <1>2, <1>3, <1>4 DEF Shaped

LEMMA FatOfIsNoCluster ==
  ASSUME NEW c \in Clusters, NEW d \in Clusters
  PROVE  FatOf(c) # d
<1>1. c \div PER \in Nat
  BY FatAssumption DEF Clusters, Root
<1> QED
  BY <1>1, FatAssumption DEF FatOf, EOC, Clusters, Root

\* A change in the sector that is in the window.
LEMMA SectorInWindow ==
  ASSUME Inv, NEW c, NEW x, view' = [view EXCEPT !.data[c] = x],
         win = c \/ ~wflag, win' = c, wflag' = TRUE, card' = card
  PROVE  Shaped(view)' /\ Shaped(card)' /\ CardBehindWindow'
<1>1. Shaped(view) /\ Replaced(view, view', c, x)
  BY DataSet DEF Inv
<1> QED
  BY <1>1 DEF Replaced, Inv, CardBehindWindow, Shaped, Clusters

LEMMA EntryInWindow ==
  ASSUME Inv, NEW c, NEW s, NEW e, SetEntry(c, s, e),
         win = c, wflag' = TRUE, UNCHANGED <<card, win>>
  PROVE  Shaped(view)' /\ Shaped(card)' /\ CardBehindWindow'
<1>1. view' = [view EXCEPT !.data[c] = [view.data[c] EXCEPT !.ents[s] = e]]
  BY DEF SetEntry
<1> QED
  BY <1>1, SectorInWindow

LEMMA LinkInWindow ==
  ASSUME Inv, NEW c, NEW v, SetLink(c, v),
         win = FatOf(c), wflag' = TRUE, UNCHANGED <<card, win>>
  PROVE  Shaped(view)' /\ Shaped(card)' /\ CardBehindWindow'
<1>1. /\ Shaped(view') /\ view'.data = view.data
      /\ \A d \in Clusters : d # c => view'.fat[d] = view.fat[d]
  BY FatSet DEF Inv, SetLink
<1> QED
  BY <1>1 DEF Inv, CardBehindWindow

-----------------------------------------------------------------------------
(* Steps that leave the volume and the window alone.                       *)

\* The sector that is in the window at a step that asked for it.
LEMMA SectorAt ==
  /\ \A step \in InDir : At(step) => win = call.clust
  /\ At("scan") => win = FatOf(call.ncl)
  /\ At("link") => win = FatOf(call.prev)
  /\ At("free") => win = FatOf(call.clst)
  /\ At("remove") => win = call.oclust
  /\ At("dotdot") => win = call.entry.start
<1> USE DEF At, Elsewhere, Syncing, InDir, InFat
<1>1. ASSUME NEW step \in InDir, At(step) PROVE win = call.clust
  <2>1. pc \in InDir /\ Needs = win
    BY <1>1
  <2>2. Needs = call.clust
    BY <2>1 DEF Needs
  <2> QED
    BY <2>1, <2>2
<1>2. At("scan") => win = FatOf(call.ncl)
  BY DEF Needs
<1>3. At("link") => win = FatOf(call.prev)
  BY DEF Needs
<1>4. At("free") => win = FatOf(call.clst)
  BY DEF Needs
<1>5. At("remove") => win = call.oclust
  BY DEF Needs
<1>6. At("dotdot") => win = call.entry.start
  BY DEF Needs
<1> QED
  BY <1>1, <1>2, <1>3, <1>4, <1>5, <1>6

Quiet == UNCHANGED <<view, card, win, wflag>>

LEMMA QuietKeeps == Inv /\ Quiet => Shaped(view)' /\ Shaped(card)' /\ CardBehindWindow'
BY DEF Inv, Quiet, Shaped, CardBehindWindow

LEMMA InitInv == Init => Inv
<1> SUFFICES ASSUME Init PROVE Inv
  OBVIOUS
<1>1. Shaped(view) /\ card = view
  BY DEF Init, Shaped
<1>2. "clust" \in DOMAIN call /\ pc = "idle"
  BY DEF Init, NoCall
<1> QED
  BY <1>1, <1>2 DEF Inv, CardBehindWindow, FoundInWindow

\* Of all steps only dir_find() reaches "found", and no step of the window does.
LEMMA SearchInv ==
  Inv /\ (Find \/ FindNext \/ Alloc \/ AllocNext \/ Seek) => Inv'
<1> SUFFICES ASSUME Inv, Find \/ FindNext \/ Alloc \/ AllocNext \/ Seek PROVE Inv'
  OBVIOUS
<1>1. Quiet
  BY DEF Quiet, Find, FindNext, Alloc, AllocNext, Seek, Follow, Local, diskVars
<1>2. FoundInWindow'
  <2> USE DEF Inv, FoundInWindow, At, Local, diskVars, Goto
  <2>1. CASE Find
    <3>1. win = call.clust /\ win' = win
      BY <2>1, SectorAt DEF Find, InDir
    <3>2. /\ pc' \in {"found", "missing", "findNext"}
          /\ call' = call \/ \E s \in Slots : call' = [call EXCEPT !.slot = s]
      BY <2>1 DEF Find
    <3>3. "clust" \in DOMAIN call' /\ call'.clust = call.clust
      BY <3>2
    <3> QED
      BY <3>1, <3>3
  <2>2. CASE FindNext
    BY <2>2 DEF FindNext, Follow
  <2>3. CASE Alloc
    BY <2>3 DEF Alloc
  <2>4. CASE AllocNext
    BY <2>4 DEF AllocNext, Follow, Scans
  <2>5. CASE Seek
    BY <2>5 DEF Seek
  <2> QED
    BY <2>1, <2>2, <2>3, <2>4, <2>5
<1> QED
  BY <1>1, <1>2, QuietKeeps DEF Inv

\* Where a call ends or goes on, it is not at "found".
LEMMA Onward ==
  /\ Return => FoundInWindow'
  /\ \A prev : FoundInWindow /\ Scans(prev) => FoundInWindow'
  /\ FoundInWindow /\ Allocated => FoundInWindow'
  /\ FoundInWindow /\ NoSpace => FoundInWindow'
  /\ FoundInWindow /\ GivesUp => FoundInWindow'
<1>1. Return => FoundInWindow'
  BY DEF Return, NoCall, FoundInWindow
<1>2. ASSUME NEW prev, FoundInWindow, Scans(prev) PROVE FoundInWindow'
  BY <1>2 DEF Scans, FoundInWindow
<1>3. ASSUME FoundInWindow, Allocated PROVE FoundInWindow'
  BY <1>3 DEF Allocated, FoundInWindow
<1>4. ASSUME FoundInWindow, NoSpace PROVE FoundInWindow'
  BY <1>1, <1>4 DEF NoSpace, FoundInWindow
<1>5. ASSUME FoundInWindow, GivesUp PROVE FoundInWindow'
  BY <1>1, <1>5 DEF GivesUp, FoundInWindow
<1> QED
  BY <1>1, <1>2, <1>3, <1>4, <1>5

LEMMA CallInv ==
  Inv /\ (\/ Stretched \/ StorMissing \/ Reopen \/ StorAbandoned \/ StorMore \/ More \/ StorEnd
          \/ Sync \/ UnlinkFound \/ UnlinkMissing \/ Empty \/ EmptyNext \/ MkdFound
          \/ MkdMissing \/ MkdDots \/ RntoFound \/ RntoMissing) => Inv'
<1> SUFFICES ASSUME Inv,
               \/ Stretched \/ StorMissing \/ Reopen \/ StorAbandoned \/ StorMore \/ More \/ StorEnd
               \/ Sync \/ UnlinkFound \/ UnlinkMissing \/ Empty \/ EmptyNext \/ MkdFound
               \/ MkdMissing \/ MkdDots \/ RntoFound \/ RntoMissing
             PROVE Inv'
  OBVIOUS
<1> USE DEF Refused, Local, diskVars
<1>1. Quiet
  BY DEF Quiet, Stretched, StorMissing, Reopen, StorAbandoned, StorMore, More, StorEnd,
         Sync,
         UnlinkFound, UnlinkMissing, Empty, EmptyNext, MkdFound, MkdMissing, MkdDots,
         RntoFound, RntoMissing
<1>2. FoundInWindow
  BY DEF Inv
<1>3. FoundInWindow'
  <2>1. CASE Stretched \/ Reopen \/ StorEnd
    BY <1>2, <2>1 DEF Stretched, Reopen, StorEnd, Goto, FoundInWindow
  <2>2. CASE StorMissing \/ RntoMissing
    BY <1>2, <2>2, Onward DEF StorMissing, RntoMissing, FoundInWindow
  <2>3. CASE StorMore \/ More \/ MkdMissing
    BY <1>2, <2>3, Onward DEF StorMore, More, MkdMissing, Goto, FoundInWindow
  <2>4. CASE StorAbandoned \/ Sync \/ UnlinkMissing \/ MkdFound
    BY <2>4, Onward DEF StorAbandoned, Sync, UnlinkMissing, MkdFound
  <2>5. CASE UnlinkFound
    BY <1>2, <2>5, Onward DEF UnlinkFound, OldIsHere, FoundInWindow
  <2>6. CASE Empty \/ EmptyNext \/ MkdDots
    BY <1>2, <2>6, Onward DEF Empty, EmptyNext, MkdDots, Goto, FoundInWindow
  <2>7. CASE RntoFound
    BY <1>2, <2>7, Onward DEF RntoFound, OldIsHere, FoundInWindow
  <2> QED
    BY <2>1, <2>2, <2>3, <2>4, <2>5, <2>6, <2>7
<1> QED
  BY <1>1, <1>3, QuietKeeps DEF Inv

LEMMA CommandInv == Inv /\ (Command \/ UNCHANGED vars) => Inv'
<1>1. Inv /\ Command => Quiet /\ FoundInWindow'
  BY DEF Command, Begin, Quiet, diskVars, FoundInWindow, NoCall
<1>2. Inv /\ UNCHANGED vars => Quiet /\ FoundInWindow'
  BY DEF Quiet, vars, diskVars, FoundInWindow, Inv
<1> QED
  BY <1>1, <1>2, QuietKeeps DEF Inv

-----------------------------------------------------------------------------
(* Steps of the window.                                                    *)

LEMMA WindowInv ==
  Inv /\ (Flush \/ Load \/ FlushFails \/ LoadFails \/ StorWholeFails \/ Crash) => Inv'
<1> SUFFICES ASSUME Inv, Flush \/ Load \/ FlushFails \/ LoadFails \/ StorWholeFails \/ Crash
             PROVE  Inv'
  OBVIOUS
<1> USE DEF Inv
<1>1. CASE Flush
  <2>1. pc # "found"
    BY <1>1 DEF Flush, Elsewhere, Needs, Syncing, InDir, InFat
  <2>2. /\ card' = Written /\ view' = view /\ win' = win
        /\ wflag' = FALSE /\ pc' = pc /\ call' = call
    BY <1>1 DEF Flush
  <2>3. FoundInWindow'
    BY <2>1, <2>2 DEF FoundInWindow
  <2>4. \A c \in Clusters : view.fat[c] = card'.fat[c] /\ view.data[c] = card'.data[c]
    BY <2>2 DEF Written, CardBehindWindow
  <2>5. Shaped(card') /\ Shaped(view')
    BY <2>2 DEF Shaped, Written
  <2> QED
    BY <2>2, <2>3, <2>4, <2>5 DEF CardBehindWindow, Shaped
<1>2. CASE Load
  <2>1. pc # "found"
    BY <1>2 DEF Load, Elsewhere, Needs, Syncing, InDir, InFat
  <2>2. /\ UNCHANGED <<view, card, wflag, pc, call>> /\ ~wflag
    BY <1>2 DEF Load
  <2> QED
    BY <2>1, <2>2 DEF FoundInWindow, CardBehindWindow, Shaped
<1>3. CASE FlushFails \/ LoadFails \/ StorWholeFails
  <2>1. FoundInWindow'
    BY <1>3, Onward DEF FlushFails, LoadFails, StorWholeFails, Fault
  <2>2. UNCHANGED <<view, card, wflag>> /\ (win' = win \/ ~wflag)
    BY <1>3 DEF FlushFails, LoadFails, StorWholeFails, Fault
  <2> QED
    BY <2>1, <2>2 DEF CardBehindWindow, Shaped
<1>4. CASE Crash
  <2>1. FoundInWindow'
    BY <1>4, Onward DEF Crash
  <2>2. view' = card /\ card' = card
    BY <1>4 DEF Crash
  <2> QED
    BY <2>1, <2>2 DEF CardBehindWindow, Shaped
<1> QED
  BY <1>1, <1>2, <1>3, <1>4

-----------------------------------------------------------------------------
(* Steps that change the volume: in the window, in a sector that takes its *)
(* place, or on the card behind it.                                        *)

LEMMA LinksInv == Inv /\ (Scan \/ Link \/ Free) => Inv'
<1> SUFFICES ASSUME Inv, Scan \/ Link \/ Free PROVE Inv'
  OBVIOUS
<1>1. FoundInWindow
  BY DEF Inv
<1>2. CASE Scan
  <2>1. win = FatOf(call.ncl) /\ UNCHANGED <<card, win>>
    BY <1>2, SectorAt DEF Scan
  <2>2. CASE view.fat[call.ncl] = 0
    <3>1. SetLink(call.ncl, EOC) /\ wflag' = TRUE
      BY <1>2, <2>2 DEF Scan
    <3>2. FoundInWindow'
      BY <1>1, <1>2, <2>2, Onward DEF Scan, Goto, FoundInWindow
    <3> QED
      BY <2>1, <3>1, <3>2, LinkInWindow DEF Inv
  <2>3. CASE view.fat[call.ncl] # 0
    <3>1. Quiet
      BY <1>2, <2>3 DEF Scan, Quiet
    <3>2. FoundInWindow'
      BY <1>1, <1>2, <2>3, Onward DEF Scan, FoundInWindow
    <3> QED
      BY <3>1, <3>2, QuietKeeps DEF Inv
  <2> QED
    BY <2>2, <2>3
<1>3. CASE Link
  <2>1. /\ win = FatOf(call.prev) /\ UNCHANGED <<card, win>>
        /\ SetLink(call.prev, call.ncl) /\ wflag' = TRUE
    BY <1>3, SectorAt DEF Link
  <2>2. FoundInWindow'
    BY <1>1, <1>3, Onward DEF Link
  <2> QED
    BY <2>1, <2>2, LinkInWindow DEF Inv
<1>4. CASE Free
  <2>1. /\ win = FatOf(call.clst) /\ UNCHANGED <<card, win>>
        /\ SetLink(call.clst, 0) /\ wflag' = TRUE
    BY <1>4, SectorAt DEF Free
  <2>2. FoundInWindow'
    BY <1>1, <1>4, Onward DEF Free, FoundInWindow
  <2> QED
    BY <2>1, <2>2, LinkInWindow DEF Inv
<1> QED
  BY <1>2, <1>3, <1>4

LEMMA EntriesInv == Inv /\ (StorFound \/ Register \/ Close \/ Remove) => Inv'
<1> SUFFICES ASSUME Inv, StorFound \/ Register \/ Close \/ Remove PROVE Inv'
  OBVIOUS
<1>1. FoundInWindow
  BY DEF Inv
<1>2. CASE StorFound
  <2>1. CASE open # NoPlace \/ Found.kind = "dir"
    <3>1. Quiet
      BY <1>2, <2>1 DEF StorFound, Refused, Local, diskVars, Quiet
    <3>2. FoundInWindow'
      BY <1>2, <2>1, Onward DEF StorFound, Refused
    <3> QED
      BY <3>1, <3>2, QuietKeeps DEF Inv
  <2>2. CASE ~(open # NoPlace \/ Found.kind = "dir")
    <3>1. pc = "found"
      BY <1>2 DEF StorFound, At
    <3>2. win = call.clust
      BY <1>1, <3>1 DEF FoundInWindow
    <3>3. /\ SetEntry(call.clust, call.slot, [Found EXCEPT !.start = 0, !.size = 0])
          /\ wflag' = TRUE /\ UNCHANGED <<card, win>>
      BY <1>2, <2>2 DEF StorFound
    <3>4. FoundInWindow'
      BY <1>1, <1>2, <2>2 DEF StorFound, FoundInWindow
    <3> QED
      BY <3>2, <3>3, <3>4, EntryInWindow DEF Inv
  <2> QED
    BY <2>1, <2>2
<1>3. CASE Register
  <2>1. win = call.clust /\ wflag' = TRUE /\ UNCHANGED <<card, win>>
    BY <1>3, SectorAt DEF Register, InDir
  <2>2. \E e : SetEntry(call.clust, call.slot, e)
    BY <1>3 DEF Register
  <2>3. FoundInWindow'
    BY <1>1, <1>3 DEF Register, Goto, FoundInWindow
  <2> QED
    BY <2>1, <2>2, <2>3, EntryInWindow DEF Inv
<1>4. CASE Close
  <2>1. win = call.clust /\ wflag' = TRUE /\ UNCHANGED <<card, win>>
    BY <1>4, SectorAt DEF Close, InDir
  <2>2. \E e : SetEntry(call.clust, call.slot, e)
    BY <1>4 DEF Close
  <2>3. FoundInWindow'
    BY <1>1, <1>4 DEF Close, Goto, FoundInWindow
  <2> QED
    BY <2>1, <2>2, <2>3, EntryInWindow DEF Inv
<1>5. CASE Remove
  <2>1. win = call.oclust /\ wflag' = TRUE /\ UNCHANGED <<card, win>>
    BY <1>5, SectorAt DEF Remove
  <2>2. SetEntry(call.oclust, call.oslot, Unused("gone"))
    BY <1>5 DEF Remove
  <2>3. FoundInWindow'
    BY <1>1, <1>5 DEF Remove, Goto, FoundInWindow
  <2> QED
    BY <2>1, <2>2, <2>3, EntryInWindow DEF Inv
<1> QED
  BY <1>2, <1>3, <1>4, <1>5

LEMMA SectorsInv ==
  Inv /\ (Stretch \/ MkdTable \/ StorPart \/ StorWhole \/ Dotdot) => Inv'
<1> SUFFICES ASSUME Inv, Stretch \/ MkdTable \/ StorPart \/ StorWhole \/ Dotdot PROVE Inv'
  OBVIOUS
<1>1. FoundInWindow
  BY DEF Inv
<1>2. CASE Stretch
  <2>1. /\ view' = [view EXCEPT !.data[call.ncl] = Table(0)]
        /\ ~wflag /\ win' = call.ncl /\ wflag' = TRUE /\ card' = card
    BY <1>2 DEF Stretch, At, Syncing
  <2>2. FoundInWindow'
    BY <1>1, <1>2 DEF Stretch, Goto, FoundInWindow
  <2> QED
    BY <2>1, <2>2, SectorInWindow DEF Inv
<1>3. CASE MkdTable
  <2>1. /\ view' = [view EXCEPT !.data[call.dcl] = Table(call.dir)]
        /\ ~wflag /\ win' = call.dcl /\ wflag' = TRUE /\ card' = card
    BY <1>3 DEF MkdTable, At, Syncing
  <2>2. FoundInWindow'
    BY <1>1, <1>3 DEF MkdTable, Goto, FoundInWindow
  <2> QED
    BY <2>1, <2>2, SectorInWindow DEF Inv
<1>4. CASE StorPart
  <2>1. /\ view' = [view EXCEPT !.data[call.ncl] = Datum(call.text)]
        /\ ~wflag /\ win' = call.ncl /\ wflag' = TRUE /\ card' = card
    BY <1>4 DEF StorPart, Stored, At, Syncing
  <2>2. FoundInWindow'
    BY <1>1, <1>4 DEF StorPart, Stored, FoundInWindow
  <2> QED
    BY <2>1, <2>2, SectorInWindow DEF Inv
<1>5. CASE StorWhole
  <2>1. wflag' = (wflag /\ win # call.ncl) /\ win' = win
    BY <1>5 DEF StorWhole
  <2>2. view' = [view EXCEPT !.data[call.ncl] = Datum(call.text)]
    BY <1>5 DEF StorWhole, Stored
  <2>3. card' = [card EXCEPT !.data[call.ncl] = Datum(call.text)]
    BY <1>5 DEF StorWhole
  <2>4. FoundInWindow'
    BY <1>1, <1>5 DEF StorWhole, Stored, FoundInWindow
  <2>5. Replaced(view, view', call.ncl, Datum(call.text))
    BY <2>2, DataSet DEF Inv
  <2>6. Replaced(card, card', call.ncl, Datum(call.text))
    BY <2>3, DataSet DEF Inv
  <2>7. call.ncl \in Clusters
    BY <1>5 DEF StorWhole
  <2>8. ASSUME NEW c \in Clusters
        PROVE  /\ view'.fat[c] = card'.fat[c] \/ (wflag' /\ win' = FatOf(c))
               /\ view'.data[c] = card'.data[c] \/ (wflag' /\ win' = c)
    <3>1. win = FatOf(c) => win # call.ncl
      BY <2>7, FatOfIsNoCluster
    <3>2. view.fat[c] = card.fat[c] \/ (wflag /\ win = FatOf(c))
      BY DEF Inv, CardBehindWindow
    <3>3. view'.fat[c] = card'.fat[c] \/ (wflag' /\ win' = FatOf(c))
      BY <2>1, <2>5, <2>6, <3>1, <3>2 DEF Replaced
    <3>4. CASE c = call.ncl
      BY <2>5, <2>6, <2>7, <3>3, <3>4 DEF Replaced
    <3>5. CASE c # call.ncl
      <4>1. view.data[c] = card.data[c] \/ (wflag /\ win = c)
        BY DEF Inv, CardBehindWindow
      <4>2. view'.data[c] = view.data[c] /\ card'.data[c] = card.data[c]
        BY <2>5, <2>6, <3>5 DEF Replaced
      <4>3. view'.data[c] = card'.data[c] \/ (wflag' /\ win' = c)
        BY <2>1, <3>5, <4>1, <4>2
      <4> QED
        BY <3>3, <4>3
    <3> QED
      BY <3>4, <3>5
  <2>9. CardBehindWindow'
    BY <2>8 DEF CardBehindWindow
  <2> QED
    BY <2>4, <2>5, <2>6, <2>9 DEF Inv, Replaced
<1>6. CASE Dotdot
  <2>1. /\ view' = [view EXCEPT !.data[call.entry.start] =
                       [view.data[call.entry.start] EXCEPT !.up = call.dir]]
        /\ win = call.entry.start /\ win' = win /\ wflag' = TRUE /\ card' = card
    BY <1>6, SectorAt DEF Dotdot
  <2>2. FoundInWindow'
    BY <1>1, <1>6 DEF Dotdot, Goto, FoundInWindow
  <2> QED
    BY <2>1, <2>2, SectorInWindow DEF Inv
<1> QED
  BY <1>2, <1>3, <1>4, <1>5, <1>6

\* The invariant behind CardBehindWindow: a step that changes a sector has it in
\* the window.
THEOREM SpecInv == Spec => []Inv
<1>1. Inv /\ [Next]_vars => Inv'
  BY SearchInv, CallInv, CommandInv, WindowInv, LinksInv, EntriesInv, SectorsInv
     DEF Next, Step, Stopped
<1> QED
  BY <1>1, InitInv, PTL DEF Spec

\* What ff.c sees of the volume is on the card, but for the one sector that is
\* in the window and was changed: on volumes of any size, through errors of
\* the disk and power failures at any step.
THEOREM CardBehindWindowThm == Spec => []CardBehindWindow
<1>1. Inv => CardBehindWindow
  BY DEF Inv
<1> QED
  BY <1>1, SpecInv, PTL

-----------------------------------------------------------------------------
(* What a recursive function computes. That a function with its equations  *)
(* exists and that there is only one are proved here, by an induction that *)
(* says of a set of numbers what is usually said of a predicate.           *)

LEMMA NatSetInduction ==
  ASSUME NEW S, 0 \in S, \A n \in Nat : n \in S => n + 1 \in S
  PROVE  Nat \subseteq S
<1> DEFINE T == Nat \ S
<1> DEFINE R == OpToRel(<, Nat)
<1>1. SUFFICES ASSUME T # {} PROVE FALSE
  OBVIOUS
<1>2. IsWellFoundedOn(R, Nat)
  BY NatLessThanWellFounded
<1> HIDE DEF R
<1>3. PICK x \in T : \A y \in T : ~(<<y, x>> \in R)
  BY <1>1, <1>2, WFMin
<1>4. x # 0 /\ x - 1 \in Nat /\ x = (x - 1) + 1
  OBVIOUS
<1>5. x - 1 \in T
  BY <1>4
<1>6. <<x - 1, x>> \in R
  <2>1. <<x - 1, x>> \in Nat \X Nat /\ x - 1 < x
    BY <1>4
  <2> QED BY <2>1, Zenon DEF OpToRel, R
<1> QED BY <1>3, <1>5, <1>6

\* A function whose values are defined each from the one before it.
Stays(G, n, D) == \A x \in D, i \in 1 .. n : G[<<x, i>>] \in D
Runs(f, n, G)  == \A i \in 1 .. n : f[i] = G[<<f[i - 1], i>>]
Alike(f, g, n) == f[0] = g[0] /\ \A i \in 1 .. n : f[i - 1] = g[i - 1] => f[i] = g[i]

LEMMA RecursionExists ==
  ASSUME NEW n \in Nat, NEW D, NEW b \in D, NEW G, Stays(G, n, D)
  PROVE  \E f \in [0 .. n -> D] : f[0] = b /\ Runs(f, n, G)
<1> DEFINE Upon(k) == {f \in [0 .. n -> D] :
                         f[0] = b /\ \A i \in 1 .. k : f[i] = G[<<f[i - 1], i>>]}
<1> DEFINE S == {k \in Nat : k <= n => Upon(k) # {}}
<1>1. 0 \in S
  <2>1. [i \in 0 .. n |-> b] \in Upon(0)
    OBVIOUS
  <2> QED BY <2>1
<1>2. ASSUME NEW k \in Nat, k \in S PROVE k + 1 \in S
  <2> SUFFICES ASSUME k + 1 <= n PROVE Upon(k + 1) # {}
    OBVIOUS
  <2>1. PICK f \in Upon(k) : TRUE
    BY <1>2
  <2> DEFINE h == [f EXCEPT ![k + 1] = G[<<f[k], k + 1>>]]
  <2>2. k \in 0 .. n /\ k + 1 \in 1 .. n
    OBVIOUS
  <2>3. G[<<f[k], k + 1>>] \in D
    BY <2>1, <2>2 DEF Stays
  <2>4. h \in [0 .. n -> D] /\ h[0] = b
    BY <2>1, <2>2, <2>3
  <2>5. \A i \in 1 .. k + 1 : h[i] = G[<<h[i - 1], i>>]
    <3> TAKE i \in 1 .. k + 1
    <3>1. h[i - 1] = f[i - 1]
      BY <2>2
    <3>2. CASE i = k + 1
      BY <3>1, <3>2, <2>2
    <3>3. CASE i # k + 1
      <4>1. i \in 1 .. k /\ h[i] = f[i]
        BY <3>3, <2>2
      <4> QED BY <4>1, <3>1, <2>1
    <3> QED BY <3>2, <3>3
  <2> QED BY <2>4, <2>5
<1>3. n \in S
  <2>1. Nat \subseteq S
    <3> HIDE DEF S
    <3> QED BY <1>1, <1>2, NatSetInduction
  <2> QED BY <2>1
<1>4. PICK f \in Upon(n) : TRUE
  BY <1>3
<1> QED BY <1>4 DEF Runs

LEMMA RecursionUnique ==
  ASSUME NEW n \in Nat, NEW f, NEW g, Alike(f, g, n)
  PROVE  \A i \in 0 .. n : f[i] = g[i]
<1> DEFINE S == {k \in Nat : k <= n => f[k] = g[k]}
<1>1. 0 \in S
  BY DEF Alike
<1>2. ASSUME NEW k \in Nat, k \in S PROVE k + 1 \in S
  <2>1. CASE k + 1 <= n
    <3>1. k + 1 \in 1 .. n /\ (k + 1) - 1 = k /\ k <= n
      BY <2>1
    <3> QED BY <1>2, <3>1 DEF Alike
  <2> QED BY <2>1
<1>3. Nat \subseteq S
  <2> HIDE DEF S
  <2> QED BY <1>1, <1>2, NatSetInduction
<1> QED BY <1>3

-----------------------------------------------------------------------------
(* Sets that are built in stages.                                          *)

LEMMA StagesWithin ==
  ASSUME NEW n \in Nat, NEW f, NEW S, f[0] \subseteq S,
         \A i \in 1 .. n : f[i - 1] \subseteq S => f[i] \subseteq S
  PROVE  f[n] \subseteq S
<1> DEFINE T == {k \in Nat : k <= n => f[k] \subseteq S}
<1>1. 0 \in T
  OBVIOUS
<1>2. ASSUME NEW k \in Nat, k \in T PROVE k + 1 \in T
  <2>1. CASE k + 1 <= n
    <3>1. k + 1 \in 1 .. n /\ (k + 1) - 1 = k /\ k <= n
      BY <2>1
    <3> QED BY <1>2, <3>1
  <2> QED BY <2>1
<1>3. Nat \subseteq T
  <2> HIDE DEF T
  <2> QED BY <1>1, <1>2, NatSetInduction
<1> QED BY <1>3

\* A set of n + 1 things can grow n times, once it has one of them.
Growing(G, U)   == G \in [SUBSET U -> SUBSET U] /\ \A S \in SUBSET U : S \subseteq G[S]
Staged(f, n, G) == \A i \in 1 .. n : f[i] = G[f[i - 1]]

LEMMA StagesEnd ==
  ASSUME NEW n \in Nat, NEW U, IsFiniteSet(U), Cardinality(U) = n + 1, NEW G, Growing(G, U),
         NEW f, f[0] \in SUBSET U, f[0] # {}, Staged(f, n, G)
  PROVE  f[n] \in SUBSET U /\ G[f[n]] = f[n]
<1> USE DEF Growing, Staged
<1> DEFINE T == {k \in Nat : k <= n =>
                   /\ f[k] \in SUBSET U
                   /\ G[f[k]] = f[k] \/ Cardinality(f[k]) >= k + 1}
<1>1. 0 \in T
  <2>1. IsFiniteSet(f[0]) /\ Cardinality(f[0]) \in Nat /\ Cardinality(f[0]) # 0
    BY FS_Subset, FS_CardinalityType, FS_EmptySet
  <2> QED BY <2>1
<1>2. ASSUME NEW k \in Nat, k \in T PROVE k + 1 \in T
  <2> SUFFICES ASSUME k + 1 <= n
               PROVE  /\ f[k + 1] \in SUBSET U
                      /\ G[f[k + 1]] = f[k + 1] \/ Cardinality(f[k + 1]) >= k + 2
    OBVIOUS
  <2>1. k + 1 \in 1 .. n /\ (k + 1) - 1 = k /\ k <= n
    OBVIOUS
  <2>2. f[k] \in SUBSET U /\ f[k + 1] = G[f[k]]
    BY <1>2, <2>1
  <2>3. f[k + 1] \in SUBSET U /\ f[k] \subseteq f[k + 1]
    BY <2>2
  <2>4. CASE G[f[k]] = f[k]
    BY <2>2, <2>3, <2>4
  <2>5. CASE G[f[k]] # f[k]
    <3>1. PICK x \in f[k + 1] : x \notin f[k]
      BY <2>2, <2>3, <2>5
    <3>2. IsFiniteSet(f[k]) /\ IsFiniteSet(f[k + 1]) /\ f[k] \cup {x} \subseteq f[k + 1]
      BY <2>2, <2>3, <3>1, FS_Subset
    <3>3. Cardinality(f[k] \cup {x}) = Cardinality(f[k]) + 1
      BY <3>1, <3>2, FS_AddElement
    <3>4. Cardinality(f[k] \cup {x}) <= Cardinality(f[k + 1])
      BY <3>2, FS_Subset
    <3>5. Cardinality(f[k]) >= k + 1
      BY <1>2, <2>1, <2>5
    <3>6. Cardinality(f[k]) \in Nat /\ Cardinality(f[k + 1]) \in Nat
      BY <3>2, FS_CardinalityType
    <3> QED BY <2>3, <3>3, <3>4, <3>5, <3>6
  <2> QED BY <2>4, <2>5
<1>3. Nat \subseteq T
  <2> HIDE DEF T
  <2> QED BY <1>1, <1>2, NatSetInduction
<1>4. f[n] \in SUBSET U /\ (G[f[n]] = f[n] \/ Cardinality(f[n]) >= n + 1)
  BY <1>3
<1>5. CASE Cardinality(f[n]) >= n + 1
  <2>1. Cardinality(f[n]) <= Cardinality(U) /\ Cardinality(f[n]) \in Nat
    BY <1>4, FS_Subset, FS_CardinalityType
  <2>2. f[n] = U
    BY <1>4, <1>5, <2>1, FS_Subset
  <2>3. U \in SUBSET U
    OBVIOUS
  <2>4. G[U] \in SUBSET U /\ U \subseteq G[U]
    BY <2>3
  <2>5. G[U] = U
    BY <2>4
  <2> QED BY <2>2, <2>5
<1> QED BY <1>4, <1>5

-----------------------------------------------------------------------------
(* Chains.  The chain of a cluster is the least set that has the cluster   *)
(* and all that its links lead to.                                         *)

\* The links of the FAT have their types.
Linked(m) == m.fat \in [Clusters -> Links]

LEMMA ClustersCount ==
  /\ IsFiniteSet(Clusters) /\ Cardinality(Clusters) = (LAST - Root) + 1
  /\ LAST - Root \in Nat /\ LAST \in Nat /\ Root \in Clusters /\ EOC \notin Clusters
BY FatAssumption, FS_Interval DEF Clusters, Root, EOC

\* f is how Chain comes to the chain of c.
StagesOf(m, c, f) ==
  /\ f \in [0 .. LAST -> SUBSET Clusters] /\ f[0] = {c} \cap Clusters
  /\ \A i \in 1 .. LAST : f[i] = f[i - 1] \cup ({m.fat[b] : b \in f[i - 1]} \cap Clusters)
  /\ Chain(m, c) = f[LAST - Root]

LEMMA ChainStages == ASSUME NEW m, Linked(m), NEW c PROVE \E f : StagesOf(m, c, f)
<1> DEFINE f[i \in 0 .. LAST] ==
             IF i = 0 THEN {c} \cap Clusters
             ELSE LET cs == f[i - 1] IN cs \cup ({m.fat[b] : b \in cs} \cap Clusters)
<1> DEFINE D == SUBSET Clusters
<1> DEFINE G == [p \in D \X (1 .. LAST) |->
                   p[1] \cup ({m.fat[b] : b \in p[1]} \cap Clusters)]
<1>1. Stays(G, LAST, D)
  <2>1. ASSUME NEW x \in D, NEW i \in 1 .. LAST PROVE G[<<x, i>>] \in D
    OBVIOUS
  <2> HIDE DEF G, D
  <2> QED BY <2>1 DEF Stays
<1>2. PICK g \in [0 .. LAST -> D] : g[0] = {c} \cap Clusters /\ Runs(g, LAST, G)
  <2>1. {c} \cap Clusters \in D
    OBVIOUS
  <2> HIDE DEF G, D
  <2> QED BY <1>1, <2>1, ClustersCount, RecursionExists
<1>3. \A i \in 1 .. LAST : g[i] = g[i - 1] \cup ({m.fat[b] : b \in g[i - 1]} \cap Clusters)
  <2> TAKE i \in 1 .. LAST
  <2>1. i - 1 \in 0 .. LAST /\ g[i - 1] \in D
    BY ClustersCount
  <2>2. g[i] = G[<<g[i - 1], i>>]
    BY <1>2 DEF Runs
  <2> QED BY <2>1, <2>2
<1>4. g = [i \in 0 .. LAST |->
             IF i = 0 THEN {c} \cap Clusters
             ELSE LET cs == g[i - 1] IN cs \cup ({m.fat[b] : b \in cs} \cap Clusters)]
  <2>1. \A i \in 0 .. LAST : i # 0 => i \in 1 .. LAST
    OBVIOUS
  <2>2. \A i \in 0 .. LAST :
          g[i] = IF i = 0 THEN {c} \cap Clusters
                 ELSE LET cs == g[i - 1] IN cs \cup ({m.fat[b] : b \in cs} \cap Clusters)
    BY <1>2, <1>3, <2>1
  <2> HIDE DEF D
  <2> QED BY <2>2
<1>5. f = [i \in 0 .. LAST |->
             IF i = 0 THEN {c} \cap Clusters
             ELSE LET cs == f[i - 1] IN cs \cup ({m.fat[b] : b \in cs} \cap Clusters)]
  <2> HIDE DEF G, D
  <2> QED BY <1>4
<1>6. f \in [0 .. LAST -> D] /\ f[0] = {c} \cap Clusters
      /\ \A i \in 1 .. LAST : f[i] = f[i - 1] \cup ({m.fat[b] : b \in f[i - 1]} \cap Clusters)
  <2>1. Alike(g, f, LAST)
    <3>1. 0 \in 0 .. LAST /\ \A i \in 1 .. LAST : i \in 0 .. LAST /\ i # 0
      BY ClustersCount
    <3>2. f[0] = {c} \cap Clusters
      BY <1>5, <3>1
    <3>3. \A i \in 1 .. LAST : f[i] = f[i - 1] \cup ({m.fat[b] : b \in f[i - 1]} \cap Clusters)
      BY <1>5, <3>1
    <3> HIDE DEF f
    <3> QED BY <1>2, <1>3, <3>2, <3>3 DEF Alike
  <2>2. \A i \in 0 .. LAST : g[i] = f[i]
    <3> HIDE DEF f
    <3> QED BY <2>1, ClustersCount, RecursionUnique
  <2>3. f = g
    <3>1. DOMAIN f = 0 .. LAST /\ f = [i \in 0 .. LAST |-> f[i]]
      BY <1>5
    <3> HIDE DEF f
    <3> QED BY <2>2, <3>1
  <2> HIDE DEF f
  <2> QED BY <1>2, <1>3, <2>3
<1>7. Chain(m, c) = f[LAST - Root]
  BY DEF Chain
<1> HIDE DEF f
<1> QED BY <1>6, <1>7 DEF StagesOf

\* 0 and the mark of an end have no chain.
LEMMA ChainNone ==
  ASSUME NEW m, Linked(m), NEW c, c \notin Clusters
  PROVE  Chain(m, c) = {}
<1>0. PICK f : StagesOf(m, c, f)
  BY ChainStages
<1>1. /\ f \in [0 .. LAST -> SUBSET Clusters] /\ f[0] = {c} \cap Clusters
      /\ \A i \in 1 .. LAST : f[i] = f[i - 1] \cup ({m.fat[b] : b \in f[i - 1]} \cap Clusters)
      /\ Chain(m, c) = f[LAST - Root]
  BY <1>0 DEF StagesOf
<1> DEFINE n == LAST - Root
<1>n. n \in Nat
  BY ClustersCount
<1>2. f[0] \subseteq {}
  BY <1>1
<1>3. \A i \in 1 .. n : f[i - 1] \subseteq {} => f[i] \subseteq {}
  <2>1. \A i \in 1 .. n : i \in 1 .. LAST
    BY FatAssumption DEF Root
  <2> QED BY <1>1, <2>1
<1>4. f[n] \subseteq {}
  <2> HIDE DEF n
  <2> QED BY <1>2, <1>3, <1>n, StagesWithin
<1> QED BY <1>1, <1>4

\* A set that has c and what its members lead to has the chain of c.
LEMMA ChainLeast ==
  ASSUME NEW m, Linked(m), NEW c, NEW S, c \in S,
         \A b \in S \cap Clusters : m.fat[b] \in Clusters => m.fat[b] \in S
  PROVE  Chain(m, c) \subseteq S
<1>0. PICK f : StagesOf(m, c, f)
  BY ChainStages
<1>1. /\ f \in [0 .. LAST -> SUBSET Clusters] /\ f[0] = {c} \cap Clusters
      /\ \A i \in 1 .. LAST : f[i] = f[i - 1] \cup ({m.fat[b] : b \in f[i - 1]} \cap Clusters)
      /\ Chain(m, c) = f[LAST - Root]
  BY <1>0 DEF StagesOf
<1> DEFINE n == LAST - Root
<1>n. n \in Nat
  BY ClustersCount
<1>2. f[0] \subseteq S
  BY <1>1
<1>3. \A i \in 1 .. n : f[i - 1] \subseteq S => f[i] \subseteq S
  <2>1. \A i \in 1 .. n : i \in 1 .. LAST /\ i - 1 \in 0 .. LAST
    BY FatAssumption DEF Root
  <2> QED BY <1>1, <2>1
<1>4. f[n] \subseteq S
  <2> HIDE DEF n
  <2> QED BY <1>2, <1>3, <1>n, StagesWithin
<1> QED BY <1>1, <1>4

\* The chain of c has c, and what its members lead to.
LEMMA ChainIs ==
  ASSUME NEW m, Linked(m), NEW c \in Clusters
  PROVE  /\ Chain(m, c) \in SUBSET Clusters /\ c \in Chain(m, c)
         /\ \A b \in Chain(m, c) : m.fat[b] \in Clusters => m.fat[b] \in Chain(m, c)
<1>0. PICK f : StagesOf(m, c, f)
  BY ChainStages
<1>1. /\ f \in [0 .. LAST -> SUBSET Clusters] /\ f[0] = {c} \cap Clusters
      /\ \A i \in 1 .. LAST : f[i] = f[i - 1] \cup ({m.fat[b] : b \in f[i - 1]} \cap Clusters)
      /\ Chain(m, c) = f[LAST - Root]
  BY <1>0 DEF StagesOf
<1> DEFINE G == [S \in SUBSET Clusters |-> S \cup ({m.fat[b] : b \in S} \cap Clusters)]
<1> DEFINE n == LAST - Root
<1>n. n \in Nat /\ Cardinality(Clusters) = n + 1 /\ IsFiniteSet(Clusters)
  BY ClustersCount
<1>2. G \in [SUBSET Clusters -> SUBSET Clusters] /\ \A S \in SUBSET Clusters : S \subseteq G[S]
  OBVIOUS
<1>3. f[0] = {c} /\ f[0] \in SUBSET Clusters /\ f[0] # {}
  BY <1>1
<1>4. \A i \in 1 .. n : f[i] = G[f[i - 1]]
  <2> TAKE i \in 1 .. n
  <2>1. i \in 1 .. LAST /\ i - 1 \in 0 .. LAST
    BY FatAssumption DEF Root
  <2>2. f[i - 1] \in SUBSET Clusters
    BY <1>1, <2>1
  <2> QED BY <1>1, <2>1, <2>2
<1>5. f[n] \in SUBSET Clusters /\ G[f[n]] = f[n]
  <2> HIDE DEF G, n
  <2>1. Growing(G, Clusters) /\ Staged(f, n, G)
    BY <1>2, <1>4 DEF Growing, Staged
  <2>2. f[0] \in SUBSET Clusters /\ f[0] # {}
    BY <1>3
  <2> QED BY <2>1, <2>2, <1>n, StagesEnd
<1>6. c \in f[n]
  <2> DEFINE T == {i \in Nat : i <= n => c \in f[i]}
  <2>1. 0 \in T
    BY <1>3
  <2>2. ASSUME NEW k \in Nat, k \in T PROVE k + 1 \in T
    <3> SUFFICES ASSUME k + 1 <= n PROVE c \in f[k + 1]
      OBVIOUS
    <3>1. k + 1 \in 1 .. LAST /\ (k + 1) - 1 = k /\ k <= n
      BY FatAssumption DEF Root
    <3>2. f[k] \subseteq f[k + 1]
      BY <1>1, <3>1
    <3> QED BY <2>2, <3>1, <3>2
  <2>3. Nat \subseteq T
    <3> HIDE DEF T
    <3> QED BY <2>1, <2>2, NatSetInduction
  <2> QED BY <2>3, ClustersCount
<1>7. \A b \in f[n] : m.fat[b] \in Clusters => m.fat[b] \in f[n]
  <2>1. f[n] \cup ({m.fat[b] : b \in f[n]} \cap Clusters) = f[n]
    BY <1>5
  <2> HIDE DEF n
  <2> QED BY <2>1
<1> QED BY <1>1, <1>5, <1>6, <1>7

\* No link leads to c, but c is taken: it begins a chain.
Head(m, c) == c \in Clusters /\ m.fat[c] # 0 /\ \A b \in Clusters : m.fat[b] # c

\* No two links lead to one cluster, none to a free one or to the root.
Single(m)    == \A b, c \in Clusters : b # c /\ m.fat[b] = m.fat[c] => m.fat[b] \notin Clusters
LinksHold(m) ==
  /\ Single(m)
  /\ \A b \in Clusters : m.fat[b] \in Clusters => m.fat[m.fat[b]] # 0
  /\ Head(m, Root)

LEMMA ChainLed ==
  ASSUME NEW m, Linked(m), NEW c \in Clusters, NEW b \in Chain(m, c), b # c
  PROVE  \E a \in Chain(m, c) : m.fat[a] = b
<1> DEFINE C == Chain(m, c)
<1> DEFINE S == {c} \cup {x \in C : \E a \in C : m.fat[a] = x}
<1>1. c \in C /\ \A a \in C : m.fat[a] \in Clusters => m.fat[a] \in C
  BY ChainIs
<1>2. \A x \in S \cap Clusters : m.fat[x] \in Clusters => m.fat[x] \in S
  <2> HIDE DEF C
  <2> QED BY <1>1
<1>3. C \subseteq S
  <2>1. c \in S
    OBVIOUS
  <2> HIDE DEF S
  <2> QED BY <1>2, <2>1, ChainLeast
<1> HIDE DEF C
<1> QED BY <1>3 DEF C

LEMMA ChainTail ==
  ASSUME NEW m, Linked(m), NEW h \in Clusters, NEW c \in Chain(m, h)
  PROVE  Chain(m, c) \subseteq Chain(m, h)
<1>1. \A b \in Chain(m, h) \cap Clusters : m.fat[b] \in Clusters => m.fat[b] \in Chain(m, h)
  BY ChainIs
<1> QED BY <1>1, ChainLeast

LEMMA ChainUnrolls ==
  ASSUME NEW m, Linked(m), NEW c \in Clusters
  PROVE  Chain(m, c) = {c} \cup Chain(m, m.fat[c])
<1>1. c \in Chain(m, c) /\ (m.fat[c] \in Clusters => m.fat[c] \in Chain(m, c))
  BY ChainIs
<1>2. CASE m.fat[c] \in Clusters
  <2>1. Chain(m, m.fat[c]) \subseteq Chain(m, c)
    BY <1>1, <1>2, ChainTail
  <2> DEFINE S == {c} \cup Chain(m, m.fat[c])
  <2>2. \A b \in S \cap Clusters : m.fat[b] \in Clusters => m.fat[b] \in S
    BY <1>2, ChainIs
  <2>3. Chain(m, c) \subseteq S
    <3>1. c \in S
      OBVIOUS
    <3> HIDE DEF S
    <3> QED BY <2>2, <3>1, ChainLeast
  <2> QED BY <1>1, <2>1, <2>3
<1>3. CASE m.fat[c] \notin Clusters
  <2>1. Chain(m, m.fat[c]) = {}
    BY <1>3, ChainNone
  <2>2. Chain(m, c) \subseteq {c}
    <3>1. c \in {c} /\ \A b \in {c} \cap Clusters : m.fat[b] \in Clusters => m.fat[b] \in {c}
      BY <1>3
    <3> QED BY <3>1, ChainLeast
  <2> QED BY <1>1, <2>1, <2>2
<1> QED BY <1>2, <1>3

\* Two chains that begin with different clusters have no cluster in common.
LEMMA ChainsApart ==
  ASSUME NEW m, Linked(m), Single(m), NEW g, NEW h, Head(m, g), Head(m, h), g # h
  PROVE  Chain(m, g) \cap Chain(m, h) = {}
<1>1. g \in Clusters /\ h \in Clusters
  BY DEF Head
<1> DEFINE S == Clusters \ Chain(m, h)
<1>2. Chain(m, h) \subseteq Clusters /\ Chain(m, g) \subseteq Clusters
  BY <1>1, ChainIs
<1>3. g \in S
  <2> SUFFICES ASSUME g \in Chain(m, h) PROVE FALSE
    BY <1>1
  <2>1. PICK a \in Chain(m, h) : m.fat[a] = g
    BY <1>1, ChainLed
  <2> QED BY <1>2, <2>1 DEF Head
<1>4. ASSUME NEW b \in S \cap Clusters, m.fat[b] \in Clusters PROVE m.fat[b] \in S
  <2> SUFFICES ASSUME m.fat[b] \in Chain(m, h) PROVE FALSE
    BY <1>4
  <2>1. m.fat[b] # h
    BY DEF Head
  <2>2. PICK a \in Chain(m, h) : m.fat[a] = m.fat[b]
    BY <1>1, <2>1, ChainLed
  <2>3. a # b /\ a \in Clusters
    BY <1>2
  <2> QED BY <1>4, <2>2, <2>3 DEF Single
<1>5. Chain(m, g) \subseteq S
  <2> HIDE DEF S
  <2> QED BY <1>3, <1>4, ChainLeast
<1> QED BY <1>5

LEMMA ChainTaken ==
  ASSUME NEW m, Linked(m), LinksHold(m), NEW c, Head(m, c)
  PROVE  \A b \in Chain(m, c) : m.fat[b] # 0
<1>1. c \in Clusters /\ m.fat[c] # 0
  BY DEF Head
<1>2. ASSUME NEW b \in Chain(m, c), b # c PROVE m.fat[b] # 0
  <2>1. PICK a \in Chain(m, c) : m.fat[a] = b
    BY <1>1, <1>2, ChainLed
  <2>2. a \in Clusters /\ b \in Clusters
    BY <1>1, ChainIs
  <2> QED BY <2>1, <2>2 DEF LinksHold
<1> QED BY <1>1, <1>2

\* A chain that goes on for ever would lead twice to one cluster.
LEMMA ChainEnds ==
  ASSUME NEW m, Linked(m), LinksHold(m), NEW c, Head(m, c)
  PROVE  Ends(m, c)
<1> SUFFICES ASSUME \A b \in Chain(m, c) : m.fat[b] # EOC PROVE FALSE
  BY DEF Ends
<1> DEFINE C == Chain(m, c)
<1>1. c \in Clusters /\ c \in C /\ C \in SUBSET Clusters
      /\ \A b \in C : m.fat[b] \in Clusters => m.fat[b] \in C
  BY ChainIs DEF Head
<1>2. \A b \in C : m.fat[b] # 0
  BY ChainTaken
<1>3. \A b \in C : m.fat[b] \in C \ {c} /\ m.fat[b] \in Clusters
  <2> TAKE b \in C
  <2>1. m.fat[b] \in Links
    BY <1>1 DEF Linked
  <2> QED BY <1>1, <1>2, <2>1 DEF Links, Head
<1> DEFINE g == [b \in C |-> m.fat[b]]
<1> HIDE DEF C
<1>4. g \in [C -> C \ {c}]
  BY <1>3
<1>5. IsFiniteSet(C) /\ IsFiniteSet(C \ {c}) /\ Cardinality(C \ {c}) = Cardinality(C) - 1
      /\ Cardinality(C) \in Nat
  BY <1>1, ClustersCount, FS_Subset, FS_RemoveElement, FS_CardinalityType
<1>6. \E x, y \in C : x # y /\ g[x] = g[y]
  <2>1. Cardinality(C \ {c}) < Cardinality(C)
    BY <1>5
  <2> HIDE DEF g
  <2> QED BY <1>4, <1>5, <2>1, FS_PigeonHole
<1>7. PICK x \in C, y \in C : x # y /\ m.fat[x] = m.fat[y]
  BY <1>6
<1> QED BY <1>1, <1>3, <1>7 DEF LinksHold, Single

\* The chain changes only if a link on it does.
LEMMA ChainSame ==
  ASSUME NEW m, Linked(m), NEW n, Linked(n), NEW c,
         \A b \in Chain(m, c) : n.fat[b] = m.fat[b]
  PROVE  Chain(n, c) = Chain(m, c)
<1>1. CASE c \notin Clusters
  BY <1>1, ChainNone
<1>2. CASE c \in Clusters
  <2>1. c \in Chain(m, c) /\ Chain(m, c) \subseteq Clusters
        /\ \A b \in Chain(m, c) : m.fat[b] \in Clusters => m.fat[b] \in Chain(m, c)
    BY <1>2, ChainIs
  <2>2. \A b \in Chain(m, c) \cap Clusters : n.fat[b] \in Clusters => n.fat[b] \in Chain(m, c)
    BY <2>1
  <2>3. Chain(n, c) \subseteq Chain(m, c)
    BY <2>1, <2>2, ChainLeast
  <2>4. c \in Chain(n, c)
        /\ \A b \in Chain(n, c) : n.fat[b] \in Clusters => n.fat[b] \in Chain(n, c)
    BY <1>2, ChainIs
  <2> DEFINE S == Chain(n, c) \cap Chain(m, c)
  <2>5. \A b \in S \cap Clusters : m.fat[b] \in Clusters => m.fat[b] \in S
    BY <2>1, <2>4
  <2>6. Chain(m, c) \subseteq S
    <3>1. c \in S
      BY <2>1, <2>4
    <3> HIDE DEF S
    <3> QED BY <2>5, <3>1, ChainLeast
  <2> QED BY <2>3, <2>6
<1> QED BY <1>1, <1>2

\* A chain grows by what is linked to its end.
LEMMA ChainLonger ==
  ASSUME NEW m, Linked(m), NEW c \in Clusters, NEW b \in Chain(m, c), m.fat[b] \notin Clusters,
         NEW x \in Clusters, m.fat[x] \notin Clusters,
         NEW n, Linked(n), n.fat = [m.fat EXCEPT ![b] = x]
  PROVE  Chain(n, c) = Chain(m, c) \cup {x}
<1>1. c \in Chain(m, c) /\ Chain(m, c) \subseteq Clusters
      /\ \A a \in Chain(m, c) : m.fat[a] \in Clusters => m.fat[a] \in Chain(m, c)
  BY ChainIs
<1>2. n.fat[b] = x /\ \A a \in Clusters : a # b => n.fat[a] = m.fat[a]
  BY <1>1 DEF Linked
<1> DEFINE S == Chain(m, c) \cup {x}
<1>3. \A a \in S \cap Clusters : n.fat[a] \in Clusters => n.fat[a] \in S
  BY <1>1, <1>2
<1>4. Chain(n, c) \subseteq S
  <2>1. c \in S
    BY <1>1
  <2> HIDE DEF S
  <2> QED BY <1>3, <2>1, ChainLeast
<1>5. c \in Chain(n, c) /\ Chain(n, c) \subseteq Clusters
      /\ \A a \in Chain(n, c) : n.fat[a] \in Clusters => n.fat[a] \in Chain(n, c)
  BY ChainIs
<1>6. Chain(m, c) \subseteq Chain(n, c)
  <2>1. \A a \in Chain(n, c) \cap Clusters : m.fat[a] \in Clusters => m.fat[a] \in Chain(n, c)
    BY <1>2, <1>5
  <2> QED BY <1>5, <2>1, ChainLeast
<1>7. x \in Chain(n, c)
  BY <1>2, <1>5, <1>6
<1> QED BY <1>4, <1>6, <1>7

-----------------------------------------------------------------------------
(* The blocks of a file.                                                   *)

LEMMA BlockSteps ==
  ASSUME NEW m, Linked(m), NEW c \in Links
  PROVE  /\ BlockAt(m, c, 0) = c
         /\ \A i \in 1 .. MAX_BLOCKS :
              BlockAt(m, c, i) = IF BlockAt(m, c, i - 1) \in Clusters
                                 THEN m.fat[BlockAt(m, c, i - 1)] ELSE BlockAt(m, c, i - 1)
<1> DEFINE f[j \in 0 .. MAX_BLOCKS] ==
             IF j = 0 THEN c
             ELSE LET b == f[j - 1] IN IF b \in Clusters THEN m.fat[b] ELSE b
<1> DEFINE G == [p \in Links \X (1 .. MAX_BLOCKS) |->
                   IF p[1] \in Clusters THEN m.fat[p[1]] ELSE p[1]]
<1>0. MAX_BLOCKS \in Nat
  BY FatAssumption
<1>1. Stays(G, MAX_BLOCKS, Links)
  <2>1. ASSUME NEW x \in Links, NEW i \in 1 .. MAX_BLOCKS PROVE G[<<x, i>>] \in Links
    BY DEF Linked
  <2> HIDE DEF G
  <2> QED BY <2>1 DEF Stays
<1>2. PICK g \in [0 .. MAX_BLOCKS -> Links] : g[0] = c /\ Runs(g, MAX_BLOCKS, G)
  <2> HIDE DEF G
  <2> QED BY <1>0, <1>1, RecursionExists
<1>3. \A i \in 1 .. MAX_BLOCKS : g[i] = IF g[i - 1] \in Clusters THEN m.fat[g[i - 1]] ELSE g[i - 1]
  <2> TAKE i \in 1 .. MAX_BLOCKS
  <2>1. i - 1 \in 0 .. MAX_BLOCKS /\ g[i - 1] \in Links
    BY <1>0
  <2>2. g[i] = G[<<g[i - 1], i>>]
    BY <1>2 DEF Runs
  <2> QED BY <2>1, <2>2
<1>4. g = [j \in 0 .. MAX_BLOCKS |->
             IF j = 0 THEN c
             ELSE LET b == g[j - 1] IN IF b \in Clusters THEN m.fat[b] ELSE b]
  <2>1. \A i \in 0 .. MAX_BLOCKS : i # 0 => i \in 1 .. MAX_BLOCKS
    OBVIOUS
  <2>2. \A j \in 0 .. MAX_BLOCKS :
          g[j] = IF j = 0 THEN c ELSE LET b == g[j - 1] IN IF b \in Clusters THEN m.fat[b] ELSE b
    BY <1>2, <1>3, <2>1
  <2> QED BY <2>2
<1>5. f = [j \in 0 .. MAX_BLOCKS |->
             IF j = 0 THEN c
             ELSE LET b == f[j - 1] IN IF b \in Clusters THEN m.fat[b] ELSE b]
  <2> HIDE DEF G
  <2> QED BY <1>4
<1>6. \A i \in 0 .. MAX_BLOCKS : BlockAt(m, c, i) = f[i]
  BY DEF BlockAt
<1> HIDE DEF f
<1>7. f[0] = c /\ \A i \in 1 .. MAX_BLOCKS : i - 1 \in 0 .. MAX_BLOCKS /\ i \in 0 .. MAX_BLOCKS
        /\ f[i] = IF f[i - 1] \in Clusters THEN m.fat[f[i - 1]] ELSE f[i - 1]
  BY <1>0, <1>5
<1>8. 0 \in 0 .. MAX_BLOCKS
  BY <1>0
<1> QED BY <1>6, <1>7, <1>8

\* A block of the file is in its chain, and is where it is as long as the
\* links before it are.
LEMMA BlockInChain ==
  ASSUME NEW m, Linked(m), NEW c \in Clusters,
         NEW n, Linked(n),
         \A b \in Chain(m, c) : m.fat[b] \in Clusters => n.fat[b] = m.fat[b]
  PROVE  \A i \in 0 .. MAX_BLOCKS : BlockAt(m, c, i) \in Clusters =>
           /\ BlockAt(m, c, i) \in Chain(m, c)
           /\ BlockAt(n, c, i) = BlockAt(m, c, i)
<1> DEFINE T == {i \in Nat : i <= MAX_BLOCKS /\ BlockAt(m, c, i) \in Clusters =>
                   BlockAt(m, c, i) \in Chain(m, c) /\ BlockAt(n, c, i) = BlockAt(m, c, i)}
<1>0. c \in Links /\ MAX_BLOCKS \in Nat
  BY FatAssumption DEF Links
<1>1. c \in Chain(m, c) /\ \A b \in Chain(m, c) : m.fat[b] \in Clusters => m.fat[b] \in Chain(m, c)
  BY ChainIs
<1>2. 0 \in T
  BY <1>0, <1>1, BlockSteps
<1>3. ASSUME NEW k \in Nat, k \in T PROVE k + 1 \in T
  <2> SUFFICES ASSUME k + 1 <= MAX_BLOCKS, BlockAt(m, c, k + 1) \in Clusters
               PROVE  /\ BlockAt(m, c, k + 1) \in Chain(m, c)
                      /\ BlockAt(n, c, k + 1) = BlockAt(m, c, k + 1)
    OBVIOUS
  <2>1. k + 1 \in 1 .. MAX_BLOCKS /\ (k + 1) - 1 = k /\ k <= MAX_BLOCKS
    BY <1>0
  <2> DEFINE b == BlockAt(m, c, k)
  <2>2. BlockAt(m, c, k + 1) = IF b \in Clusters THEN m.fat[b] ELSE b
    BY <1>0, <2>1, BlockSteps
  <2>3. b \in Clusters /\ BlockAt(m, c, k + 1) = m.fat[b]
    BY <2>2
  <2>4. b \in Chain(m, c) /\ BlockAt(n, c, k) = b
    BY <1>3, <2>1, <2>3
  <2>5. BlockAt(n, c, k + 1) = IF BlockAt(n, c, k) \in Clusters
                               THEN n.fat[BlockAt(n, c, k)] ELSE BlockAt(n, c, k)
    BY <1>0, <2>1, BlockSteps
  <2>6. BlockAt(n, c, k + 1) = n.fat[b]
    BY <2>3, <2>4, <2>5
  <2> QED BY <1>1, <2>3, <2>4, <2>6
<1>4. Nat \subseteq T
  <2> HIDE DEF T
  <2> QED BY <1>2, <1>3, NatSetInduction
<1> QED BY <1>0, <1>4

-----------------------------------------------------------------------------
(* Directories that can be reached.                                        *)

\* The directories that those of ds have entries of.
Below(m, ds) == {e.start : e \in {x \in UNION {EntriesOf(m, d) : d \in ds} : x.kind = "dir"}}

LEMMA TypedIsLinked == ASSUME NEW m, VolumeTyped(m) PROVE Linked(m)
BY DEF VolumeTyped, Volume, Linked

\* The entries of a directory are those in use in its chain.
LEMMA EntriesAre ==
  ASSUME NEW m, VolumeTyped(m), NEW d
  PROVE  /\ \A c \in Chain(m, d), s \in Slots :
              Used(m.data[c].ents[s]) => m.data[c].ents[s] \in EntriesOf(m, d)
         /\ \A e \in EntriesOf(m, d) :
              /\ Used(e) /\ \E c \in Chain(m, d), s \in Slots : e = m.data[c].ents[s]
              /\ e.kind = "dir" => e.start \in Clusters
<1>1. Chain(m, d) \subseteq Clusters
  BY TypedIsLinked, ChainIs, ChainNone
<1> QED BY <1>1 DEF EntriesOf, VolumeTyped

LEMMA BelowIn ==
  ASSUME NEW m, VolumeTyped(m), NEW ds
  PROVE  Below(m, ds) \subseteq Clusters
<1> SUFFICES ASSUME NEW d \in ds, NEW e \in EntriesOf(m, d), e.kind = "dir"
             PROVE  e.start \in Clusters
  BY DEF Below
<1> QED BY EntriesAre

\* R is how Dirs comes to the directories.
LevelsOf(m, R) ==
  /\ R[0] = {Root} /\ \A i \in 1 .. LAST - Root : R[i] = R[i - 1] \cup Below(m, R[i - 1])
  /\ Dirs(m) = R[LAST - Root]

LEMMA DirLevels == ASSUME NEW m, VolumeTyped(m) PROVE \E R : LevelsOf(m, R)
<1> DEFINE n == LAST - Root
<1> DEFINE R[i \in 0 .. LAST - Root] ==
             IF i = 0 THEN {Root}
             ELSE LET ds == R[i - 1]
                  IN  ds \cup {e.start : e \in {x \in UNION {EntriesOf(m, d) : d \in ds} :
                                                x.kind = "dir"}}
<1> DEFINE D == SUBSET Clusters
<1> DEFINE G == [p \in D \X (1 .. n) |-> p[1] \cup Below(m, p[1])]
<1>n. n \in Nat
  BY ClustersCount
<1>1. Stays(G, n, D)
  <2>1. ASSUME NEW x \in D, NEW i \in 1 .. n PROVE G[<<x, i>>] \in D
    BY BelowIn
  <2> HIDE DEF G, D
  <2> QED BY <2>1 DEF Stays
<1>2. PICK g \in [0 .. n -> D] : g[0] = {Root} /\ Runs(g, n, G)
  <2>1. {Root} \in D
    BY ClustersCount
  <2> HIDE DEF G, D, n
  <2> QED BY <1>n, <1>1, <2>1, RecursionExists
<1>3. \A i \in 1 .. n : g[i] = g[i - 1] \cup Below(m, g[i - 1])
  <2> TAKE i \in 1 .. n
  <2> HIDE DEF n
  <2>1. i - 1 \in 0 .. n /\ g[i - 1] \in D
    BY <1>n
  <2>2. g[i] = G[<<g[i - 1], i>>]
    BY <1>2 DEF Runs
  <2> QED BY <2>1, <2>2
<1>4. g = [i \in 0 .. n |->
             IF i = 0 THEN {Root}
             ELSE LET ds == g[i - 1]
                  IN  ds \cup {e.start : e \in {x \in UNION {EntriesOf(m, d) : d \in ds} :
                                                x.kind = "dir"}}]
  <2> HIDE DEF n
  <2>1. \A i \in 0 .. n : i # 0 => i \in 1 .. n
    BY <1>n
  <2>2. \A i \in 0 .. n : g[i] = IF i = 0 THEN {Root} ELSE g[i - 1] \cup Below(m, g[i - 1])
    BY <1>2, <1>3, <2>1
  <2>3. g = [i \in 0 .. n |-> IF i = 0 THEN {Root} ELSE g[i - 1] \cup Below(m, g[i - 1])]
    <3> HIDE DEF D
    <3> QED BY <2>2
  <2> QED BY <2>3 DEF Below
<1>5. R = [i \in 0 .. n |->
             IF i = 0 THEN {Root}
             ELSE LET ds == R[i - 1]
                  IN  ds \cup {e.start : e \in {x \in UNION {EntriesOf(m, d) : d \in ds} :
                                                x.kind = "dir"}}]
  <2> HIDE DEF G, D
  <2> QED BY <1>4
<1>6. R[0] = {Root} /\ \A i \in 1 .. n : R[i] = R[i - 1] \cup Below(m, R[i - 1])
  <2> HIDE DEF R, n
  <2>1. R = [i \in 0 .. n |-> IF i = 0 THEN {Root} ELSE R[i - 1] \cup Below(m, R[i - 1])]
    BY <1>5 DEF Below
  <2>2. \A i \in 1 .. n : i \in 0 .. n /\ i # 0
    BY <1>n
  <2>3. 0 \in 0 .. n
    BY <1>n
  <2> QED BY <2>1, <2>2, <2>3
<1>7. Dirs(m) = R[LAST - Root]
  BY DEF Dirs
<1> HIDE DEF R
<1> QED BY <1>6, <1>7 DEF LevelsOf

LEMMA DirsWithin ==
  ASSUME NEW m, VolumeTyped(m), NEW S, Root \in S,
         \A d \in S : \A e \in EntriesOf(m, d) : e.kind = "dir" => e.start \in S
  PROVE  Dirs(m) \subseteq S
<1>1. PICK R : LevelsOf(m, R)
  BY DirLevels
<1> DEFINE n == LAST - Root
<1>2. n \in Nat /\ R[0] \subseteq S
  BY <1>1, ClustersCount DEF LevelsOf
<1>3. ASSUME NEW i \in 1 .. n, R[i - 1] \subseteq S PROVE R[i] \subseteq S
  <2>1. R[i] = R[i - 1] \cup Below(m, R[i - 1])
    BY <1>1 DEF LevelsOf
  <2>2. Below(m, R[i - 1]) \subseteq S
    BY <1>3 DEF Below
  <2> QED BY <1>3, <2>1, <2>2
<1>4. R[n] \subseteq S
  <2> HIDE DEF n
  <2> QED BY <1>2, <1>3, StagesWithin
<1> QED BY <1>1, <1>4 DEF LevelsOf

LEMMA DirsAre ==
  ASSUME NEW m, VolumeTyped(m)
  PROVE  /\ Dirs(m) \in SUBSET Clusters /\ Root \in Dirs(m)
         /\ \A d \in Dirs(m) : \A e \in EntriesOf(m, d) : e.kind = "dir" => e.start \in Dirs(m)
<1>1. PICK f : LevelsOf(m, f)
  BY DirLevels
<1> DEFINE n == LAST - Root
<1> DEFINE G == [S \in SUBSET Clusters |-> S \cup Below(m, S)]
<1>n. n \in Nat /\ Cardinality(Clusters) = n + 1 /\ IsFiniteSet(Clusters)
  BY ClustersCount
<1>2. G \in [SUBSET Clusters -> SUBSET Clusters] /\ \A S \in SUBSET Clusters : S \subseteq G[S]
  BY BelowIn
<1>3. f[0] = {Root} /\ f[0] \in SUBSET Clusters /\ f[0] # {}
  BY <1>1, ClustersCount DEF LevelsOf
<1>4. \A k \in Nat : k <= n => f[k] \in SUBSET Clusters /\ Root \in f[k]
  <2> DEFINE T == {k \in Nat : k <= n => f[k] \in SUBSET Clusters /\ Root \in f[k]}
  <2>1. 0 \in T
    BY <1>3
  <2>2. ASSUME NEW k \in Nat, k \in T PROVE k + 1 \in T
    <3> SUFFICES ASSUME k + 1 <= n PROVE f[k + 1] \in SUBSET Clusters /\ Root \in f[k + 1]
      OBVIOUS
    <3>1. k + 1 \in 1 .. n /\ (k + 1) - 1 = k /\ k <= n
      BY <1>n
    <3>2. f[k + 1] = f[k] \cup Below(m, f[k])
      BY <1>1, <3>1 DEF LevelsOf
    <3>3. Below(m, f[k]) \subseteq Clusters
      BY BelowIn
    <3> QED BY <2>2, <3>1, <3>2, <3>3
  <2>3. Nat \subseteq T
    <3> HIDE DEF T
    <3> QED BY <2>1, <2>2, NatSetInduction
  <2> QED BY <2>3
<1>5. \A i \in 1 .. n : f[i] = G[f[i - 1]]
  <2> TAKE i \in 1 .. n
  <2>1. f[i - 1] \in SUBSET Clusters
    <3>1. i - 1 \in Nat /\ i - 1 <= n
      BY <1>n
    <3> QED BY <1>4, <3>1
  <2> QED BY <1>1, <2>1 DEF LevelsOf
<1>6. f[n] \in SUBSET Clusters /\ G[f[n]] = f[n]
  <2> HIDE DEF G, n
  <2>1. Growing(G, Clusters) /\ Staged(f, n, G)
    BY <1>2, <1>5 DEF Growing, Staged
  <2>2. f[0] \in SUBSET Clusters /\ f[0] # {}
    BY <1>3
  <2> QED BY <2>1, <2>2, <1>n, StagesEnd
<1>7. Below(m, f[n]) \subseteq f[n]
  <2>1. f[n] \cup Below(m, f[n]) = f[n]
    BY <1>6
  <2> HIDE DEF n
  <2> QED BY <2>1
<1>8. Dirs(m) = f[n] /\ Root \in f[n]
  BY <1>1, <1>4, <1>n DEF LevelsOf
<1>9. ASSUME NEW d \in f[n], NEW e \in EntriesOf(m, d), e.kind = "dir" PROVE e.start \in f[n]
  BY <1>7, <1>9 DEF Below
<1> QED BY <1>6, <1>8, <1>9

\* What the one volume has reached the other has, if it has the directories' entries.
LEMMA DirsGrow ==
  ASSUME NEW m, VolumeTyped(m), NEW n, VolumeTyped(n),
         \A d \in Dirs(m) : \A e \in EntriesOf(m, d) : e.kind = "dir" =>
           \E x \in EntriesOf(n, d) : x.kind = "dir" /\ x.start = e.start
  PROVE  Dirs(m) \subseteq Dirs(n)
<1> DEFINE S == Dirs(m) \cap Dirs(n)
<1>1. Root \in S
  BY DirsAre
<1>2. ASSUME NEW d \in S, NEW e \in EntriesOf(m, d), e.kind = "dir" PROVE e.start \in S
  <2>1. PICK x \in EntriesOf(n, d) : x.kind = "dir" /\ x.start = e.start
    BY <1>2
  <2>2. e.start \in Dirs(m)
    BY <1>2, DirsAre
  <2>3. x.start \in Dirs(n)
    BY <2>1, DirsAre
  <2> QED BY <2>1, <2>2, <2>3
<1>3. Dirs(m) \subseteq S
  <2> HIDE DEF S
  <2> QED BY <1>1, <1>2, DirsWithin
<1> QED BY <1>3

-----------------------------------------------------------------------------
(* What a volume must be like, for chains and tables to be sound.          *)

EntryIn(m, c, s) == m.data[c].ents[s]
UsedIn(m, c, s)  == Used(EntryIn(m, c, s))
Bare(m, c)       == \A s \in Slots : ~UsedIn(m, c, s)

\* Something leads to the chain of h: the root, or an entry.
Lead(m, h) ==
  h = Root \/ \E c \in Clusters, s \in Slots : UsedIn(m, c, s) /\ EntryIn(m, c, s).start = h
DirHead(m, d) ==
  \/ d = Root
  \/ \E c \in Clusters, s \in Slots :
       UsedIn(m, c, s) /\ EntryIn(m, c, s).kind = "dir" /\ EntryIn(m, c, s).start = d
Outside(m, c) == Bare(m, c) /\ \A h \in Clusters : Lead(m, h) => c \notin Chain(m, h)

\* Of an entry in use: its chain has no other head, is long enough, and if it
\* is a file's has no entries.
EntryHolds(m, e) ==
  /\ e.start # 0 => Head(m, e.start) /\ e.start # Root
  /\ e.size <= Cardinality(Chain(m, e.start))
  /\ e.kind = "file" => \A b \in Chain(m, e.start) : Bare(m, b)
EntriesHold(m) ==
  \A c \in Clusters, s \in Slots :
    UsedIn(m, c, s) => m.fat[c] # 0 /\ EntryHolds(m, EntryIn(m, c, s))

\* A table goes on after a sector that has no free entry, and so no end mark.
EndMarksHold(m) ==
  \A c \in Clusters, s \in Slots :
    m.data[c].text = Tab /\ EntryIn(m, c, s).name = "end" => m.fat[c] \notin Clusters

\* A directory has a name once.
NamesHold(m) ==
  \A d \in Clusters : DirHead(m, d) =>
    \A b, c \in Chain(m, d), r, s \in Slots :
      UsedIn(m, b, r) /\ EntryIn(m, c, s).name = EntryIn(m, b, r).name => b = c /\ r = s

\* Two entries in use lead to one chain only if it is one of X.
StartsHold(m, X) ==
  \A b, c \in Clusters, r, s \in Slots :
    /\ UsedIn(m, b, r) /\ UsedIn(m, c, s)
    /\ EntryIn(m, b, r).start # 0 /\ EntryIn(m, c, s).start = EntryIn(m, b, r).start
    => \/ b = c /\ r = s
       \/ EntryIn(m, b, r).start \in X /\ EntryIn(m, c, s).kind = EntryIn(m, b, r).kind

\* The .. of a directory leads to the one its entry is in, but for those of X.
UpsHold(m, X) ==
  \A d \in Clusters : DirHead(m, d) =>
    \A c \in Chain(m, d), s \in Slots :
      UsedIn(m, c, s) /\ EntryIn(m, c, s).kind = "dir" =>
        m.data[EntryIn(m, c, s).start].up = d \/ EntryIn(m, c, s).start \in X

\* The clusters of a directory hold tables, but for those of r.
TablesHold(m, r) ==
  \A d \in Clusters : DirHead(m, d) =>
    \A c \in Chain(m, d) : m.data[c].text = Tab \/ (c \in r /\ c # d)

\* What X and r leave out is a rename at work and a new sector of a table.
Whole(m, X, r) ==
  /\ VolumeTyped(m) /\ LinksHold(m) /\ EntriesHold(m) /\ EndMarksHold(m) /\ NamesHold(m)
  /\ StartsHold(m, X) /\ UpsHold(m, X) /\ TablesHold(m, r)

\* e is the entry of a file that holds what was promised.
FileIs(m, e, p) ==
  /\ e.kind = "file" /\ e.size = p.size
  /\ \A i \in 0 .. p.size - 1 :
       BlockAt(m, e.start, i) \in Clusters /\ m.data[BlockAt(m, e.start, i)].text = p.text

\* Every file that k keeps is there.
FilesHold(m, k) ==
  \A d \in Clusters, n \in Names :
    k[d][n] # NoPromise => DirHead(m, d) /\ Intact(m, d, n, k[d][n])

-----------------------------------------------------------------------------
(* What follows for one volume.                                            *)

\* An entry has its type.
LEMMA UsedIsTyped ==
  ASSUME NEW m, VolumeTyped(m), NEW c \in Clusters, NEW s \in Slots
  PROVE  /\ EntryIn(m, c, s) \in Entry /\ EntryIn(m, c, s).start \in Starts
         /\ EntryIn(m, c, s).size \in Blocks
         /\ EntryIn(m, c, s).kind \in {"file", "dir"}
         /\ EntryIn(m, c, s).kind = "dir" => EntryIn(m, c, s).start \in Clusters
         /\ UsedIn(m, c, s) <=> EntryIn(m, c, s).name \in Names
<1>1. m.data[c].ents[s] \in Entry
  BY DEF VolumeTyped, Volume, Content
<1> QED BY <1>1 DEF VolumeTyped, EntryIn, UsedIn, Used, Entry

\* Whatever something leads to is the head of a chain.
LEMMA LeadIsHead ==
  ASSUME NEW m, NEW X, NEW r, Whole(m, X, r)
  PROVE  /\ \A h \in Clusters : Lead(m, h) => Head(m, h)
         /\ \A d : DirHead(m, d) => d \in Clusters /\ Lead(m, d) /\ Head(m, d)
         /\ Linked(m)
<1>1. ASSUME NEW h \in Clusters, Lead(m, h) PROVE Head(m, h)
  BY <1>1, Zeros DEF Whole, LinksHold, EntriesHold, EntryHolds, Lead
<1>2. ASSUME NEW d, DirHead(m, d) PROVE d \in Clusters /\ Lead(m, d)
  <2>1. CASE d = Root
    BY <2>1, ClustersCount DEF Lead
  <2>2. CASE d # Root
    <3>1. PICK c \in Clusters, s \in Slots :
            UsedIn(m, c, s) /\ EntryIn(m, c, s).kind = "dir" /\ EntryIn(m, c, s).start = d
      BY <1>2, <2>2 DEF DirHead
    <3> QED BY <3>1, UsedIsTyped DEF Lead, Whole
  <2> QED BY <2>1, <2>2
<1>3. Linked(m)
  BY TypedIsLinked DEF Whole
<1> QED BY <1>1, <1>2, <1>3

\* A cluster is in one live chain only.
LEMMA LeadsApart ==
  ASSUME NEW m, NEW X, NEW r, Whole(m, X, r), NEW g, NEW h, Head(m, g), Head(m, h),
         NEW c \in Chain(m, g), c \in Chain(m, h)
  PROVE  g = h
BY LeadIsHead, ChainsApart DEF Whole, LinksHold

\* What nothing leads to is in no use.
LEMMA LooseIsOutside ==
  ASSUME NEW m, NEW X, NEW r, Whole(m, X, r), NEW h, Head(m, h), ~Lead(m, h),
         \A c \in Chain(m, h) : Bare(m, c)
  PROVE  \A c \in Chain(m, h) : Outside(m, c)
<1>1. ASSUME NEW c \in Chain(m, h), NEW g \in Clusters, Lead(m, g), c \in Chain(m, g) PROVE FALSE
  BY <1>1, LeadIsHead, LeadsApart
<1> QED BY <1>1 DEF Outside

\* A free cluster is in no use.
LEMMA FreeIsOutside ==
  ASSUME NEW m, NEW X, NEW r, Whole(m, X, r), NEW c \in Clusters, m.fat[c] = 0
  PROVE  Outside(m, c) /\ ~Lead(m, c)
<1>1. ASSUME NEW g \in Clusters, Lead(m, g), c \in Chain(m, g) PROVE FALSE
  BY <1>1, LeadIsHead, ChainTaken DEF Whole
<1>2. Bare(m, c)
  BY DEF Whole, EntriesHold, Bare
<1>3. c \in Chain(m, c)
  BY LeadIsHead, ChainIs
<1> QED BY <1>1, <1>2, <1>3 DEF Outside

\* A directory's chain is no file's.
LEMMA FileIsNoDir ==
  ASSUME NEW m, NEW X, NEW r, Whole(m, X, r), NEW d, DirHead(m, d),
         NEW c \in Clusters, NEW s \in Slots, UsedIn(m, c, s), EntryIn(m, c, s).kind = "file"
  PROVE  /\ EntryIn(m, c, s).start # d
         /\ Chain(m, EntryIn(m, c, s).start) \cap Chain(m, d) = {}
<1>1. EntryIn(m, c, s).start # d
  <2> SUFFICES ASSUME EntryIn(m, c, s).start = d PROVE FALSE
    OBVIOUS
  <2>1. d # 0 /\ d # Root
    BY LeadIsHead, Zeros DEF Whole, EntriesHold, EntryHolds
  <2>2. PICK b \in Clusters, t \in Slots :
          UsedIn(m, b, t) /\ EntryIn(m, b, t).kind = "dir" /\ EntryIn(m, b, t).start = d
    BY <2>1 DEF DirHead
  <2> QED BY <2>1, <2>2 DEF Whole, StartsHold
<1>2. CASE EntryIn(m, c, s).start = 0
  BY <1>2, <1>1, ChainNone, LeadIsHead, Zeros
<1>3. CASE EntryIn(m, c, s).start # 0
  <2>1. Head(m, EntryIn(m, c, s).start)
    BY <1>3 DEF Whole, EntriesHold, EntryHolds
  <2> QED BY <1>1, <2>1, LeadIsHead, ChainsApart DEF Whole, LinksHold
<1> QED BY <1>1, <1>2, <1>3

LEMMA IntactIs ==
  ASSUME NEW m, NEW X, NEW r, Whole(m, X, r), NEW d \in Clusters, NEW n \in Names, NEW p
  PROVE  Intact(m, d, n, p) <=>
           \E c \in Chain(m, d), s \in Slots :
             EntryIn(m, c, s).name = n /\ FileIs(m, EntryIn(m, c, s), p)
<1>1. ASSUME NEW c \in Chain(m, d), NEW s \in Slots, EntryIn(m, c, s).name = n
      PROVE  EntryIn(m, c, s) \in EntriesOf(m, d)
  BY <1>1, EntriesAre DEF Whole, EntryIn, Used
<1>2. ASSUME NEW e \in EntriesOf(m, d)
      PROVE  \E c \in Chain(m, d), s \in Slots : e = EntryIn(m, c, s)
  BY EntriesAre DEF Whole, EntryIn
<1> QED BY <1>1, <1>2 DEF Intact, FileIs

-----------------------------------------------------------------------------
(* Steps that leave the entries in use alone.                              *)

SameEntries(m, n) ==
  \A c \in Clusters, s \in Slots : UsedIn(m, c, s) \/ UsedIn(n, c, s) =>
    EntryIn(n, c, s) = EntryIn(m, c, s) /\ n.fat[c] # 0

\* Of each chain that something leads to: its links stay, it grows by what is
\* in q, and its sectors stay or become tables of a directory.
ChainGrows(m, n, q, h) ==
  /\ Head(n, h)
  /\ \A b \in Chain(m, h) : m.fat[b] \in Clusters => n.fat[b] = m.fat[b]
  /\ \A b \in Chain(n, h) \ Chain(m, h) : Bare(n, b) /\ b \in q
  /\ \A b \in Chain(m, h) :
       n.data[b].text = m.data[b].text \/ (n.data[b].text = Tab /\ DirHead(m, h))
Grows(m, n, q, X) ==
  /\ VolumeTyped(n) /\ LinksHold(n) /\ EndMarksHold(n) /\ SameEntries(m, n)
  /\ \A h \in Clusters : Lead(m, h) => ChainGrows(m, n, q, h)
  /\ \A d \in Clusters : DirHead(m, d) => n.data[d].up = m.data[d].up \/ d \in X

LEMMA SameLeads ==
  ASSUME NEW m, NEW n, SameEntries(m, n)
  PROVE  /\ \A c \in Clusters, s \in Slots : UsedIn(n, c, s) <=> UsedIn(m, c, s)
         /\ \A c \in Clusters : Bare(n, c) <=> Bare(m, c)
         /\ \A h : (Lead(n, h) <=> Lead(m, h)) /\ (DirHead(n, h) <=> DirHead(m, h))
<1>1. \A c \in Clusters, s \in Slots : UsedIn(n, c, s) <=> UsedIn(m, c, s)
  BY DEF SameEntries, UsedIn
<1>2. \A c \in Clusters, s \in Slots : UsedIn(m, c, s) => EntryIn(n, c, s) = EntryIn(m, c, s)
  BY DEF SameEntries
<1>3. \A c \in Clusters : Bare(n, c) <=> Bare(m, c)
  BY <1>1 DEF Bare
<1>4. \A h : (Lead(n, h) <=> Lead(m, h)) /\ (DirHead(n, h) <=> DirHead(m, h))
  BY <1>1, <1>2 DEF Lead, DirHead
<1> QED BY <1>1, <1>3, <1>4

LEMMA ChainWithin ==
  ASSUME NEW m, Linked(m), NEW n, Linked(n), NEW c \in Clusters,
         \A b \in Chain(m, c) : m.fat[b] \in Clusters => n.fat[b] = m.fat[b]
  PROVE  Chain(m, c) \subseteq Chain(n, c)
<1> DEFINE S == Chain(m, c) \cap Chain(n, c)
<1>1. c \in S
  BY ChainIs
<1>2. \A b \in S \cap Clusters : m.fat[b] \in Clusters => m.fat[b] \in S
  BY ChainIs
<1>3. Chain(m, c) \subseteq S
  <2> HIDE DEF S
  <2> QED BY <1>1, <1>2, ChainLeast
<1> QED BY <1>3

LEMMA GrownChain ==
  ASSUME NEW m, NEW n, NEW q, NEW X, NEW r, Whole(m, X, r), Grows(m, n, q, X),
         NEW h \in Clusters, Lead(m, h)
  PROVE  /\ Chain(m, h) \subseteq Chain(n, h) /\ Chain(n, h) \subseteq Clusters
         /\ Chain(m, h) \subseteq Clusters /\ h \in Chain(m, h)
         /\ IsFiniteSet(Chain(n, h))
         /\ Cardinality(Chain(m, h)) <= Cardinality(Chain(n, h))
<1>1. Linked(m) /\ Linked(n)
  BY TypedIsLinked DEF Whole, Grows
<1>2. Chain(m, h) \subseteq Chain(n, h)
  BY <1>1, ChainWithin DEF Grows, ChainGrows
<1>3. Chain(n, h) \subseteq Clusters /\ Chain(m, h) \subseteq Clusters /\ h \in Chain(m, h)
  BY <1>1, ChainIs
<1>4. IsFiniteSet(Chain(n, h))
  BY <1>3, ClustersCount, FS_Subset
<1> QED BY <1>2, <1>3, <1>4, FS_Subset

LEMMA GrowsWhole ==
  ASSUME NEW m, NEW n, NEW q, NEW X, NEW r, Whole(m, X, r), Grows(m, n, q, X), r \subseteq q
  PROVE  Whole(n, X, q)
<1>1. /\ \A c \in Clusters, s \in Slots : UsedIn(n, c, s) <=> UsedIn(m, c, s)
      /\ \A c \in Clusters : Bare(n, c) <=> Bare(m, c)
      /\ \A h : (Lead(n, h) <=> Lead(m, h)) /\ (DirHead(n, h) <=> DirHead(m, h))
  BY SameLeads DEF Grows
<1>2. \A c \in Clusters, s \in Slots : UsedIn(n, c, s) =>
        EntryIn(n, c, s) = EntryIn(m, c, s) /\ n.fat[c] # 0
  BY DEF Grows, SameEntries
<1>3. \A d : DirHead(m, d) => d \in Clusters /\ Lead(m, d)
  BY LeadIsHead
<1>n. Linked(n)
  BY TypedIsLinked DEF Grows
<1>4. EntriesHold(n)
  <2> SUFFICES ASSUME NEW c \in Clusters, NEW s \in Slots, UsedIn(n, c, s)
               PROVE  EntryHolds(n, EntryIn(m, c, s))
    BY <1>2 DEF EntriesHold
  <2> DEFINE e == EntryIn(m, c, s)
  <2>1. EntryHolds(m, e)
    BY <1>1 DEF Whole, EntriesHold
  <2>2. e.start \in Starts /\ e.size \in Blocks
    BY UsedIsTyped DEF Whole
  <2>3. CASE e.start = 0
    <3>1. Chain(n, e.start) = {} /\ Chain(m, e.start) = {}
      BY <2>3, <1>n, ChainNone, LeadIsHead, Zeros
    <3> QED BY <2>1, <2>3, <3>1 DEF EntryHolds
  <2>4. CASE e.start # 0
    <3>1. e.start \in Clusters /\ Lead(m, e.start)
      BY <1>1, <2>2, <2>4, Zeros DEF Lead
    <3>2. ChainGrows(m, n, q, e.start)
      BY <3>1 DEF Grows
    <3>3. /\ Cardinality(Chain(m, e.start)) <= Cardinality(Chain(n, e.start))
          /\ Cardinality(Chain(n, e.start)) \in Nat /\ Cardinality(Chain(m, e.start)) \in Nat
          /\ Chain(n, e.start) \subseteq Clusters
      <4>1. IsFiniteSet(Chain(n, e.start)) /\ Chain(m, e.start) \subseteq Chain(n, e.start)
        BY <3>1, GrownChain
      <4>2. IsFiniteSet(Chain(m, e.start))
        BY <4>1, FS_Subset
      <4> QED BY <3>1, <4>1, <4>2, GrownChain, FS_CardinalityType
    <3>4. e.size <= Cardinality(Chain(n, e.start))
      <4>1. e.size \in Int
        BY <2>2, FatAssumption DEF Blocks
      <4> QED BY <2>1, <3>3, <4>1 DEF EntryHolds
    <3>5. e.kind = "file" => \A b \in Chain(n, e.start) : Bare(n, b)
      BY <1>1, <2>1, <3>2, <3>3 DEF EntryHolds, ChainGrows
    <3>6. Head(n, e.start) /\ e.start # Root
      BY <2>1, <2>4, <3>2 DEF EntryHolds, ChainGrows
    <3> QED BY <3>4, <3>5, <3>6 DEF EntryHolds
  <2> QED BY <2>3, <2>4
\* The entries of a directory are those in its old chain.
<1>5. ASSUME NEW d \in Clusters, DirHead(n, d), NEW b \in Chain(n, d), NEW s \in Slots,
             UsedIn(n, b, s)
      PROVE  b \in Chain(m, d) /\ DirHead(m, d)
  <2>1. DirHead(m, d) /\ Lead(m, d)
    BY <1>1, <1>3, <1>5
  <2> QED BY <1>5, <2>1 DEF Grows, ChainGrows, Bare
<1>6. NamesHold(n)
  <2> SUFFICES ASSUME NEW d \in Clusters, DirHead(n, d), NEW b \in Chain(n, d),
                      NEW c \in Chain(n, d), NEW s \in Slots, NEW t \in Slots, UsedIn(n, b, s),
                      EntryIn(n, c, t).name = EntryIn(n, b, s).name
               PROVE  b = c /\ s = t
    BY DEF NamesHold
  <2>1. UsedIn(n, c, t)
    BY DEF UsedIn, Used
  <2>2. DirHead(m, d) /\ b \in Chain(m, d) /\ c \in Chain(m, d)
    BY <1>5, <2>1
  <2>3. b \in Clusters /\ c \in Clusters
    BY <1>n, ChainIs
  <2>4. /\ UsedIn(m, b, s)
        /\ EntryIn(n, c, t) = EntryIn(m, c, t) /\ EntryIn(n, b, s) = EntryIn(m, b, s)
    BY <1>1, <1>2, <2>1, <2>3
  <2> QED BY <2>2, <2>4 DEF Whole, NamesHold
<1>7. StartsHold(n, X)
  BY <1>1, <1>2 DEF Whole, StartsHold
<1>8. UpsHold(n, X)
  <2> SUFFICES ASSUME NEW d \in Clusters, DirHead(n, d), NEW c \in Chain(n, d), NEW s \in Slots,
                      UsedIn(n, c, s), EntryIn(n, c, s).kind = "dir"
               PROVE  n.data[EntryIn(n, c, s).start].up = d \/ EntryIn(n, c, s).start \in X
    BY DEF UpsHold
  <2>1. DirHead(m, d) /\ c \in Chain(m, d)
    BY <1>5
  <2>2. c \in Clusters
    BY <1>n, ChainIs
  <2>3. UsedIn(m, c, s) /\ EntryIn(n, c, s) = EntryIn(m, c, s)
    BY <1>1, <1>2, <2>2
  <2>4. m.data[EntryIn(m, c, s).start].up = d \/ EntryIn(m, c, s).start \in X
    BY <2>1, <2>3 DEF Whole, UpsHold
  <2>5. DirHead(m, EntryIn(m, c, s).start) /\ EntryIn(m, c, s).start \in Clusters
    <3>1. DirHead(m, EntryIn(m, c, s).start)
      BY <2>2, <2>3 DEF DirHead
    <3> QED BY <1>3, <3>1
  <2> QED BY <2>3, <2>4, <2>5 DEF Grows
<1>9. TablesHold(n, q)
  <2> SUFFICES ASSUME NEW d \in Clusters, DirHead(n, d), NEW c \in Chain(n, d)
               PROVE  n.data[c].text = Tab \/ (c \in q /\ c # d)
    BY DEF TablesHold
  <2>1. DirHead(m, d) /\ Lead(m, d)
    BY <1>1, <1>3
  <2>2. ChainGrows(m, n, q, d) /\ d \in Chain(m, d)
    BY <2>1, GrownChain DEF Grows
  <2>3. CASE c \in Chain(m, d)
    <3>1. m.data[c].text = Tab \/ (c \in r /\ c # d)
      BY <2>1, <2>3 DEF Whole, TablesHold
    <3> QED BY <2>2, <2>3, <3>1 DEF ChainGrows
  <2>4. CASE c \notin Chain(m, d)
    BY <2>2, <2>4 DEF ChainGrows
  <2> QED BY <2>3, <2>4
<1> QED BY <1>4, <1>6, <1>7, <1>8, <1>9 DEF Whole, Grows

\* Files keep what they hold.
LEMMA GrowsFile ==
  ASSUME NEW m, NEW n, NEW q, NEW X, NEW r, Whole(m, X, r), Grows(m, n, q, X),
         NEW c \in Clusters, NEW s \in Slots, UsedIn(m, c, s), NEW p,
         FileIs(m, EntryIn(m, c, s), p)
  PROVE  FileIs(n, EntryIn(m, c, s), p)
<1> DEFINE e == EntryIn(m, c, s)
<1>1. e.kind = "file" /\ e.size = p.size /\ e.size \in Blocks /\ e.start \in Starts
  BY UsedIsTyped DEF FileIs, Whole
<1>2. Linked(m) /\ Linked(n)
  BY TypedIsLinked DEF Whole, Grows
<1> SUFFICES ASSUME NEW i \in 0 .. p.size - 1
             PROVE  /\ BlockAt(n, e.start, i) \in Clusters
                    /\ n.data[BlockAt(n, e.start, i)].text = p.text
  BY <1>1 DEF FileIs
<1>3. BlockAt(m, e.start, i) \in Clusters /\ m.data[BlockAt(m, e.start, i)].text = p.text
  BY DEF FileIs
<1>4. i \in 0 .. MAX_BLOCKS
  BY <1>1, FatAssumption DEF Blocks
<1>5. e.start # 0
  <2> SUFFICES ASSUME e.start = 0 PROVE FALSE
    OBVIOUS
  <2>1. m.data = m.data /\ e.size <= Cardinality(Chain(m, 0))
    BY DEF Whole, EntriesHold, EntryHolds
  <2>2. Chain(m, 0) = {}
    BY <1>2, ChainNone, Zeros
  <2>3. e.size <= 0
    BY <2>1, <2>2, FS_EmptySet
  <2> QED BY <1>1, <2>3, FatAssumption DEF Blocks
<1>6. e.start \in Clusters /\ Lead(m, e.start)
  BY <1>1, <1>5, Zeros DEF Lead
<1>7. ChainGrows(m, n, q, e.start)
  BY <1>6 DEF Grows
<1>8. BlockAt(m, e.start, i) \in Chain(m, e.start) /\ BlockAt(n, e.start, i) = BlockAt(m, e.start, i)
  BY <1>2, <1>3, <1>4, <1>6, <1>7, BlockInChain DEF ChainGrows
<1>9. ~DirHead(m, e.start)
  BY <1>1, FileIsNoDir
<1> QED BY <1>3, <1>7, <1>8, <1>9 DEF ChainGrows

LEMMA GrowsIntact ==
  ASSUME NEW m, NEW n, NEW q, NEW X, NEW r, Whole(m, X, r), Grows(m, n, q, X), r \subseteq q,
         NEW d \in Clusters, DirHead(m, d), NEW name \in Names, NEW p, Intact(m, d, name, p)
  PROVE  Intact(n, d, name, p)
<1>1. PICK c \in Chain(m, d), s \in Slots :
        EntryIn(m, c, s).name = name /\ FileIs(m, EntryIn(m, c, s), p)
  BY IntactIs
<1>2. UsedIn(m, c, s)
  BY <1>1 DEF UsedIn, Used
<1>3. Lead(m, d)
  BY LeadIsHead
<1>4. c \in Chain(n, d) /\ c \in Clusters
  BY <1>3, GrownChain
<1>5. FileIs(n, EntryIn(m, c, s), p) /\ EntryIn(n, c, s) = EntryIn(m, c, s)
  BY <1>1, <1>2, <1>4, GrowsFile DEF Grows, SameEntries
<1>6. Whole(n, X, q)
  BY GrowsWhole
<1> QED BY <1>1, <1>4, <1>5, <1>6, IntactIs

LEMMA GrowsFiles ==
  ASSUME NEW m, NEW n, NEW q, NEW X, NEW r, Whole(m, X, r), Grows(m, n, q, X), r \subseteq q,
         NEW k, FilesHold(m, k)
  PROVE  FilesHold(n, k)
BY GrowsIntact, SameLeads DEF FilesHold, Grows

LEMMA DirsAreHeads ==
  ASSUME NEW m, VolumeTyped(m)
  PROVE  \A d \in Dirs(m) : DirHead(m, d)
<1> DEFINE S == {d \in Clusters : DirHead(m, d)}
<1>1. Root \in S
  BY ClustersCount DEF DirHead
<1>2. ASSUME NEW d \in S, NEW e \in EntriesOf(m, d), e.kind = "dir" PROVE e.start \in S
  <2>1. PICK c \in Chain(m, d), s \in Slots : e = m.data[c].ents[s]
    BY EntriesAre
  <2>2. c \in Clusters /\ Used(e) /\ e.start \in Clusters
    BY <1>2, EntriesAre, TypedIsLinked, ChainIs
  <2> QED BY <1>2, <2>1, <2>2 DEF DirHead, UsedIn, EntryIn
<1>3. Dirs(m) \subseteq S
  <2> HIDE DEF S
  <2> QED BY <1>1, <1>2, DirsWithin
<1> QED BY <1>3

LEMMA GrowsDirs ==
  ASSUME NEW m, NEW n, NEW q, NEW X, NEW r, Whole(m, X, r), Grows(m, n, q, X)
  PROVE  Dirs(m) \subseteq Dirs(n)
<1>1. ASSUME NEW d \in Dirs(m), NEW e \in EntriesOf(m, d)
      PROVE  e \in EntriesOf(n, d)
  <2>1. DirHead(m, d) /\ d \in Clusters /\ Lead(m, d)
    BY DirsAreHeads, LeadIsHead DEF Whole
  <2>2. PICK c \in Chain(m, d), s \in Slots : e = EntryIn(m, c, s)
    BY EntriesAre DEF Whole, EntryIn
  <2>3. UsedIn(m, c, s)
    BY <2>2, EntriesAre DEF Whole, UsedIn
  <2>4. c \in Chain(n, d) /\ c \in Clusters
    BY <2>1, GrownChain
  <2>5. EntryIn(n, c, s) = e /\ UsedIn(n, c, s)
    BY <2>2, <2>3, <2>4 DEF Grows, SameEntries, UsedIn
  <2> QED BY <2>4, <2>5, EntriesAre DEF Grows, UsedIn, EntryIn
<1> QED BY <1>1, DirsGrow DEF Whole, Grows

-----------------------------------------------------------------------------
(* Steps that set a link: a cluster is taken, linked or freed.             *)

LinkIs(m, n, c, v) == n = [m EXCEPT !.fat[c] = v]

\* A step of the FAT: entries and sectors are what they were.
OnlyLink(m, n, c, v) ==
  /\ VolumeTyped(n) /\ Linked(m) /\ Linked(n) /\ n.fat = [m.fat EXCEPT ![c] = v]
  /\ n.fat[c] = v /\ \A b \in Clusters : b # c => n.fat[b] = m.fat[b]
  /\ n.data = m.data
  /\ \A b, s : EntryIn(n, b, s) = EntryIn(m, b, s) /\ (UsedIn(n, b, s) <=> UsedIn(m, b, s))
  /\ \A b : Bare(n, b) <=> Bare(m, b)
  /\ \A h : (Lead(n, h) <=> Lead(m, h)) /\ (DirHead(n, h) <=> DirHead(m, h))
LEMMA LinkSetIs ==
  ASSUME NEW m, VolumeTyped(m), NEW c \in Clusters, NEW v \in Links,
         NEW n, LinkIs(m, n, c, v)
  PROVE  OnlyLink(m, n, c, v)
<1>1. VolumeTyped(n) /\ n.data = m.data
  BY LinkSetTyped DEF LinkIs
<1>2. n.fat = [m.fat EXCEPT ![c] = v] /\ Linked(m) /\ Linked(n)
  BY <1>1, TypedIsLinked DEF VolumeTyped, Volume, LinkIs
<1>3. \A b, s : EntryIn(n, b, s) = EntryIn(m, b, s) /\ (UsedIn(n, b, s) <=> UsedIn(m, b, s))
  BY <1>1 DEF EntryIn, UsedIn
<1>4. \A b : Bare(n, b) <=> Bare(m, b)
  BY <1>3 DEF Bare
<1>5. \A h : (Lead(n, h) <=> Lead(m, h)) /\ (DirHead(n, h) <=> DirHead(m, h))
  BY <1>3 DEF Lead, DirHead
<1>6. n.fat[c] = v /\ \A b \in Clusters : b # c => n.fat[b] = m.fat[b]
  BY <1>2 DEF Linked
<1> QED BY <1>1, <1>2, <1>3, <1>4, <1>5, <1>6 DEF OnlyLink

LEMMA LinkValues == 0 \in Links /\ EOC \in Links /\ Clusters \subseteq Links
                    /\ 0 \notin Clusters /\ EOC \notin Clusters /\ EOC # 0
BY FatAssumption, ClustersCount, Zeros DEF Links, EOC

\* create_chain() marks a free cluster as the end of a chain.
LEMMA TakeGrows ==
  ASSUME NEW m, NEW X, NEW r, Whole(m, X, r), NEW c \in Clusters, m.fat[c] = 0,
         NEW n, LinkIs(m, n, c, EOC)
  PROVE  /\ \A q : Grows(m, n, q, X)
         /\ Head(n, c) /\ ~Lead(n, c) /\ Bare(n, c) /\ Chain(n, c) = {c}
         /\ \A h : Head(m, h) => Head(n, h) /\ Chain(n, h) = Chain(m, h)
                                 /\ \A b \in Chain(m, h) : b # c /\ n.fat[b] = m.fat[b]
<1>1. /\ VolumeTyped(n) /\ Linked(m) /\ Linked(n)
      /\ n.fat[c] = EOC /\ \A b \in Clusters : b # c => n.fat[b] = m.fat[b]
      /\ n.data = m.data
      /\ \A b, s : EntryIn(n, b, s) = EntryIn(m, b, s) /\ (UsedIn(n, b, s) <=> UsedIn(m, b, s))
      /\ \A b : Bare(n, b) <=> Bare(m, b)
      /\ \A h : (Lead(n, h) <=> Lead(m, h)) /\ (DirHead(n, h) <=> DirHead(m, h))
  <2>1. VolumeTyped(m) /\ EOC \in Links
    BY LinkValues DEF Whole
  <2>2. OnlyLink(m, n, c, EOC)
    BY <2>1, LinkSetIs
  <2> QED BY <2>2 DEF OnlyLink
<1>2. Outside(m, c) /\ ~Lead(m, c)
  BY FreeIsOutside
<1>3. \A b \in Clusters : m.fat[b] # c
  BY DEF Whole, LinksHold
<1>4. LinksHold(n)
  <2>1. Single(n)
    BY <1>1, LinkValues DEF Whole, LinksHold, Single
  <2>2. \A b \in Clusters : n.fat[b] \in Clusters => n.fat[n.fat[b]] # 0
    BY <1>1, LinkValues DEF Whole, LinksHold
  <2>3. Head(n, Root)
    BY <1>1, LinkValues DEF Whole, LinksHold, Head
  <2> QED BY <2>1, <2>2, <2>3 DEF LinksHold
<1>5. ASSUME NEW h, Head(m, h)
      PROVE  /\ Head(n, h) /\ Chain(n, h) = Chain(m, h)
             /\ \A b \in Chain(m, h) : b # c /\ n.fat[b] = m.fat[b]
  <2>1. \A b \in Chain(m, h) : b # c /\ b \in Clusters
    BY <1>5, <1>1, ChainTaken, ChainIs DEF Whole, Head
  <2>2. Chain(n, h) = Chain(m, h)
    BY <1>1, <2>1, ChainSame
  <2>3. Head(n, h)
    BY <1>1, <1>5, LinkValues DEF Head
  <2> QED BY <1>1, <2>1, <2>2, <2>3
<1>6. EndMarksHold(n)
  BY <1>1, LinkValues DEF Whole, EndMarksHold
<1>7. SameEntries(m, n)
  BY <1>1, LinkValues DEF Whole, EntriesHold, SameEntries
<1>8. ASSUME NEW h \in Clusters, Lead(m, h), NEW q PROVE ChainGrows(m, n, q, h)
  BY <1>1, <1>5, <1>8, LeadIsHead DEF ChainGrows
<1>9. \A q : Grows(m, n, q, X)
  BY <1>1, <1>4, <1>6, <1>7, <1>8 DEF Grows
<1>10. Head(n, c)
  BY <1>1, <1>3, LinkValues DEF Head
<1>11. Chain(n, c) = {c}
  BY <1>1, LinkValues, ChainUnrolls, ChainNone
<1> QED BY <1>1, <1>2, <1>5, <1>9, <1>10, <1>11 DEF Outside

\* create_chain() links a cluster to the end of a chain.
LEMMA LinkGrows ==
  ASSUME NEW m, NEW X, NEW r, Whole(m, X, r), NEW b \in Clusters, NEW c \in Clusters, b # c,
         m.fat[b] = EOC, Head(m, c), m.fat[c] = EOC, ~Lead(m, c), Bare(m, c),
         m.data[b].text = Tab => \A s \in Slots : EntryIn(m, b, s).name # "end",
         NEW q, c \in q \/ \A h \in Clusters : Lead(m, h) => b \notin Chain(m, h),
         NEW n, LinkIs(m, n, b, c)
  PROVE  /\ Grows(m, n, q, X)
         /\ \A h : Head(m, h) /\ h # c =>
              /\ Head(n, h)
              /\ Chain(n, h) = IF b \in Chain(m, h) THEN Chain(m, h) \cup {c} ELSE Chain(m, h)
              /\ \A a \in Chain(m, h) : m.fat[a] \in Clusters => n.fat[a] = m.fat[a]
<1>1. /\ VolumeTyped(n) /\ Linked(m) /\ Linked(n) /\ n.fat = [m.fat EXCEPT ![b] = c]
      /\ n.fat[b] = c /\ \A a \in Clusters : a # b => n.fat[a] = m.fat[a]
      /\ n.data = m.data
      /\ \A a, s : EntryIn(n, a, s) = EntryIn(m, a, s) /\ (UsedIn(n, a, s) <=> UsedIn(m, a, s))
      /\ \A a : Bare(n, a) <=> Bare(m, a)
      /\ \A h : (Lead(n, h) <=> Lead(m, h)) /\ (DirHead(n, h) <=> DirHead(m, h))
  <2>1. VolumeTyped(m) /\ c \in Links
    BY LinkValues DEF Whole
  <2>2. OnlyLink(m, n, b, c)
    BY <2>1, LinkSetIs
  <2> QED BY <2>2 DEF OnlyLink
<1>2. \A a \in Clusters : m.fat[a] # c
  BY DEF Head
<1>3. c # Root
  BY DEF Lead
<1>4. LinksHold(n)
  <2>1. Single(n)
    BY <1>1, <1>2 DEF Whole, LinksHold, Single
  <2>2. \A a \in Clusters : n.fat[a] \in Clusters => n.fat[n.fat[a]] # 0
    <3> TAKE a \in Clusters
    <3>1. n.fat[c] = EOC
      BY <1>1
    <3>2. CASE a = b
      BY <1>1, <3>1, <3>2, LinkValues
    <3>3. CASE a # b
      <4>1. n.fat[a] = m.fat[a] /\ (m.fat[a] \in Clusters => m.fat[m.fat[a]] # 0)
        BY <1>1, <3>3 DEF Whole, LinksHold
      <4>2. c # 0
        BY LinkValues
      <4> QED BY <1>1, <4>1, <4>2
    <3> QED BY <3>2, <3>3
  <2>3. Head(n, Root)
    BY <1>1, <1>3, LinkValues DEF Whole, LinksHold, Head
  <2> QED BY <2>1, <2>2, <2>3 DEF LinksHold
<1>5. ASSUME NEW h, Head(m, h), h # c
      PROVE  /\ Head(n, h)
             /\ Chain(n, h) = IF b \in Chain(m, h) THEN Chain(m, h) \cup {c} ELSE Chain(m, h)
             /\ \A a \in Chain(m, h) : m.fat[a] \in Clusters => n.fat[a] = m.fat[a]
  <2>1. h \in Clusters /\ Chain(m, h) \subseteq Clusters
    BY <1>1, <1>5, ChainIs DEF Head
  <2>2. Head(n, h)
    BY <1>1, <1>5, LinkValues DEF Head
  <2>3. \A a \in Chain(m, h) : m.fat[a] \in Clusters => n.fat[a] = m.fat[a]
    BY <1>1, <2>1, LinkValues
  <2>4. CASE b \in Chain(m, h)
    BY <1>1, <2>1, <2>2, <2>3, <2>4, LinkValues, ChainLonger
  <2>5. CASE b \notin Chain(m, h)
    <3>1. \A a \in Chain(m, h) : n.fat[a] = m.fat[a]
      BY <1>1, <2>1, <2>5
    <3>2. Linked(m) /\ Linked(n)
      BY <1>1
    <3>3. Chain(n, h) = Chain(m, h)
      BY <3>1, <3>2, ChainSame
    <3> QED BY <2>2, <2>3, <2>5, <3>3
  <2> QED BY <2>4, <2>5
<1>6. EndMarksHold(n)
  BY <1>1 DEF Whole, EndMarksHold
<1>7. SameEntries(m, n)
  BY <1>1, LinkValues DEF Whole, EntriesHold, SameEntries
<1>8. ASSUME NEW h \in Clusters, Lead(m, h) PROVE ChainGrows(m, n, q, h)
  <2>1. Head(m, h) /\ h # c
    BY <1>8, LeadIsHead
  <2>2. \A a \in Chain(n, h) \ Chain(m, h) : a = c /\ b \in Chain(m, h)
    BY <1>5, <2>1
  <2>3. \A a \in Chain(n, h) \ Chain(m, h) : Bare(n, a) /\ a \in q
    BY <1>1, <1>8, <2>2
  <2> QED BY <1>1, <1>5, <2>1, <2>3 DEF ChainGrows
<1>9. Grows(m, n, q, X)
  BY <1>1, <1>4, <1>6, <1>7, <1>8 DEF Grows
<1> QED BY <1>5, <1>9

\* remove_chain() frees the first cluster of a chain that nothing leads to.
LEMMA FreeGrows ==
  ASSUME NEW m, NEW X, NEW r, Whole(m, X, r), NEW c, Head(m, c), ~Lead(m, c), Bare(m, c),
         NEW n, LinkIs(m, n, c, 0)
  PROVE  /\ \A q : Grows(m, n, q, X)
         /\ \A h : Head(m, h) /\ h # c =>
              /\ Head(n, h) /\ Chain(n, h) = Chain(m, h)
              /\ \A b \in Chain(m, h) : b # c /\ n.fat[b] = m.fat[b]
         /\ m.fat[c] \in Clusters =>
              /\ Head(n, m.fat[c]) /\ ~Lead(n, m.fat[c])
              /\ Chain(n, m.fat[c]) \subseteq Chain(m, c)
<1>1. /\ VolumeTyped(n) /\ Linked(m) /\ Linked(n) /\ c \in Clusters
      /\ n.fat[c] = 0 /\ \A b \in Clusters : b # c => n.fat[b] = m.fat[b]
      /\ n.data = m.data
      /\ \A b, s : EntryIn(n, b, s) = EntryIn(m, b, s) /\ (UsedIn(n, b, s) <=> UsedIn(m, b, s))
      /\ \A b : Bare(n, b) <=> Bare(m, b)
      /\ \A h : (Lead(n, h) <=> Lead(m, h)) /\ (DirHead(n, h) <=> DirHead(m, h))
  <2>1. VolumeTyped(m) /\ 0 \in Links /\ c \in Clusters
    BY LinkValues DEF Whole, Head
  <2>2. OnlyLink(m, n, c, 0)
    BY <2>1, LinkSetIs
  <2> QED BY <2>2, <2>1 DEF OnlyLink
<1>2. \A b \in Clusters : m.fat[b] # c
  BY DEF Head
<1>3. c # Root
  BY DEF Lead
<1>4. LinksHold(n)
  <2>1. Single(n)
    BY <1>1, LinkValues DEF Whole, LinksHold, Single
  <2>2. \A b \in Clusters : n.fat[b] \in Clusters => n.fat[n.fat[b]] # 0
    BY <1>1, <1>2, LinkValues DEF Whole, LinksHold
  <2>3. Head(n, Root)
    BY <1>1, <1>3, ClustersCount, LinkValues DEF Whole, LinksHold, Head
  <2> QED BY <2>1, <2>2, <2>3 DEF LinksHold
<1>5. ASSUME NEW h, Head(m, h), h # c
      PROVE  /\ Head(n, h) /\ Chain(n, h) = Chain(m, h)
             /\ \A b \in Chain(m, h) : b # c /\ n.fat[b] = m.fat[b]
  <2>1. c \in Chain(m, c)
    BY <1>1, ChainIs
  <2>2. c \notin Chain(m, h)
    BY <1>5, <2>1, LeadsApart
  <2>3. \A b \in Chain(m, h) : b \in Clusters
    BY <1>1, <1>5, ChainIs DEF Head
  <2>4. Chain(n, h) = Chain(m, h)
    BY <1>1, <2>2, <2>3, ChainSame
  <2>5. Head(n, h)
    BY <1>1, <1>5, LinkValues DEF Head
  <2> QED BY <1>1, <2>2, <2>3, <2>4, <2>5
<1>6. EndMarksHold(n)
  BY <1>1, LinkValues DEF Whole, EndMarksHold
<1>7. SameEntries(m, n)
  <2>1. \A b \in Clusters, s \in Slots : UsedIn(m, b, s) => b # c
    BY DEF Bare
  <2> QED BY <1>1, <2>1 DEF Whole, EntriesHold, SameEntries
<1>8. ASSUME NEW h \in Clusters, Lead(m, h), NEW q PROVE ChainGrows(m, n, q, h)
  <2>1. Head(m, h) /\ h # c
    BY <1>8, LeadIsHead
  <2> QED BY <1>1, <1>5, <2>1 DEF ChainGrows
<1>9. \A q : Grows(m, n, q, X)
  BY <1>1, <1>4, <1>6, <1>7, <1>8 DEF Grows
<1>10. ASSUME m.fat[c] \in Clusters
       PROVE  /\ Head(n, m.fat[c]) /\ ~Lead(n, m.fat[c])
              /\ Chain(n, m.fat[c]) \subseteq Chain(m, c)
  <2> DEFINE x == m.fat[c]
  <2>1. x # c /\ m.fat[x] # 0 /\ \A b \in Clusters : b # c => m.fat[b] # x
    BY <1>1, <1>2, <1>10 DEF Whole, LinksHold, Single
  <2>2. Head(n, x)
    BY <1>1, <1>10, <2>1, LinkValues DEF Head
  <2>3. ~Lead(n, x)
    <3> SUFFICES ASSUME Lead(m, x) PROVE FALSE
      BY <1>1
    <3>1. Head(m, x)
      BY <1>10, LeadIsHead
    <3> QED BY <1>1, <3>1 DEF Head
  <2>4. c \notin Chain(m, x)
    <3> SUFFICES ASSUME c \in Chain(m, x) PROVE FALSE
      OBVIOUS
    <3>1. PICK a \in Chain(m, x) : m.fat[a] = c
      BY <1>1, <1>10, <2>1, ChainLed
    <3> QED BY <1>1, <1>2, <1>10, <3>1, ChainIs
  <2>5. Chain(m, x) \subseteq Chain(m, c) /\ Chain(m, x) \subseteq Clusters
    BY <1>1, <1>10, ChainUnrolls, ChainIs
  <2>6. Chain(n, x) = Chain(m, x)
    BY <1>1, <2>4, <2>5, ChainSame
  <2> QED BY <2>2, <2>3, <2>5, <2>6
<1> QED BY <1>5, <1>9, <1>10

-----------------------------------------------------------------------------
(* Steps that write a sector no live file or table has.                    *)

\* A step of one sector: the links are what they were.
LEMMA SameFat ==
  ASSUME NEW m, VolumeTyped(m), NEW n, VolumeTyped(n), n.fat = m.fat
  PROVE  /\ Linked(m) /\ Linked(n)
         /\ \A h : Chain(n, h) = Chain(m, h) /\ (Head(n, h) <=> Head(m, h))
         /\ Single(m) => Single(n)
         /\ LinksHold(m) => LinksHold(n)
<1>1. Linked(m) /\ Linked(n)
  BY TypedIsLinked
<1>2. ASSUME NEW h PROVE Chain(n, h) = Chain(m, h)
  <2>1. \A b \in Chain(m, h) : n.fat[b] = m.fat[b]
    OBVIOUS
  <2> QED BY <1>1, <2>1, ChainSame
<1>3. \A h : Head(n, h) <=> Head(m, h)
  BY DEF Head
<1>4. Single(m) => Single(n)
  BY DEF Single
<1>5. LinksHold(m) => LinksHold(n)
  BY <1>3, <1>4 DEF LinksHold
<1> QED BY <1>1, <1>2, <1>3, <1>4, <1>5

DataIs(m, n, c, x) == n = [m EXCEPT !.data[c] = x]
OnlyData(m, n, c, x) ==
  /\ VolumeTyped(n) /\ Linked(m) /\ Linked(n) /\ n.fat = m.fat
  /\ n.data[c] = x /\ \A b \in Clusters : b # c => n.data[b] = m.data[b]
  /\ \A h : Chain(n, h) = Chain(m, h) /\ (Head(n, h) <=> Head(m, h))
  /\ LinksHold(m) => LinksHold(n)
LEMMA DataSetIs ==
  ASSUME NEW m, VolumeTyped(m), NEW c \in Clusters, NEW x \in Content,
         \A s \in Slots : x.ents[s].kind = "dir" => x.ents[s].start \in Clusters,
         NEW n, DataIs(m, n, c, x)
  PROVE  OnlyData(m, n, c, x)
<1>1. VolumeTyped(n)
  BY SectorSetTyped DEF DataIs
<1>2. n.fat = m.fat /\ n.data[c] = x /\ \A b \in Clusters : b # c => n.data[b] = m.data[b]
  BY DEF DataIs, VolumeTyped, Volume
<1> QED BY <1>1, <1>2, SameFat DEF OnlyData

\* A sector that nothing uses, or one more of a directory, gets new contents.
Fitting(m, c, x) ==
  /\ Bare(m, c) /\ \A s \in Slots : ~Used(x.ents[s])
  /\ x.text # Tab \/ m.fat[c] \notin Clusters
  /\ \A h \in Clusters : Lead(m, h) /\ c \in Chain(m, h) => x.text = Tab /\ DirHead(m, h)
  /\ ~DirHead(m, c)
LEMMA DataGrows ==
  ASSUME NEW m, NEW X, NEW r, Whole(m, X, r), NEW c \in Clusters, NEW x \in Content,
         \A s \in Slots : x.ents[s].kind = "dir" => x.ents[s].start \in Clusters,
         Fitting(m, c, x), NEW n, DataIs(m, n, c, x)
  PROVE  OnlyData(m, n, c, x) /\ \A q : Grows(m, n, q, X)
<1>1. OnlyData(m, n, c, x)
  BY DataSetIs DEF Whole
<1>2. /\ VolumeTyped(n) /\ Linked(m) /\ Linked(n) /\ n.fat = m.fat
      /\ n.data[c] = x /\ \A b \in Clusters : b # c => n.data[b] = m.data[b]
      /\ \A h : Chain(n, h) = Chain(m, h) /\ (Head(n, h) <=> Head(m, h))
      /\ LinksHold(n)
  BY <1>1 DEF OnlyData, Whole
<1>3. \A b \in Clusters, s \in Slots : b # c => EntryIn(n, b, s) = EntryIn(m, b, s)
  BY <1>2 DEF EntryIn
<1>4. \A s \in Slots : ~UsedIn(n, c, s) /\ ~UsedIn(m, c, s)
  BY <1>2 DEF Fitting, Bare, UsedIn, EntryIn
<1>5. SameEntries(m, n)
  BY <1>2, <1>3, <1>4 DEF SameEntries, UsedIn, Whole, EntriesHold
<1>6. EndMarksHold(n)
  BY <1>2, <1>3 DEF EndMarksHold, Whole, Fitting
<1>7. ASSUME NEW h \in Clusters, Lead(m, h), NEW q PROVE ChainGrows(m, n, q, h)
  <2>1. Head(m, h) /\ Chain(m, h) \subseteq Clusters
    BY <1>2, <1>7, LeadIsHead, ChainIs
  <2>2. ASSUME NEW b \in Chain(m, h)
        PROVE  n.data[b].text = m.data[b].text \/ (n.data[b].text = Tab /\ DirHead(m, h))
    BY <1>2, <1>7, <2>1 DEF Fitting
  <2> QED BY <1>2, <2>1, <2>2 DEF ChainGrows
<1>8. \A d \in Clusters : DirHead(m, d) => n.data[d].up = m.data[d].up
  BY <1>2 DEF Fitting
<1> QED BY <1>1, <1>2, <1>5, <1>6, <1>7, <1>8 DEF Grows

\* The .. of a directory that is in X changes.
UpIs(m, n, c, d) == n = [m EXCEPT !.data[c].up = d]
LEMMA UpGrows ==
  ASSUME NEW m, NEW X, NEW r, Whole(m, X, r), NEW c \in Clusters, c \in X, NEW d \in Starts,
         NEW n, UpIs(m, n, c, d)
  PROVE  /\ \A q : Grows(m, n, q, X)
         /\ VolumeTyped(n) /\ n.fat = m.fat /\ n.data[c].up = d
         /\ \A h : Chain(n, h) = Chain(m, h)
         /\ \A b \in Clusters : n.data[b].ents = m.data[b].ents /\ n.data[b].text = m.data[b].text
<1> DEFINE x == [m.data[c] EXCEPT !.up = d]
<1>1. x \in Content /\ x.ents = m.data[c].ents /\ x.text = m.data[c].text /\ x.up = d
  <2>1. m.data[c] \in Content
    BY DEF Whole, VolumeTyped, Volume
  <2> QED BY <2>1 DEF Content
<1>2. \A s \in Slots : x.ents[s].kind = "dir" => x.ents[s].start \in Clusters
  BY <1>1 DEF Whole, VolumeTyped
<1>3. DataIs(m, n, c, x)
  BY DEF UpIs, DataIs
<1> HIDE DEF x
<1>4. OnlyData(m, n, c, x)
  BY <1>1, <1>2, <1>3, DataSetIs DEF Whole
<1>5. /\ VolumeTyped(n) /\ Linked(m) /\ Linked(n) /\ n.fat = m.fat
      /\ \A h : Chain(n, h) = Chain(m, h) /\ (Head(n, h) <=> Head(m, h))
      /\ LinksHold(n)
  BY <1>4 DEF OnlyData, Whole
<1>6. /\ n.data[c].up = d
      /\ \A b \in Clusters : b # c => n.data[b].up = m.data[b].up
      /\ \A b \in Clusters : n.data[b].ents = m.data[b].ents /\ n.data[b].text = m.data[b].text
  BY <1>1, <1>4 DEF OnlyData
<1>7. SameEntries(m, n)
  BY <1>5, <1>6 DEF SameEntries, UsedIn, EntryIn, Whole, EntriesHold
<1>8. EndMarksHold(n)
  BY <1>5, <1>6 DEF EndMarksHold, Whole, EntryIn
<1>9. ASSUME NEW h \in Clusters, Lead(m, h), NEW q PROVE ChainGrows(m, n, q, h)
  <2>1. Head(m, h) /\ Chain(m, h) \subseteq Clusters
    BY <1>5, <1>9, LeadIsHead, ChainIs
  <2> QED BY <1>5, <1>6, <2>1 DEF ChainGrows
<1> QED BY <1>5, <1>6, <1>7, <1>8, <1>9 DEF Grows

-----------------------------------------------------------------------------
(* Steps that change an entry.                                             *)

EntryIs(m, n, c, s, e) == n = [m EXCEPT !.data[c].ents[s] = e]
OnlyEntry(m, n, c, s, e) ==
  /\ VolumeTyped(n) /\ Linked(m) /\ Linked(n) /\ n.fat = m.fat
  /\ EntryIn(n, c, s) = e
  /\ \A b \in Clusters, t \in Slots : b # c \/ t # s => EntryIn(n, b, t) = EntryIn(m, b, t)
  /\ \A b \in Clusters : n.data[b].text = m.data[b].text /\ n.data[b].up = m.data[b].up
  /\ \A h : Chain(n, h) = Chain(m, h) /\ (Head(n, h) <=> Head(m, h))
  /\ LinksHold(m) => LinksHold(n)
LEMMA EntrySetIs ==
  ASSUME NEW m, VolumeTyped(m), NEW c \in Clusters, NEW s \in Slots, NEW e \in Entry,
         e.kind = "dir" => e.start \in Clusters,
         NEW n, EntryIs(m, n, c, s, e)
  PROVE  OnlyEntry(m, n, c, s, e)
<1>1. VolumeTyped(n)
  BY EntrySetTyped DEF EntryIs
<1>2. m \in Volume /\ m.data[c] \in Content
  BY DEF VolumeTyped, Volume
<1>3. n.fat = m.fat
  BY <1>2 DEF EntryIs, Volume
<1>4. n.data = [m.data EXCEPT ![c] = [m.data[c] EXCEPT !.ents = [@ EXCEPT ![s] = e]]]
  BY <1>2 DEF EntryIs, Volume
<1>5. \A b \in Clusters : n.data[b] = IF b = c THEN [m.data[c] EXCEPT !.ents = [@ EXCEPT ![s] = e]]
                                      ELSE m.data[b]
  BY <1>2, <1>4 DEF Volume
<1>6. m.data[c].ents \in [Slots -> Entry]
  BY <1>2 DEF Content
<1>7. \A b \in Clusters : n.data[b].text = m.data[b].text /\ n.data[b].up = m.data[b].up
  BY <1>2, <1>5 DEF Content
<1>8. n.data[c].ents = [m.data[c].ents EXCEPT ![s] = e]
  BY <1>2, <1>5 DEF Content
<1>9. EntryIn(n, c, s) = e
  BY <1>6, <1>8 DEF EntryIn
<1>10. \A b \in Clusters, t \in Slots : b # c \/ t # s => EntryIn(n, b, t) = EntryIn(m, b, t)
  BY <1>5, <1>6, <1>8 DEF EntryIn
<1> QED BY <1>1, <1>3, <1>7, <1>9, <1>10, SameFat DEF OnlyEntry

\* What an entry e that comes to slot s of c in directory d must be like.
EntryFits(m, c, s, e, d) ==
  /\ EntryHolds(m, e)
  /\ e.kind = "file" => e.start # d
  /\ \A b \in Chain(m, d), t \in Slots : b # c \/ t # s => EntryIn(m, b, t).name # e.name
  /\ e.kind = "dir" =>
       \/ DirHead(m, e.start)
       \/ ~Lead(m, e.start) /\ \A b \in Chain(m, e.start) : Bare(m, b) /\ m.data[b].text = Tab
StartFits(m, c, s, e, d, Y) ==
  /\ e.start # 0 =>
       \A b \in Clusters, t \in Slots :
         (b # c \/ t # s) /\ UsedIn(m, b, t) /\ EntryIn(m, b, t).start = e.start =>
           e.start \in Y /\ EntryIn(m, b, t).kind = e.kind
  /\ e.kind = "dir" => m.data[e.start].up = d \/ e.start \in Y

\* Without the entry, the chains of X are as those of Y must be.
Settled(m, c, s, X, Y) ==
  \A b \in Clusters, t \in Slots :
    (b # c \/ t # s) /\ UsedIn(m, b, t) /\ EntryIn(m, b, t).start \in X \ Y =>
      /\ \A a \in Clusters, u \in Slots :
           (a # c \/ u # s) /\ UsedIn(m, a, u) /\ EntryIn(m, a, u).start = EntryIn(m, b, t).start =>
             a = b /\ u = t
      /\ \A h : DirHead(m, h) /\ b \in Chain(m, h) /\ EntryIn(m, b, t).kind = "dir" =>
           m.data[EntryIn(m, b, t).start].up = h

\* A directory of n is one of m, or what e now leads to.
LEMMA EntryHeads ==
  ASSUME NEW m, NEW n, NEW c \in Clusters, NEW s \in Slots, NEW e, OnlyEntry(m, n, c, s, e),
         NEW h, DirHead(n, h)
  PROVE  DirHead(m, h) \/ (Used(e) /\ e.kind = "dir" /\ e.start = h)
<1>1. CASE h = Root
  BY <1>1 DEF DirHead
<1>2. CASE h # Root
  <2>1. PICK b \in Clusters, t \in Slots :
          UsedIn(n, b, t) /\ EntryIn(n, b, t).kind = "dir" /\ EntryIn(n, b, t).start = h
    BY <1>2 DEF DirHead
  <2>2. CASE b = c /\ t = s
    BY <2>1, <2>2 DEF OnlyEntry, UsedIn
  <2>3. CASE b # c \/ t # s
    <3>1. EntryIn(n, b, t) = EntryIn(m, b, t)
      BY <2>3 DEF OnlyEntry
    <3> QED BY <2>1, <3>1 DEF DirHead, UsedIn
  <2> QED BY <2>2, <2>3
<1> QED BY <1>1, <1>2

LEMMA EntryWhole ==
  ASSUME NEW m, NEW X, NEW Y, NEW r, Whole(m, X, r),
         NEW c \in Clusters, NEW s \in Slots, NEW e, NEW n, OnlyEntry(m, n, c, s, e),
         NEW d, DirHead(m, d), c \in Chain(m, d), e.name # "end", e.start \in Starts,
         e.kind \in {"file", "dir"}, e.kind = "dir" => e.start \in Clusters,
         Used(e) => EntryFits(m, c, s, e, d) /\ StartFits(m, c, s, e, d, Y),
         Settled(m, c, s, X, Y)
  PROVE  Whole(n, Y, r)
<1>1. /\ VolumeTyped(n) /\ Linked(m) /\ Linked(n) /\ n.fat = m.fat
      /\ EntryIn(n, c, s) = e
      /\ \A b \in Clusters, t \in Slots : b # c \/ t # s => EntryIn(n, b, t) = EntryIn(m, b, t)
      /\ \A b \in Clusters : n.data[b].text = m.data[b].text /\ n.data[b].up = m.data[b].up
      /\ \A h : Chain(n, h) = Chain(m, h) /\ (Head(n, h) <=> Head(m, h))
      /\ LinksHold(n)
  BY DEF OnlyEntry, Whole
<1>2. \A b \in Clusters, t \in Slots : b # c \/ t # s => (UsedIn(n, b, t) <=> UsedIn(m, b, t))
  BY <1>1 DEF UsedIn
<1>3. UsedIn(n, c, s) <=> Used(e)
  BY <1>1 DEF UsedIn
<1>4. d \in Clusters /\ Lead(m, d) /\ Head(m, d) /\ Chain(m, d) \subseteq Clusters
      /\ \A h : DirHead(m, h) => h \in Clusters /\ Lead(m, h) /\ Head(m, h)
  BY <1>1, LeadIsHead, ChainIs
<1>5. \A h : Head(m, h) /\ c \in Chain(m, h) => h = d
  BY <1>4, LeadsApart
<1>6. \A b \in Clusters : b # c /\ Bare(m, b) => Bare(n, b)
  BY <1>2 DEF Bare
\* A directory of n holds what one of m held, or is new and empty.
<1>7. ASSUME NEW h, DirHead(n, h)
      PROVE  \/ DirHead(m, h)
             \/ /\ h \in Clusters /\ c \notin Chain(n, h)
                /\ \A b \in Chain(n, h) : Bare(n, b) /\ n.data[b].text = Tab
  <2>1. CASE DirHead(m, h)
    BY <2>1
  <2>2. CASE ~DirHead(m, h)
    <3>1. Used(e) /\ e.kind = "dir" /\ e.start = h
      BY <1>7, <2>2, EntryHeads
    <3>2. ~Lead(m, h) /\ \A b \in Chain(m, h) : Bare(m, b) /\ m.data[b].text = Tab
      BY <2>2, <3>1 DEF EntryFits
    <3>3. h \in Clusters /\ Head(m, h)
      BY <3>1, Zeros DEF EntryFits, EntryHolds
    <3>4. c \notin Chain(m, h)
      BY <1>4, <1>5, <3>2, <3>3
    <3>5. Chain(n, h) = Chain(m, h) /\ Chain(m, h) \subseteq Clusters
      BY <1>1, <3>3, ChainIs
    <3>6. \A b \in Chain(n, h) : b \in Clusters /\ b # c
      BY <3>4, <3>5
    <3>7. \A b \in Chain(n, h) : Bare(n, b) /\ n.data[b].text = Tab
      BY <1>1, <1>6, <3>2, <3>5, <3>6
    <3> QED BY <3>3, <3>4, <3>5, <3>7
  <2> QED BY <2>1, <2>2
<1>8. EntriesHold(n)
  <2> SUFFICES ASSUME NEW b \in Clusters, NEW t \in Slots, UsedIn(n, b, t)
               PROVE  n.fat[b] # 0 /\ EntryHolds(n, EntryIn(n, b, t))
    BY DEF EntriesHold
  <2>1. CASE b = c /\ t = s
    <3>1. EntryHolds(m, e) /\ (e.kind = "file" => e.start # d)
      BY <1>3, <2>1 DEF EntryFits
    <3>2. m.fat[c] # 0
      BY <1>1, <1>4, ChainTaken DEF Whole
    <3>3. ASSUME e.kind = "file", NEW a \in Chain(n, e.start) PROVE Bare(n, a)
      <4>1. a \in Chain(m, e.start) /\ Bare(m, a)
        BY <1>1, <3>1, <3>3 DEF EntryHolds
      <4>2. e.start \in Clusters
        BY <1>1, <4>1, ChainNone
      <4>3. a \in Clusters
        BY <1>1, <4>1, <4>2, ChainIs
      <4>4. Head(m, e.start)
        BY <3>1, <4>2, Zeros DEF EntryHolds
      <4>5. a # c
        BY <1>5, <3>1, <3>3, <4>1, <4>4
      <4> QED BY <1>6, <4>1, <4>3, <4>5
    <3>4. EntryHolds(n, e)
      BY <1>1, <3>1, <3>3 DEF EntryHolds
    <3> QED BY <1>1, <2>1, <3>2, <3>4
  <2>2. CASE b # c \/ t # s
    <3> DEFINE x == EntryIn(m, b, t)
    <3>1. UsedIn(m, b, t) /\ EntryIn(n, b, t) = x
      BY <1>1, <1>2, <2>2
    <3>2. m.fat[b] # 0 /\ EntryHolds(m, x)
      BY <3>1 DEF Whole, EntriesHold
    <3>3. ASSUME x.kind = "file", NEW a \in Chain(n, x.start) PROVE Bare(n, a)
      <4>1. a \in Chain(m, x.start) /\ Bare(m, a)
        BY <1>1, <3>2, <3>3 DEF EntryHolds
      <4>2. a # c
        BY <3>1, <3>3, <4>1, FileIsNoDir
      <4>3. x.start \in Clusters
        BY <1>1, <4>1, ChainNone
      <4>4. a \in Clusters
        BY <1>1, <4>1, <4>3, ChainIs
      <4> QED BY <1>6, <4>1, <4>2, <4>4
    <3>4. EntryHolds(n, x)
      BY <1>1, <3>2, <3>3 DEF EntryHolds
    <3> QED BY <1>1, <3>1, <3>2, <3>4
  <2> QED BY <2>1, <2>2
<1>9. EndMarksHold(n)
  BY <1>1 DEF EndMarksHold, Whole
<1>10. NamesHold(n)
  <2> SUFFICES ASSUME NEW h \in Clusters, DirHead(n, h), NEW a \in Chain(n, h),
                      NEW b \in Chain(n, h), NEW t \in Slots, NEW u \in Slots, UsedIn(n, a, t),
                      EntryIn(n, b, u).name = EntryIn(n, a, t).name
               PROVE  a = b /\ t = u
    BY DEF NamesHold
  <2>1. UsedIn(n, b, u)
    BY DEF UsedIn, Used
  <2>2. DirHead(m, h)
    BY <1>7 DEF Bare
  <2>3. a \in Chain(m, h) /\ b \in Chain(m, h) /\ a \in Clusters /\ b \in Clusters
    BY <1>1, ChainIs
  <2>4. h = d \/ (a # c /\ b # c)
    BY <1>4, <1>5, <2>2, <2>3
  <2>5. CASE a = c /\ t = s
    <3>1. h = d /\ EntryFits(m, c, s, e, d) /\ EntryIn(n, b, u).name = e.name
      BY <1>1, <1>3, <2>4, <2>5
    <3>2. ~(b # c \/ u # s)
      BY <1>1, <2>3, <3>1 DEF EntryFits
    <3> QED BY <2>5, <3>2
  <2>6. CASE b = c /\ u = s
    <3>1. h = d /\ EntryFits(m, c, s, e, d) /\ EntryIn(n, a, t).name = e.name
      BY <1>1, <1>3, <2>1, <2>4, <2>6
    <3>2. ~(a # c \/ t # s)
      BY <1>1, <2>3, <3>1 DEF EntryFits
    <3> QED BY <2>6, <3>2
  <2>7. CASE (a # c \/ t # s) /\ (b # c \/ u # s)
    <3>1. UsedIn(m, a, t) /\ EntryIn(m, b, u).name = EntryIn(m, a, t).name
      BY <1>1, <1>2, <2>3, <2>7
    <3> QED BY <2>2, <2>3, <3>1 DEF Whole, NamesHold
  <2> QED BY <2>5, <2>6, <2>7
<1>11. StartsHold(n, Y)
  <2> SUFFICES ASSUME NEW a \in Clusters, NEW b \in Clusters, NEW t \in Slots, NEW u \in Slots,
                      UsedIn(n, a, t), UsedIn(n, b, u), EntryIn(n, a, t).start # 0,
                      EntryIn(n, b, u).start = EntryIn(n, a, t).start,
                      ~(a = b /\ t = u)
               PROVE  EntryIn(n, a, t).start \in Y /\ EntryIn(n, b, u).kind = EntryIn(n, a, t).kind
    BY DEF StartsHold
  <2>1. CASE a = c /\ t = s
    <3>1. Used(e) /\ EntryIn(n, a, t) = e /\ (b # c \/ u # s) /\ UsedIn(m, b, u)
          /\ EntryIn(n, b, u) = EntryIn(m, b, u)
      BY <1>1, <1>2, <1>3, <2>1
    <3> QED BY <3>1 DEF StartFits
  <2>2. CASE b = c /\ u = s
    <3>1. Used(e) /\ EntryIn(n, b, u) = e /\ (a # c \/ t # s) /\ UsedIn(m, a, t)
          /\ EntryIn(n, a, t) = EntryIn(m, a, t)
      BY <1>1, <1>2, <1>3, <2>2
    <3> QED BY <3>1 DEF StartFits
  <2>3. CASE (a # c \/ t # s) /\ (b # c \/ u # s)
    <3>1. /\ UsedIn(m, a, t) /\ EntryIn(n, a, t) = EntryIn(m, a, t)
          /\ UsedIn(m, b, u) /\ EntryIn(n, b, u) = EntryIn(m, b, u)
      BY <1>1, <1>2, <2>3
    <3>2. EntryIn(m, a, t).start \in X /\ EntryIn(m, b, u).kind = EntryIn(m, a, t).kind
      BY <3>1 DEF Whole, StartsHold
    <3>3. EntryIn(m, a, t).start \notin X \ Y
      <4> SUFFICES ASSUME EntryIn(m, a, t).start \in X \ Y PROVE FALSE
        OBVIOUS
      <4>1. b = a /\ u = t
        BY <2>3, <3>1 DEF Settled
      <4> QED BY <4>1
    <3> QED BY <3>1, <3>2, <3>3
  <2> QED BY <2>1, <2>2, <2>3
<1>12. UpsHold(n, Y)
  <2> SUFFICES ASSUME NEW h \in Clusters, DirHead(n, h), NEW b \in Chain(n, h), NEW t \in Slots,
                      UsedIn(n, b, t), EntryIn(n, b, t).kind = "dir",
                      EntryIn(n, b, t).start \notin Y
               PROVE  n.data[EntryIn(n, b, t).start].up = h
    BY DEF UpsHold
  <2>1. DirHead(m, h)
    BY <1>7 DEF Bare
  <2>2. b \in Chain(m, h) /\ b \in Clusters
    BY <1>1, ChainIs
  <2>3. EntryIn(n, b, t).start \in Clusters
    BY <1>1, <2>2, UsedIsTyped
  <2>4. CASE b = c /\ t = s
    <3>1. h = d /\ EntryIn(n, b, t) = e /\ Used(e)
      BY <1>1, <1>3, <1>4, <1>5, <2>1, <2>2, <2>4
    <3>2. m.data[e.start].up = d
      BY <3>1 DEF StartFits
    <3> QED BY <1>1, <2>3, <3>1, <3>2
  <2>5. CASE b # c \/ t # s
    <3>1. UsedIn(m, b, t) /\ EntryIn(n, b, t) = EntryIn(m, b, t)
      BY <1>1, <1>2, <2>2, <2>5
    <3>2. m.data[EntryIn(m, b, t).start].up = h \/ EntryIn(m, b, t).start \in X
      BY <2>1, <2>2, <3>1 DEF Whole, UpsHold
    <3>3. m.data[EntryIn(m, b, t).start].up = h
      BY <2>1, <2>2, <2>5, <3>1, <3>2 DEF Settled
    <3> QED BY <1>1, <2>3, <3>1, <3>3
  <2> QED BY <2>4, <2>5
<1>13. TablesHold(n, r)
  <2> SUFFICES ASSUME NEW h \in Clusters, DirHead(n, h), NEW b \in Chain(n, h)
               PROVE  n.data[b].text = Tab \/ (b \in r /\ b # h)
    BY DEF TablesHold
  <2>1. CASE DirHead(m, h)
    <3>1. b \in Chain(m, h) /\ b \in Clusters
      BY <1>1, ChainIs
    <3>2. m.data[b].text = Tab \/ (b \in r /\ b # h)
      BY <2>1, <3>1 DEF Whole, TablesHold
    <3> QED BY <1>1, <3>1, <3>2
  <2>2. CASE ~DirHead(m, h)
    BY <1>7, <2>2
  <2> QED BY <2>1, <2>2
<1> QED BY <1>1, <1>8, <1>9, <1>10, <1>11, <1>12, <1>13 DEF Whole

\* A file of which neither the links nor the sectors change.
LEMMA FileSame ==
  ASSUME NEW m, VolumeTyped(m), NEW n, VolumeTyped(n), n.fat = m.fat,
         \A b \in Clusters : n.data[b].text = m.data[b].text,
         NEW e, NEW p, p.size \in Blocks, e.start \in Clusters \/ p.size = 0, FileIs(m, e, p)
  PROVE  FileIs(n, e, p)
<1> SUFFICES ASSUME NEW i \in 0 .. p.size - 1
             PROVE  /\ BlockAt(n, e.start, i) \in Clusters
                    /\ n.data[BlockAt(n, e.start, i)].text = p.text
  BY DEF FileIs
<1>1. BlockAt(m, e.start, i) \in Clusters /\ m.data[BlockAt(m, e.start, i)].text = p.text
  BY DEF FileIs
<1>2. i \in 0 .. MAX_BLOCKS /\ e.start \in Clusters
  BY FatAssumption DEF Blocks
<1>3. Linked(m) /\ Linked(n)
  BY TypedIsLinked
<1>4. \A b \in Chain(m, e.start) : m.fat[b] \in Clusters => n.fat[b] = m.fat[b]
  OBVIOUS
<1>5. BlockAt(n, e.start, i) = BlockAt(m, e.start, i)
  BY <1>1, <1>2, <1>3, <1>4, BlockInChain
<1> QED BY <1>1, <1>5

\* Of a file in use, the size is no more than its chain has.
LEMMA FileStarts ==
  ASSUME NEW m, NEW X, NEW r, Whole(m, X, r), NEW c \in Clusters, NEW s \in Slots,
         UsedIn(m, c, s)
  PROVE  /\ EntryIn(m, c, s).size \in Blocks
         /\ EntryIn(m, c, s).start \in Clusters \/ EntryIn(m, c, s).size = 0
<1> DEFINE e == EntryIn(m, c, s)
<1>1. e.size \in Blocks /\ e.start \in Starts /\ e.size <= Cardinality(Chain(m, e.start))
  BY UsedIsTyped DEF Whole, EntriesHold, EntryHolds
<1>2. CASE e.start = 0
  <2>1. Chain(m, e.start) = {}
    BY <1>2, ChainNone, LeadIsHead, Zeros
  <2>2. e.size <= 0
    BY <1>1, <2>1, FS_EmptySet
  <2> QED BY <1>1, <2>2, FatAssumption DEF Blocks
<1>3. CASE e.start # 0
  BY <1>1, <1>3, Zeros
<1> QED BY <1>1, <1>2, <1>3

\* A directory stays one, when an entry that led to it changes.
StaysDir(m, c, s) ==
  UsedIn(m, c, s) /\ EntryIn(m, c, s).kind = "dir" =>
    \/ \A b \in Chain(m, EntryIn(m, c, s).start) : Bare(m, b)
    \/ \E b \in Clusters, t \in Slots :
         /\ b # c \/ t # s
         /\ UsedIn(m, b, t) /\ EntryIn(m, b, t).kind = "dir"
         /\ EntryIn(m, b, t).start = EntryIn(m, c, s).start

LEMMA EntryIntact ==
  ASSUME NEW m, NEW X, NEW r, Whole(m, X, r), NEW n, NEW Y, NEW q, Whole(n, Y, q),
         NEW c \in Clusters, NEW s \in Slots, NEW e, OnlyEntry(m, n, c, s, e),
         NEW d, DirHead(m, d), c \in Chain(m, d), StaysDir(m, c, s),
         NEW h \in Clusters, DirHead(m, h), NEW name \in Names, NEW p, Intact(m, h, name, p),
         ~(h = d /\ EntryIn(m, c, s).name = name)
  PROVE  DirHead(n, h) /\ Intact(n, h, name, p)
<1>1. /\ VolumeTyped(m) /\ VolumeTyped(n) /\ Linked(m) /\ Linked(n) /\ n.fat = m.fat
      /\ \A b \in Clusters, t \in Slots : b # c \/ t # s => EntryIn(n, b, t) = EntryIn(m, b, t)
      /\ \A b \in Clusters : n.data[b].text = m.data[b].text
      /\ \A g : Chain(n, g) = Chain(m, g)
  BY DEF OnlyEntry, Whole
<1>2. PICK b \in Chain(m, h), t \in Slots :
        EntryIn(m, b, t).name = name /\ FileIs(m, EntryIn(m, b, t), p)
  BY IntactIs
<1>3. UsedIn(m, b, t) /\ b \in Clusters /\ EntryIn(m, b, t).size = p.size
  BY <1>1, <1>2, ChainIs DEF UsedIn, Used, FileIs
<1>4. b # c \/ t # s
  <2> SUFFICES ASSUME b = c, t = s PROVE FALSE
    OBVIOUS
  <2>1. h = d
    BY <1>2, LeadIsHead, LeadsApart
  <2> QED BY <1>2, <2>1
<1>5. FileIs(n, EntryIn(m, b, t), p)
  <2>1. p.size \in Blocks /\ (EntryIn(m, b, t).start \in Clusters \/ p.size = 0)
    BY <1>3, FileStarts
  <2> QED BY <1>1, <1>2, <2>1, FileSame
<1>6. Intact(n, h, name, p)
  <2>1. EntryIn(n, b, t) = EntryIn(m, b, t) /\ b \in Chain(n, h)
    BY <1>1, <1>3, <1>4
  <2> QED BY <1>2, <1>5, <2>1, IntactIs
<1>7. DirHead(n, h)
  <2>1. CASE h = Root
    BY <2>1 DEF DirHead
  <2>2. CASE h # Root
    <3>1. PICK a \in Clusters, u \in Slots :
            UsedIn(m, a, u) /\ EntryIn(m, a, u).kind = "dir" /\ EntryIn(m, a, u).start = h
      BY <2>2 DEF DirHead
    <3>2. PICK a2 \in Clusters, u2 \in Slots :
            /\ a2 # c \/ u2 # s
            /\ UsedIn(m, a2, u2) /\ EntryIn(m, a2, u2).kind = "dir" /\ EntryIn(m, a2, u2).start = h
      <4>1. CASE a # c \/ u # s
        BY <3>1, <4>1
      <4>2. CASE a = c /\ u = s
        <5>1. ~Bare(m, b)
          BY <1>3 DEF Bare
        <5>2. ~\A x \in Chain(m, EntryIn(m, c, s).start) : Bare(m, x)
          BY <1>2, <3>1, <4>2, <5>1
        <5> QED BY <3>1, <4>2, <5>2 DEF StaysDir
      <4> QED BY <4>1, <4>2
    <3>3. EntryIn(n, a2, u2) = EntryIn(m, a2, u2)
      BY <1>1, <3>2
    <3> QED BY <3>2, <3>3 DEF DirHead, UsedIn
  <2> QED BY <2>1, <2>2
<1> QED BY <1>6, <1>7

\* What is kept, but for what the entry was called.
LEMMA EntryFiles ==
  ASSUME NEW m, NEW X, NEW r, Whole(m, X, r), NEW n, NEW Y, NEW q, Whole(n, Y, q),
         NEW c \in Clusters, NEW s \in Slots, NEW e, OnlyEntry(m, n, c, s, e),
         NEW d, DirHead(m, d), c \in Chain(m, d), StaysDir(m, c, s),
         NEW k, FilesHold(m, k), NEW k2,
         \A h \in Clusters, name \in Names : k2[h][name] # NoPromise =>
           k2[h][name] = k[h][name] /\ ~(h = d /\ EntryIn(m, c, s).name = name)
  PROVE  FilesHold(n, k2)
<1> SUFFICES ASSUME NEW h \in Clusters, NEW name \in Names, k2[h][name] # NoPromise
             PROVE  DirHead(n, h) /\ Intact(n, h, name, k2[h][name])
  BY DEF FilesHold
<1>1. k2[h][name] = k[h][name] /\ ~(h = d /\ EntryIn(m, c, s).name = name)
  OBVIOUS
<1>2. DirHead(m, h) /\ Intact(m, h, name, k2[h][name])
  BY <1>1 DEF FilesHold
<1> QED BY <1>1, <1>2, EntryIntact

\* An entry that comes adds to the directories.
LEMMA EntryDirs ==
  ASSUME NEW m, NEW n, VolumeTyped(m), NEW c \in Clusters, NEW s \in Slots, NEW e,
         OnlyEntry(m, n, c, s, e), ~UsedIn(m, c, s)
  PROVE  Dirs(m) \subseteq Dirs(n)
<1>1. ASSUME NEW d \in Dirs(m), NEW x \in EntriesOf(m, d)
      PROVE  x \in EntriesOf(n, d)
  <2>1. PICK b \in Chain(m, d), t \in Slots : x = EntryIn(m, b, t)
    BY EntriesAre DEF EntryIn
  <2>2. UsedIn(m, b, t) /\ b \in Clusters
    BY <2>1, EntriesAre, ChainIs, ChainNone DEF UsedIn, OnlyEntry
  <2>3. EntryIn(n, b, t) = x /\ b \in Chain(n, d)
    BY <2>1, <2>2 DEF OnlyEntry
  <2> QED BY <2>1, <2>2, <2>3, EntriesAre DEF OnlyEntry, UsedIn, EntryIn
<1> QED BY <1>1, DirsGrow DEF OnlyEntry
=============================================================================
