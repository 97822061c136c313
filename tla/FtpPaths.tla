------------------------------- MODULE FtpPaths -------------------------------
(***************************************************************************)
(* Which object a command means by the text a client sends: trimFilename() *)
(* of ftp_storage.c, and create_name(), follow_path(), f_chdir() and       *)
(* f_getcwd() of fatfs/ff.c, over a tree of directories.  The commands are *)
(* those of FtpStorage, here with what is on the volume and no failures; a *)
(* refused command and one that only reads are stuttering steps.           *)
(*                                                                         *)
(* The limits of a name are constants, 8 and 3 in the code; 12, the limit  *)
(* of trimFilename(), is BODY + 1 + EXT; BUFFER is 128.  Characters are    *)
(* those FatFs allows, of one byte.                                        *)
(***************************************************************************)
EXTENDS Integers, FiniteSets, SequencesExt

CONSTANTS
  Letters, Up(_),   \* letters, and how create_name() makes them upper case
  BODY, EXT,        \* the length of a name and of its extension
  BUFFER,           \* MAXBUFF, what ftpStoragePwd() has room for
  Ids,              \* bound: files and directories on the volume
  MAX_PATH          \* bound: length of what a client sends

ASSUME PathsAssumption ==
  /\ Letters \cap {".", "/", " "} = {} /\ \A c \in Letters : Up(c) \in Letters
  /\ BODY \in Nat \ {0} /\ EXT \in Nat \ {0} /\ MAX_PATH \in Nat
  /\ BUFFER \in Nat \ {0, 1}
  /\ Ids \subseteq Nat \ {0} /\ IsFiniteSet(Ids)

Root   == 0    \* the cluster of the root directory in a .. entry and in cdir
NoFile == -1   \* the object is not in its directory
NoPath == -2   \* any other error

Upto(n, S) == UNION {[1 .. k -> S] : k \in 0 .. n}
Paths  == Upto(MAX_PATH, Letters \cup {".", "/", " "})
Stored == {Up(c) : c \in Letters}
Names  == (Upto(BODY, Stored) \ {<<>>}) \X Upto(EXT, Stored)
Dot    == <<<<".">>, <<>>>>
DotDot == <<<<".", ".">>, <<>>>>

VARIABLES
  vol,    \* the objects: kind, directory of the entry, .. entry, and name
  cdir    \* fs->cdir

vars == <<vol, cdir>>

Free == [kind |-> "free", in |-> Root, up |-> Root, name |-> Dot]

TypeOK ==
  /\ vol \in [Ids -> [kind : {"free", "file", "dir"}, in : Ids \cup {Root},
                      up : Ids \cup {Root}, name : Names \cup {Dot}]]
  /\ \A i \in Ids : vol[i].kind = "free" <=> vol[i] = Free
  /\ cdir \in Ids \cup {Root}

Init == vol = [i \in Ids |-> Free] /\ cdir = Root

-----------------------------------------------------------------------------
(* Text.                                                                   *)

Upper(word)  == [i \in DOMAIN word |-> Up(word[i])]
Before(c, s) == SubSeq(s, 1, SelectInSeq(s \o <<c>>, LAMBDA x : x = c) - 1)
After(c, s)  == SubSeq(s, Len(Before(c, s)) + 2, Len(s))
LastDot(s)   == SelectLastInSeq(s, LAMBDA x : x = ".")
Cut(s, n)    == SubSeq(s, 1, IF Len(s) < n THEN Len(s) ELSE n)

\* Mutated form of Trim: the cut of the whole does not count the dot.
TrimNoDot(p) ==
  LET dot == LastDot(p)
  IN  IF dot = 0 THEN Cut(p, BODY)
      ELSE Cut(Cut(SubSeq(p, 1, dot - 1), BODY) \o SubSeq(p, dot, Len(p)), BODY + EXT)

\* trimFilename(): what is in front of the last dot is cut, then the whole.
Trim(p) ==
  LET dot == LastDot(p)
  IN  IF dot = 0 THEN Cut(p, BODY)
      ELSE Cut(Cut(SubSeq(p, 1, dot - 1), BODY) \o SubSeq(p, dot, Len(p)), BODY + 1 + EXT)

\* One more character of a path: a separator begins a segment, unless the
\* last one is still empty.
Split(segs, c) ==
  IF c # "/" THEN [segs EXCEPT ![Len(segs)] = Append(@, c)]
  ELSE IF Last(segs) = <<>> THEN segs
  ELSE Append(segs, <<>>)
Segments(p) ==
  LET f[i \in 0 .. Len(p)] == IF i = 0 THEN <<<<>>>> ELSE Split(f[i - 1], p[i])
  IN  f[Len(p)]

IsDot(s)   == s \in {<<".">>, <<".", ".">>}
IsLegal(s) ==
  \/ IsDot(s)
  \/ /\ Len(Before(".", s)) \in 1 .. BODY
     /\ Len(After(".", s)) \in 0 .. EXT
     /\ "." \notin ToSet(After(".", s))

\* Mutated form of Name: small letters stay small.
NameAsSent(s) == IF IsDot(s) THEN <<s, <<>>>> ELSE <<Before(".", s), After(".", s)>>

\* create_name() for one segment.
Name(s) == IF IsDot(s) THEN <<s, <<>>>>
           ELSE <<Upper(Before(".", s)), Upper(After(".", s))>>

\* The segments of a path as create_name() hands them to follow_path(): a
\* blank ends the path, and an empty segment counts only when it is the last.
Route(p) ==
  LET abs  == p # <<>> /\ p[1] = "/"
      rest == IF abs THEN Tail(p) ELSE p
      segs == IF rest = <<>> THEN <<>> ELSE Segments(Before(" ", rest))
  IN  [ok   |-> \A i \in DOMAIN segs : IsLegal(segs[i]),
       abs  |-> abs,
       segs |-> [i \in DOMAIN segs |-> Name(segs[i])]]

\* What can be asked for, as it is sent and as it is trimmed.
Sent    == {Route(p) : p \in Paths}
Trimmed == {Route(Trim(p)) : p \in Paths}
Both    == {<<Route(p), Route(Trim(p))>> : p \in Paths}

-----------------------------------------------------------------------------
(* The tree.                                                               *)

Dirs == {Root} \cup {i \in Ids : vol[i].kind = "dir"}

\* dir_find() of a name in directory d.
Found(d, n) ==
  LET here == {i \in Ids : vol[i].kind # "free" /\ vol[i].in = d /\ vol[i].name = n}
  IN  IF here = {} THEN NoFile ELSE CHOOSE i \in here : TRUE

\* One round of the loop of follow_path(), from object d.
Go(d, n) ==
  CASE d \notin Dirs -> NoPath
    [] d \in Dirs /\ n = Dot -> d
    [] d \in Dirs /\ n = DotDot -> IF d = Root THEN Root ELSE vol[d].up
    [] OTHER -> Found(d, n)

\* follow_path(): the object at the end of route r, and its directory.
Walk(d, names) ==
  LET f[k \in 0 .. Len(names)] == IF k = 0 THEN d ELSE Go(f[k - 1], names[k])
  IN  f[Len(names)]
Follow(r) == IF ~r.ok THEN NoPath ELSE Walk(IF r.abs THEN Root ELSE cdir, r.segs)
Within(r) == Follow([r EXCEPT !.segs = IF @ = <<>> THEN @ ELSE Front(@)])

EndsInDot(r) == r.segs # <<>> /\ Last(r.segs) \in {Dot, DotDot}
\* dj.dir is 0: follow_path() ends with no entry of the object.
NoEntry(r)   == r.segs = <<>> \/ (EndsInDot(r) /\ Within(r) = Root)
\* f_stat() returns FR_OK.
Stat(r)      == Follow(r) \in Ids \cup {Root} /\ ~NoEntry(r)

\* A name as get_fileinfo() shows it has a dot only in front of an extension.
Shown(n) == Len(n[1]) + (IF n[2] = <<>> THEN 0 ELSE 1 + Len(n[2]))

\* f_getcwd(): the names from the root to the current directory, read off the
\* entry each parent has for its child, and pushed to the buffer with a slash as
\* long as two bytes are left.  Without that it has no answer: an empty path.
Climb(s) ==
  IF s.at = Root THEN s
  ELSE LET n == vol[s.at].name
       IN  [at |-> vol[s.at].up, names |-> <<n>> \o s.names, room |-> s.room - (Shown(n) + 1),
            ok |-> s.ok /\ vol[s.at].in = vol[s.at].up /\ s.room >= Shown(n) + 3]
Top ==
  LET f[k \in 0 .. Cardinality(Ids)] ==
        IF k = 0 THEN [at |-> cdir, names |-> <<>>, room |-> BUFFER, ok |-> TRUE]
        ELSE Climb(f[k - 1])
  IN  f[Cardinality(Ids)]
GetCwd == [ok |-> Top.ok /\ Top.at = Root, abs |-> TRUE, segs |-> Top.names]

-----------------------------------------------------------------------------
(* The commands.                                                           *)

\* Mutated form of Register: no look for an object of that name.
RegisterAnyway(kind, r) ==
  /\ Follow(r) # NoPath /\ r.segs # <<>> /\ ~EndsInDot(r)
  /\ \E i \in Ids :
       /\ vol[i].kind = "free"
       /\ vol' = [vol EXCEPT ![i] =
            [kind |-> kind, in |-> Within(r), name |-> Last(r.segs),
             up |-> IF kind = "dir" THEN Within(r) ELSE Root]]
  /\ UNCHANGED cdir

\* dir_register() of a new object at the end of route r, which must be free.
Register(kind, r) ==
  /\ Follow(r) = NoFile
  /\ \E i \in Ids :
       /\ vol[i].kind = "free"
       /\ vol' = [vol EXCEPT ![i] =
            [kind |-> kind, in |-> Within(r), name |-> Last(r.segs),
             up |-> IF kind = "dir" THEN Within(r) ELSE Root]]
  /\ UNCHANGED cdir

Cwd == \E r \in Sent : Follow(r) \in Dirs /\ cdir' = Follow(r) /\ UNCHANGED vol

Stor == \E r \in Trimmed : Register("file", r)

\* f_stat() of the name as it is sent, f_mkdir() of the trimmed one.
Mkd == \E b \in Both : ~Stat(b[1]) /\ Register("dir", b[2])

\* Mutated form of Unlink: the current directory can be removed.
UnlinkCurrent ==
  \E r \in Sent :
    LET i == Follow(r)
    IN  /\ i \in Ids /\ ~EndsInDot(r)
        /\ \A j \in Ids : vol[j].kind # "free" => vol[j].in # i
        /\ vol' = [vol EXCEPT ![i] = Free]
        /\ UNCHANGED cdir

\* DELE and RMD, which are the same: f_stat(), then f_unlink().
Unlink ==
  \E r \in Sent :
    LET i == Follow(r)
    IN  /\ i \in Ids /\ ~EndsInDot(r)
        /\ \A j \in Ids : vol[j].kind # "free" => vol[j].in # i
        /\ i # cdir
        /\ vol' = [vol EXCEPT ![i] = Free]
        /\ UNCHANGED cdir

\* Mutated form of Rnto: the .. entry stays what it was.
RntoKeepsUp ==
  \E i \in {Follow(r) : r \in {s \in Sent : ~EndsInDot(s)}} \cap Ids, r \in Trimmed :
    /\ r.segs # <<>> /\ Follow(r) = NoFile
    /\ vol' = [vol EXCEPT ![i].in = Within(r), ![i].name = Last(r.segs)]
    /\ UNCHANGED cdir

\* f_rename() of what rn names, trimmed the new name only.
Rnto ==
  \E i \in {Follow(r) : r \in {s \in Sent : ~EndsInDot(s)}} \cap Ids, r \in Trimmed :
    /\ Follow(r) = NoFile
    /\ vol' = [vol EXCEPT ![i] =
         [kind |-> vol[i].kind, in |-> Within(r), name |-> Last(r.segs),
          up |-> IF vol[i].kind = "dir" THEN Within(r) ELSE vol[i].up]]
    /\ UNCHANGED cdir

\* A reset: the volume is mounted again.
Mount == cdir' = Root /\ UNCHANGED vol

Next == Cwd \/ Stor \/ Mkd \/ Unlink \/ Rnto \/ Mount

Spec == Init /\ [][Next]_vars
-----------------------------------------------------------------------------
(* Properties.                                                             *)

\* RNTO moved a directory into itself, and the current one with it.
CutOff(d) == \E S \in SUBSET Ids : d \in S /\ \A i \in S : vol[i].in \in S

\* FR_NOT_ENOUGH_CORE: the names down to the current directory, with a slash each,
\* leave less than two bytes of the buffer.
TooLong == Top.room < 2

\* What PWD answers, followed from wherever the client is, is the current
\* directory; it answers unless the directory was cut off or its path is too
\* long, which a client gets to by names that are relative.  f_getcwd() climbs by
\* .. entries, and looks for each directory in its parent.
PwdLeadsBack ==
  IF GetCwd.ok THEN Follow(GetCwd) = cdir ELSE CutOff(cdir) \/ TooLong

\* A directory has no two entries of one name, though names meet when they are
\* trimmed: MKD asks f_stat() for the name as it was sent.
NamesUnique ==
  \A i, j \in Ids :
    /\ i # j /\ vol[i].kind # "free" /\ vol[j].kind # "free"
    => <<vol[i].in, vol[i].name>> # <<vol[j].in, vol[j].name>>

\* No command removes the directory a client is in, or one with something in it.
TreeHolds == cdir \in Dirs /\ \A i \in Ids : vol[i].in \in Dirs

\* A name of one dot with a legal extension, or of none, is stored as the first
\* BODY characters with that extension, in upper case: what trimFilename() is
\* for.  So STOR, MKD and RNTO see the object of that name, if there is one.
TrimmedIsFound ==
  \A w \in Upto(MAX_PATH - EXT - 1, Letters) \ {<<>>}, e \in Upto(EXT, Letters) :
    LET text == IF e = <<>> THEN w ELSE w \o <<".">> \o e
    IN  Follow(Route(Trim(text))) = Found(cdir, <<Upper(Cut(w, BODY)), Upper(e)>>)
=============================================================================
