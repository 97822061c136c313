# AirMouse, in TLA+

AirMouse is firmware for a TI CC3200 board: an FTP server for an SD card and a
Wi-Fi mouse, as FreeRTOS tasks over the SimpleLink network processor. This
directory models the program in `src/` as `.cproject:33-42` builds it
(`USE_FTP`, `USE_HID`, `SUPPORT_ACTIVE_CONN`, `FTP_AUTH_BYPASS`, `USE_DMA`,
`SL_PLATFORM_MULTI_THREADED`; not `PIPELINED`, `USE_UDMA`, `TEST`,
`USE_MPU6050`), model-checks it with TLC and proves what matters most with TLAPS.

Contents: [inventory](#inventory), [modules](#the-modules),
[runs](#the-runs), [fairness](#fairness), [proofs](#the-proofs),
[disagreements](#where-code-and-comments-disagree),
[not modelled](#what-is-not-modelled), [plan](#plan).

## Inventory

| part | state | operations | interacts by |
|---|---|---|---|
| FTP server task, `ftp/ftp_server.c:10-87` | listening socket, `connfd`, `i` | socket, bind, listen; accept, look for a free slot, fill it or send 421 | fills `socks[]`, which the connection tasks poll |
| FTP connection tasks, `ftp_server.c:88-809` (one in this build) | `connfd`, `datafd`, `isConnOpen`, the last line, `rn` | pick up a client, one handler per command, PASV and PORT, the end of a session | `socks[]`; the storage handlers; sockets |
| FTP storage, `ftp/ftp_storage.c` | a `FIL` or `DIR` per command, all local | RETR, STOR, LIST, DELE, RNFR, RNTO, CWD, PWD, MKD, RMD, `trimFilename` | calls FatFs; sends and receives over `datafd` |
| FatFs, `fatfs/ff.c` (vendored) | the volume, its current directory, the table `Files[]` of open objects; one sector buffer (`win`) through which FAT, directories and ends of files pass | f_open, f_read, f_write, f_close, f_opendir, f_unlink, f_rename, f_mkdir, f_chdir, f_getcwd | calls the disk driver |
| SD driver, `fatfs/diskio.c:974-1679` | `bStatus`, `ulCapClass`, `usRCA` | identify a card, read and write sectors; waits for the controller | commands to the card; called by FatFs |
| SD card (external) | its state, its sectors; which one is in the slot | answers commands; is pulled out and put in | |
| mouse task, `hid/hid.c` | `fd`, `tempfd`, `retVal` | open, accept one client, close the listening socket; request, report | sockets; `sensorRead`, `sensorToReport` |
| mouse input, `hid/sensor.c` | shift registers, `mousePress`, `lastMousePress`, `mouseClick`, offsets | the 8 ms timer interrupt; sensorRead; sensorToReport | `mouseClick` is shared by interrupt and task without a lock |
| link layer task, `app_link.c:56-198, 362-602` | `ucPinValue`, what mode the network processor is in | back to a station; access point or P2P, as a switch says; leave the mode | restarts the network processor; reads `g_ulStatus` |
| SimpleLink event handlers, `app_simpleLink_handlers.c` | `g_ulStatus` | one per event | run in the spawn task, of a higher priority |
| network processor (external) | one table of descriptors for all tasks; its mode, in flash | sockets; events | shared by every task |

Tasks have one priority and are time sliced; there are no locks. What is hard:

* **Descriptors are reused.** A task that closes one twice, or uses one it has
  closed, acts on the socket some task has opened since.
* **A check, then an act.** `socks[i]` is read, and filled later; it is freed
  before the socket is closed; `mouseClick` is copied, and cleared later.
* **Calls that fail half-way** through opening a socket, or a file.
* **State that outlives its owner:** `rn`, `datafd`, the volume's directory,
  entries of `Files[]`, bits of `g_ulStatus`, the mode in flash.
* **Restarts** of the network processor under the other tasks.
* **Power failures and disk errors** between any two sectors of a call that
  must reach the card in the right order; cards that are swapped while mounted.
* **Names that change on the way:** a path is cut by `trimFilename`, split and
  made upper case by FatFs, and looked up once as sent and once as cut.

What makes each part correct: no client is lost, duplicated or mixed up with
another between server and connection task, and no socket is dropped open
(FTP, mouse); what FatFs believes open is what is open, an open file is not
removed or overwritten, a transfer is whole or something failed (storage); no
cluster is in two files, what f_close() has stored is on the card whatever
happens later, a path leads to one object and PWD leads back (FatFs); every
RES_OK is true and only the mounted card is written (SD driver); one
click for one press, in one report (mouse input); the status bits are true, up
to events on the way, and the device starts from any mode (link layer).
`PROJECT.json` lists the hazards one by one, at their lines.

## The modules

| module | of | models |
|---|---|---|
| `SlSockets` | external | the descriptors: what each is (`free`, `fresh`, `bound`, `listen`, `conn`, `fin`, `reset`) and, as history, whose it is to close (`by`; `Orphan` when no variable leads to it) |
| `FtpServer` | `ftp_server.c` | server task and connection tasks, each access to `socks` and each socket call one step |
| `HidTask` | `hid.c` | the mouse task, each call one step, each may fail; `sensorRead` need not end |
| `AirMouse` | `main.c` | `FtpServer` and `HidTask` (both extended: the variables are disjoint but for the table `sock`), and `LinkRestarts`, the link layer's sl_Stop and sl_Start |
| `FtpStorage` | `ftp_storage.c`, lock table and directory operations of `ff.c` | the commands on the volume, each library call or send that can fail one step |
| `FtpPaths` | `trimFilename`; create_name, follow_path, f_chdir and f_getcwd of `ff.c` | which object the text of a command names, over a tree of directories; text is sequences of characters, the limits 8 and 3 constants |
| `FatVolume` | `ff.c` below the names | STOR, DELE, RMD, MKD, RNTO sector by sector: window, FAT, chains, directory tables; a step lies between two disk accesses, each of which may fail or be the last before a power failure |
| `DiskIo` | `diskio.c`, the mount loop above it | one command to the card with its response, or one sector of a data phase, per step; commands that are lost, responses that are lost, resets, swapped cards |
| `BlockDevice` | abstract | what FatFs expects of disk_read() and disk_write(). `DiskIo!IsBlockDevice` says `DiskIo` implements it (`store <- mem[home]`, `attached <- home # NoCard`) |
| `MouseInput` | `sensor.c` | the timer interrupt; `sensorRead`, in two steps when it waits for the other board, and `sensorToReport` in two |
| `Debouncer` | abstract | what the interrupt promises: WIDTH readings in a row make a press, a press makes one click, and an answer that was asked for replaces the clicks there are. `MouseInput!Debounces` says `MouseInput` implements it (`held <- mousePress`, `clicks <- mouseClick`, `asked <- rpc = "uart"`) |
| `LinkLayer` | `app_link.c`, `app_simplelink_config.c`, `app_simpleLink_handlers.c` | the control task label by label, each handler one step, the network processor with its queue of events |
| `MC...` | | symmetry and sets for the small instances |
| `...Proofs` | | theorems |

How state and code correspond. Variables have the names of the code's (`newfd` is
the `connfd` of `ftpServerTask`, `fp` of `FtpStorage` the lock number in a `FIL` or
`DIR`); a `pc` names the statement a task is at; `high`, `due`, `lost`, `by` are
history: no action's guard reads them except for the bound `MAX_LOST`, and in
`FatVolume` for the bound that nothing goes on with a volume left half-renamed, or
with a directory that has an uncleared cluster (`raw`). `FatVolume` has two volumes:
`view`, as `ff.c` sees it through the window, and `card`; what is in the one and not
the other is what a power failure takes away. `home` of `DiskIo` is the card the
volume was mounted from. Commands of the FTP server are classes that treat the
sockets alike; names, files and blocks are model values and counts. Undefined
behaviour is a choice: `line`, `rn` and `retNeg` start with any value, as the
uninitialised `recvline`, `rn` and `retVal` do. `arg` is NULL for a command without
an argument: what the handlers read at address 0 is taken for an argument, or the
access is a hard fault (`fault`), after which nothing moves.

Not a step of its own, because another task cannot tell: calls of a task on
its own socket with nothing in between that others see (the port scan and
`listen` of PASV, a restart seen by tasks that only use sockets).

## The runs

| run | question | instance, bounds | result |
|---|---|---|---|
| `ftp` | Is the hand-off through `socks` safe, and what sockets can a session leave behind? | 1 connection task (the build's `MAX_NUM_TASKS`), all command classes, 4 descriptors: listening, client, PASV listener, transfer | `SlotHandoff`, `NothingElseLeaks` hold |
| `ftp_live` | Does every session end when its client falls silent? | the same, 3 descriptors and no symmetry | `SilentClientsFreeTasks` holds: only a call without a limit, a client that has closed one direction, or a fault keeps a task |
| `ftp_separate` | Are clients handled separately? | as `ftp` | `ClientsSeparate` violated |
| `hid` | Does the mouse lose no socket, and get over a client that has gone, if the other board answers? | 3 descriptors: the task holds two at most | `HidNoLeak`, `GoneMouseIsReplaced` hold |
| `airmouse` | Do `SlotHandoff` (`AirSlotHandoff`), `NothingElseLeaks` and `HidNoLeak` (`AirLeaksNoMore`) survive sharing descriptors, and restarts of the network processor at any time? | 3 descriptors, a table that is often full; commands PORT (opens) and transfer (closes), the end of a session by an error | hold |
| `airmouse_listen` | Does the server go on listening? | the same | `FtpKeepsListening` violated |
| `mouse` | Do the registers debounce, is no click reported twice, while the other board answers late? | both buttons; 3 bits of 8, which tell a bounce, a press and a held button apart | `RegisterCounts`, `NoClickTwice`, `Debounces` hold |
| `link` | From any mode in flash and through resets: station when assumed, bits true, access point starts and yields to the switch? | 3 events on their way: a join, an address, a parting | `AssumedStation`, `StatusIsTrue`, `AccessPointStarts`, `SwitchLeavesAP` hold |
| `storage` | With every call failing: is `Files` exact, do open files stay, are transfers whole? | 2 names, 2 directories, 2 lock entries, 2 opens of an object lost, files of 2 blocks, `WRITE_MODE` 4, above any count of readers here | `CountsOpens`, `OpenFileStays`, `WholeUnlessFault` hold |
| `paths` | Where does a path lead, whatever the tree and the text? | 3 objects; all 3906 paths of 5 characters over two letters that are one in upper case, `.`, `/` and blank; names of 1 + 1 characters for 8 + 3, so that what `Trim` cuts off fits into a path; a buffer of 8 bytes for 128: three short names fit, not two long ones | `PwdLeadsBack`, `NamesUnique`, `TreeHolds`, `TrimmedIsFound` hold |
| `fat` | With a disk error or a power failure at every step: are chains and tables sound, and do closed files stay? | 5 clusters, 2 FAT entries and 1 directory entry in a sector (so directories grow and span clusters), files of 2 blocks, 4 commands, 1 trouble, symmetric names | `CardBehindWindow`, `ChainsSound`, `TablesSound`, `ClosedFilesStay`, `OnlyDeletedIsLost` hold |
| `disk` | Is the driver the block device FatFs expects, when commands or responses are lost and cards come, go and are swapped? | an SDHC, an SDSC and an MMC card, 3 sectors, requests of 2, 2 troubles, 3 swaps | `IsBlockDevice`, `OtherCardsUntouched` hold; `MountsAtLast` and `TransfersReturn` but for the waits without limit they name |

`CHECK_DEADLOCK FALSE` is said for `DiskIo`, whose driver waits for ever when its
card is pulled out in the data phase or a STOP_TRANS fails, and for `FtpServer` and
`AirMouse`: once rejected clients hold every descriptor (below), all tasks are stuck
in accept(), and after a fault the board stands still. With four descriptors a
second client, or a leaked socket, meets the task that serves the first; more
descriptors add more of the same, and the theorems cover every number of them.

Each property of a passing run has a mutant, a plausible slip in a mapped
definition that TLC finds to break it; mutated forms stand before what they mutate.

## Fairness

* `FtpServer`, `HidTask`: weak fairness of each task's own work, outside of calls
  that have no limit. The kernel runs ready tasks of one priority in turn
  (FreeRTOS with time slices); recv() on a control connection has a timeout
  (`CONN_SOCK_TIMEOUT`), and PASV polls accept() `PASV_TRY_TIMES` times. Nothing is
  assumed of send(), which waits while a client that takes no data keeps the
  connection, of the SD driver, of accept() outside of PASV, or of the UART in
  `sensorRead`. The labels where a connection task is in such a call are `Waits`;
  the mouse's `HidSend` is fair when the connection is gone only. No client is
  assumed to send, to close or to reset. `SilentClientsFreeTasks` names every way
  a task may be kept, and `GoneMouseIsReplaced` has what it needs of the other
  board and of the client as its premises (`SensorsAnswer`, `ClosedIsGone`).
* `LinkLayer`: weak fairness of the task and of the handlers, which run in the
  spawn task. `SF(OwnAddress)`: an access point gets its own address though
  events of stations keep the bounded queue full; the bound is the model's.
  No station is assumed to come, go or ask.
* `DiskIo`: weak fairness of the driver's own steps, which run in the one task that
  uses it; troubles and swaps are bounded, so "when nothing fails any more" is a
  state that is reached. No card is assumed to be put in. The waits without limit
  are states with no step of the driver, or one that changes nothing, not steps that
  are assumed to end: `BusyForEver` and `WaitsForEver` name them.
* `MouseInput`, `FtpStorage`, `FtpPaths` and `FatVolume` state safety only.

## The proofs

`tlapm` proves the following for every value of the constants, under the
assumptions the modules name (`DescAssumption`, `OwnerAssumption`,
`TasksAssumption`, `CommandsAssumption`, `HidAssumption`, `HidApart`,
`PathsAssumption`, `WidthAssumption`, `VolumeAssumption`, `EventsAssumption`,
`FatAssumption`, `DiskAssumption`); TLC evaluates those on each run.

* `AirMouseProofs`: lemmas say what each operation on the table of descriptors
  preserves and whose sockets it changes; all proofs about tasks cite them. First
  the FTP server alone: `TypeOK /\ SlotHandoff` is inductive. Neither is by itself:
  `SrvAssign` gives a socket to owner `i`, a task only because `SlotHandoff`
  says `i` is a slot. `NothingElseLeaks` follows with it: each step gives a
  task one new socket at most, in a variable it can reach, and overwrites a
  variable only after closing, passing on or counting what it named. So the
  hand-off is safe for any number of tasks and descriptors, although tasks do
  close each other's sockets. Then the mouse task (`HidTypeOK /\ HidNoLeak`;
  `HidHolds` lists what is reachable at each label, and is what makes it
  inductive), and both programs on one table with restarts at any time:
  `AirTypeOK`, `AirSlotHandoff` and `AirLeaksNoMore`. Each program's invariant
  bounds from above what it has open: it speaks of the sockets that have this
  program as their owner. So it survives whatever the others do, closing its
  sockets included, as long as no step of one program makes sockets of another
  (`HidKeeps`, `FtpOwnsOnly`).
* `MouseInputProofs`: `TypeOK /\ RegisterCounts` for registers of any width:
  the code tests only for all ones, the invariant needs every prefix of the
  register. From it, `Debounces` step by step: initial states map to initial
  states, each step to a step or a stutter; the wait for the other board is a step
  that asks and one that answers, with the interrupt and the switch in between.
  `NoClickTwice` is inductive.
* `LinkLayerProofs`: `TypeOK`, `StatusIsTrue` and `ModeInv` (what the task may
  rely on at each label: the mode in flash, the role, whether the processor
  runs). `Upcoming` is a bit as it will be when every event is handled; two
  lemmas say one more event decides its own bits only, and that handling one
  changes nothing of what is to come.
* `FtpStorageProofs`: `TypeOK`, `CountsOpens`, `HandlerHolds` (a handler's
  `fp` is an entry of the object it opened, in the mode it opened it in) and
  `BlocksMoved` (what has been sent or written so far). `OpenFileStays` and
  `WholeUnlessFault` follow as action properties.
* `FtpPathsProofs`: all five invariants of `FtpPaths`, for every tree, every name
  and names of any length. What a recursive function computes rests on two lemmas,
  that a function with its equations exists and that there is one only; both follow
  from `NatSetInduction`, which says of a set of numbers what is usually said of a
  predicate, and so needs no operator parameter. `Inv` is `TypeOK`, `TreeHolds`,
  `NamesUnique`, and that `..` of a directory is its parent and every object has a
  name (`UpIsIn`, `Named`). `PwdLeadsBack`: each step of f_getcwd() keeps that the
  names it has, followed from where it is, lead back to the current directory
  (`Climbed`; a name found in its parent is the object itself, because names are
  unique), and that it goes on just while two bytes of the buffer are left. A climb
  of as many steps as there are objects has come to the root, or twice to one
  directory, and then goes round in a part that RNTO has cut off. So an answer is
  true, and none is given only there or when the path does not fit (`TooLong`).
  `TrimmedIsFound`: what `Trim` leaves of a name of one dot splits into the name and
  extension it is stored under.
* `FatVolumeProofs`: `TypeOK`, from what a call has in its locals at each step
  (`StorTyped`, `OtherTyped`, `StepTyped`) and what it knows of the entry it has
  found or opened (`EntryTyped`): f_open() has emptied a file, never a directory, so
  that no directory loses its table. And `CardBehindWindow`, for volumes, sectors
  and directories of any size: at every step, errors and power failures included,
  view and card differ in the one sector of the window at most, and only if `wflag`
  says so. Its invariant needs no types of a call's locals, only that a step which
  changes a sector has it in the window; `FoundInWindow` says so for the one step
  that does not ask for it (f_open() on what dir_find() found). A whole sector goes
  past the window (`StorWhole`); that the sector is a data sector and no sector of
  the FAT is what keeps the window true there. The second half of the module is what
  `FatSoundProofs` needs to know of one volume, or of two, before and after a step.
  `Chain` and `Dirs` are recursive functions; the lemmas say of them what is needed
  without the recursion: a chain is the least set that has its head and all that its
  links lead to (`ChainIs`, `ChainLeast`), two chains whose heads no link leads to
  have no cluster in common (`ChainsApart`), the directories are the root and all
  that entries of directories lead to (`DirsAre`, `DirsWithin`). That recursion ends
  rests on a set that grows in stages within a finite one (`StagesEnd`). `Whole(m,
  X, r)` says what makes a volume `m` sound, but for the cluster in `X` that a
  rename has under two names and the clusters in `r` not cleared yet. The lemmas on
  steps (`TakeGrows`, `LinkGrows`, `FreeGrows`, `DataGrows`, `EntryWhole` and
  others) say when a volume stays whole, with its directories and its closed files,
  when one link, one sector or one entry changes.
* `FatSoundProofs`: `ChainsSound`, `TablesSound`, `ClosedFilesStay` and
  `OnlyDeletedIsLost`, for volumes of any size, any files, any number of
  commands, errors and power failures. None is inductive, because what a step may
  do depends on what the call has found out. `Held` has four parts.
  `Known` says for each step what the call knows: the name is not in the
  sectors it has looked through, a cluster that is taken is the head of a chain no
  entry leads to, how many blocks of the text are written, the directory to be
  removed is empty so far, the entry of the old name is still the one found.
  `Sure(view)` and `Sure(card)` say that both volumes are whole and hold the
  files that were closed; the card needs its own, since a power failure makes
  it the view. `FreeApart` ties the two: what is free in the FAT that `ff.c` sees is
  used by nothing on the card. Without it a cluster of an old file that is
  freed and taken again could be written while the card still leads to it; it is
  why f_open() sets the entry, and the window is flushed, before the chain is
  freed. After a failure has left a moved file or directory under both names
  (`crossed`), nothing goes on with the volume and less is said of it. A cluster that
  a directory was given and that a failure left uncleared (`raw`) holds arbitrary
  bytes: `WithoutRaw` takes what it reads as out of a volume before `ChainsSound`
  and `TablesSound` speak of it. That the model gives such a sector no entries
  decides nothing else: no call reads it, because no call begins on such a volume,
  and the second part of `TablesSound` says that no call reads the entries of any
  sector that is no table.
  `Owned` is for `OnlyDeletedIsLost`: while nothing has failed, a taken cluster is in
  a chain that an entry leads to, or was in a deleted file, or is in the hands of the
  call (`InHand`: the chain of the file being written or of the directory being
  made, the cluster about to be linked, the chain being freed).
* `DiskIoProofs`: the types; that no card but `home` is written; and
  `Spec => IsBlockDevice`, each step of the driver a step of `BlockDevice` or a
  stutter. The invariant ties card state, `bStatus` and `fs_type` together: a
  card in state `tran` or in a transfer is `home`, because a card that is put in starts in
  `idle` and nothing selects it again before a reset.

Only model-checked is liveness: `SilentClientsFreeTasks`, `GoneMouseIsReplaced`,
`AccessPointStarts`, `SwitchLeavesAP`, `MountsAtLast` and
`TransfersReturn` (TLAPS proves neither liveness under fairness nor ENABLED). Every
invariant and every action property of the passing runs is proved. The violated
properties need no proof: TLC shows a run. The lemmas on recursive functions stand
in `FtpPathsProofs` and in `FatVolumeProofs`, two modules that have nothing else in
common.

## Where code and comments disagree

Two have a run that shows the sequence (`findings` in `PROJECT.json`):

1. `ftp_separate`: recv() fails, connfd is closed (`ftp_server.c:143`), the slot
   is given back (325), a new client gets descriptor and slot, and line 326
   closes *its* connection. `ftp_server.h:150-151`: "handle each client separately".
2. `airmouse_listen`: after a restart of the network processor nobody listens
   on port 21 again. `ftp_server.c:67`: "continue listening".

Seen while modelling, in the models, and without a run of their own:

* A client turned away with 421 is never closed (`ftp_server.c:76`, against
  "closing control connection", `ftp_server.h:91`). `NothingElseLeaks` counts
  it as one of the two leaks; the other is a second PASV or PORT (616) over an
  open `datafd`.
* `isConnOpen` says "1 for data connection is open" (110), but DELE, RNFR, RNTO, MKD
  and RMD close `datafd` and leave it 1 (491). PASV, DELE, then RETR: the
  transfer uses a closed descriptor, or another client's.
* `datafd` keeps its value after a transfer; with `FTP_AUTH_BYPASS` the next
  RETR without PASV uses it (185), as does the close at the end (327).
* `rn` outlives sessions and starts uninitialised (`ftp_server.c:106`): RNTO
  without RNFR (509) renames what another client named; `ftp_server.h:90` has "350
  ... pending further information", but nothing remembers whether it is pending.
* STOR answers 226 before f_close(), and though the volume is full (f_write()
  returns FR_OK with fewer bytes), f_write() or recv() failed
  (`ftp_storage.c:222-276`). RETR takes EAGAIN for no error (119), but the loop
  ends on it and the client gets 226 for part of a file (113, 123).
* recv() returning 0 is not looked for (`ftp_server.c:136-147`): `recvline[n-2] = 0`
  writes before the array, and the verb of the last command is run again, now with
  arg NULL, for strtok() has put an end after it (151-153). A bare "RETR" has the
  same effect. Most handlers follow arg (375-606), down to `trimFilename(NULL)`
  (`ftp_storage.c:21`). The byte written is of a text or an upper byte of a
  neighbouring local, and no descriptor of the model changes by it. A client that
  closes its end and stays, with a verb that sends nothing it refuses, keeps its
  task at this for good.
* send() has no timeout (only SO_RCVTIMEO is set): a client that does not read
  keeps its task in RETR or LIST (`ftp_storage.c:118`, 383) as long as it likes.
* RETR and LIST whose 150 cannot be sent return without closing
  (`ftp_storage.c:107`, 370), STOR calls the C library's fclose() instead (214).
  `CountsOpens` counts these opens; with the build's one entry of `Files` no
  file can be opened again until a reset.
* `retVal = bind(...) < 0` (`hid.c:96`) leaves 1, and `while(retVal < 0)` ends
  with the socket closed, against "retry until success" (86).
* With the other board selected, `sensorRead` waits for 0xFF without limit
  (`sensor.c:139`). If the switch is turned meanwhile the interrupt counts clicks
  here, and the answer overwrites them (144).
* A click between the copy (`sensor.c:176`) and the clear (180) is lost, against
  "cleared by host" (245).
* The cut of `trimFilename` is of the whole path: "longdir1/file.txt" is stored as
  LONGDIR1.TXT in the current directory. A short name with a long extension
  is refused with 451. Two long names that begin alike are one file. RETR, DELE
  and RNFR do not cut, so a file stored under a long name is not found
  under it; MKD answers 257 with the name as sent (`ftp_storage.c:453`), which may not
  exist. A blank ends a name: "my file.txt" is MY. The code page is
  932, and the cut may fall into a character of two bytes.
* RNTO can move a directory into itself (`ff.c:3684` asks only whether the new name
  is free): it is cut off from the root with all in it. With the current
  directory in it PWD has no answer. `PwdLeadsBack` and `CutOff` exempt this.
* Relative MKD and CWD nest deeper than the 128 bytes PWD has for a path:
  f_getcwd() returns FR_NOT_ENOUGH_CORE (`ff.c:2984`), nobody looks at it, and the
  reply is 257 "" (`ftp_storage.c:402-404`). `PwdLeadsBack` says so (`TooLong`).
* DELE frees no clusters: f_unlink() sets `dclst` for a directory only, so
  "Remove the cluster chain if exist" (`ff.c:3516`) never applies to a file, and every
  DELE makes the volume smaller. `OnlyDeletedIsLost` says nothing else does.
* A directory grows by linking a cluster before it is cleared (`ff.c:1222`, 1232): a
  power failure in between leaves old data as entries (`raw`), which lead to any
  clusters at all. `ChainsSound` and `TablesSound` exempt what is read out of it.
* An aborted STOR over a file leaves an entry whose start is 0, or on an error
  of f_close() one that does not tell of the clusters written.
* CardSelect() fails after `bStatus = 0` was set (`diskio.c:1299`): "Returns 0 on
  succeeded" (1234), and no later call identifies the card. `MountsAtLast`
  exempts this state, and the ACMD41 loop without limit (1279-1292) of three states:
  an SDHC card that was asked without HCS or has not seen CMD8, which stays busy,
  and a card that became ready while its response was lost, which answers ACMD41 no
  more.
* STOP_TRANS can fail, its result is dropped, and the wait for TC that follows
  (1486, 1617) has nothing to end it, since the command cleared the bit (1087): the
  driver hangs with the card in (`hung`). If the response to a transfer command is
  lost the card is left in a transfer nobody ends, and refuses what comes next.
* A card that is pulled out and put in again is not identified again; every access
  fails until a reset (which is what `OtherCardsUntouched` rests on).
* An open directory can be removed: f_opendir() registers it under its own
  first cluster (`ff.c:3205-3212`), f_unlink() asks for the place of its name (3485).
* Nothing clears the bits of a P2P request and of a failed connection: after the
  first, `WlanConnect` does not wait for a request (`app_link.c:395-402`) and
  gives up at once after a failure (417).
* `P2PConfiguration` stops and starts the network processor without clearing
  `g_ulStatus` (550), where the restarts of `StartDeviceInP2P` (482) and
  `ConfigureMode` (599) do: events from before it are taken for events after.

## What is not modelled

* Text: parsing of command lines, the PORT address, replies, listings; characters
  of two bytes and those FatFs refuses (`FtpPaths` has the rest of a path).
* FAT12 and FAT16, FSINFO, the second FAT, clusters of several sectors and the
  reading of files (f_read, f_lseek); long names are off in this build. The
  FR_INT_ERR returns of `ff.c`: the deadlock check of `fat` shows that the
  values they test for do not occur.
* Data of the SD card that arrives other than it was sent: the driver looks at no
  CRC error of the data phase, so it takes what comes for true or waits.
* The DMA half of `diskio.c` (`USE_UDMA`); the bytes of the UART protocol, sent by
  a board that is not in the repository; accelerometer values.
* `P2PManagerTask` and `APTask` (`app_link.c:199-361`), which are created
  nowhere; the `PIPELINED` and `USE_UDMA` halves, which are not built, and
  `FreeRTOS/event_groups.c`, which only they use.
* Board drivers, startup code, code pages: I/O, or tables.

So the models cover a small share of the lines of the repository. Half of those
lines, `ffunicode.c` (15,626), are tables that `_USE_LFN 0` leaves out of the build;
of the rest, the SDK's interface files, the vendored kernel file and the halves of
conditional code that `.cproject` turns off hold no behaviour of the program.

## Plan

The order so far: sockets, FTP server, mouse task, their composition, mouse
input, link layer, storage, the volume below it, the SD driver, paths. What is
left, the most valuable first:

1. The hand-off as an abstract specification (a client is waiting, served or
   turned away), and `FtpServer` shown to implement it, by TLC and then by proof.
2. The framing of the UART bytes: 0xFF as a mark and as data.
3. P2P mode's bits stated as far as the code keeps them.

A new run takes the place of one it makes superfluous: one run asks several
properties of one instance.
