# TecnicoFS and its message broker in TLA+

The repository holds two exercises in C. `Exercise1/` is TecnicoFS, a file
system in memory that concurrent threads call as a library. `Exercise2/` is a
message broker (publish and subscribe) built on a simpler version of that file
system, on a bounded producer-consumer queue and on named pipes. This directory
models their concurrency in TLA+, checks the models with TLC and proves the most
important invariants with TLAPS.

## The system

| Part | Source | State | Operations | Interacts with |
|---|---|---|---|---|
| TecnicoFS, part 1 | `Exercise1/fs` | inode table with a rwlock per inode, free maps, the root directory's entries, data blocks, open file table with a mutex per entry | `tfs_open`, `tfs_link`, `tfs_sym_link`, `tfs_unlink`, `tfs_close`, `tfs_read`, `tfs_write`, `tfs_copy_from_external_fs`, `tfs_init`, `tfs_destroy` | its callers, any number of threads |
| Producer-consumer queue | `Exercise2/producer-consumer` | ring of pointers, head, tail, size; a mutex and a condition variable per side | `pcq_create`, `pcq_enqueue`, `pcq_dequeue`, `pcq_destroy` | register loop (producer), workers (consumers) |
| MBroker | `Exercise2/mbroker` | `boxes[]`: name, taken, counts of publishers and subscribers, size; three mutexes and a condition variable per box | `create_box`, `remove_box`, `list_boxes`, `register_publisher`, `register_subscriber`, the register loop, the handler of SIGINT | queue, TecnicoFS part 2, pipes of the clients |
| TecnicoFS, part 2 | `Exercise2/fs` | the tables of part 1, no links, one mutex around every call | `tfs_open`, `tfs_unlink`, `tfs_close`, `tfs_read`, `tfs_write` | workers of the broker |
| Clients | `Exercise2/manager`, `publisher`, `subscriber` | a session each; what a subscriber has counted, what a manager lists | send a request on the register pipe, read or write their own pipe, sort a listing, count lines | the broker |
| Tests | `Exercise1/tests` | | 20 programs | TecnicoFS part 1 |
| Utilities | `Exercise2/utils`, `structs` | | logging, assertions, message layouts | all |

### What is hard, and what makes each part correct

*TecnicoFS, part 1.* The root inode's lock serialises the directory and the
inode table, but the open file table and the block table have locks of their
own, taken and released for every slot a scan looks at; some scans take none
(`is_file_open`). `tfs_open` gives the root lock up before the file is in the
open file table. A handle may be shared by threads, and closed while another
uses it. Correct means: each return path releases what it took; link counts and
directory entries agree; `tfs_unlink` frees an inode once, with its last name,
and never under an open handle; blocks and handles are owned by one file and
one caller; offsets stay in the file; no assertion fails; a copy from the host
says it succeeded only when it did, and keeps nothing open.

*The queue.* The two sides use different mutexes, so `pcq_current_size` is
updated by both at once, and signals are sent without the mutex of the thread
that waits. Correct means: FIFO, nothing lost or taken twice, never more than
the capacity, nobody sleeps when there is something to do.

*The broker.* `boxes_mutex` protects the search of the array and nothing that
follows it; boxes are removed, and their mutexes destroyed, while sessions use
them; a subscriber's wait and a publisher's broadcast use different mutexes; an
idle subscriber keeps its worker. Correct means: a name is one box, a box has
at most one publisher, the counts are the sessions that run, a box is a log that
only grows, a subscriber gets it in order and does not sleep on a message, a
listing shows every box once, requests are served.

The `hazards` of `PROJECT.json` list each of these at its line, with the
properties that are about it.

## Modules

### TFS: TecnicoFS of `Exercise1/fs`

`TFS.tla` models the seven calls on files. A thread's call is a sequence of
steps; `pc` is where it is and `loc` its local variables. A step runs from the
acquisition of a lock, or a point where others can interfere, to the next such
point:

* `tfs_open`, `tfs_link`, `tfs_sym_link` and `tfs_unlink` begin by taking the
  root inode's lock for writing (`EnterRoot`). Everything they do to the
  directory and to the inode table is done with that lock, so one step covers
  it, together with the locks of inodes that are taken and released inside.
  They are split where another thread can come in between: `OpenLink` releases
  both locks before `OpenFollow` reads `sym_path` again and `OpenAgain` starts
  the recursive call; `OpenExisting` and `OpenCreate` release the root before
  the file is entered in the open file table; `UnlinkLast` locks the inode and
  `UnlinkScan` looks at one open file entry at a time, with no lock of that
  table; `UnlinkDelete` is what follows once the inode is unlocked.
* `add_to_open_file_table` and `data_block_alloc` take their table's mutex for
  each slot: one slot per step (`OpenAddTake`, `OpenAddNext`, `WriteAlloc`).
* `tfs_close`, `tfs_read` and `tfs_write` begin with `get_open_file_entry`
  (`EnterFile`): lock the entry's mutex, then look whether the entry is taken.
  A destroyed mutex, or a free entry (which the code answers by unlocking a
  mutex through NULL), ends the process: `failed`.
* `remove_from_open_file_table` unlocks the entry's mutex before it destroys it
  (`CloseUnlock`, `CloseDestroy`); destruction of a locked mutex fails the
  assertion.

Inodes, blocks and handles are numbers, as in the code, and the first free one
is taken. The contents of files are left out; sizes, offsets and blocks are
kept, with `size_t` arithmetic modulo `SizeT`. A path is a model value of one of
three kinds: names that fit in an entry, names `valid_pathname` accepts and
`add_dir_entry` refuses, and names `valid_pathname` refuses. `memcpy` beyond
what the caller gave, an index outside a table, a failed assertion: the process
ends. `mine` is not in the program: it records which handles callers may use.

Two steps are undefined in the code and have both outcomes here, since builds
differ: the process ends, or it goes on. `SymLink` copies the target into
`strlen(target)` bytes with its terminator (`operations.c:224`). `OpenFollow` calls
`tfs_open` again (`operations.c:117`): links that were unlinked and made again can
form a cycle, and after `StackDepth` calls the stack may be full; a build that makes
the call a jump follows the cycle for ever. What the extra byte may overwrite is not
modelled: a process that goes on does so undamaged.

`NameSpace.tla` is what the calls promise of names, with no table and no lock: a
call adds or removes one entry, and a file is gone with its last one. `TFS` maps to
it (`NamesOf`) by counting the directory's entries of each name and file. A name
may have several entries there, because the tests for an existing name in
`tfs_link` and `tfs_sym_link` never hold.

### TFSCopy: `tfs_copy_from_external_fs`

`TFSCopy.tla` extends `TFS` with copies: a thread that copies starts the calls of
`TFS` one after another, with the arguments the function passes (`CopyOpen`,
`CopyWrite` once per turn of the loop, `CopyClose`), and `Returned` says what it does
with the result of each. The steps in between are those of `TFS`, interleaved with
the other threads'. `copy` is the function's locals and `streams` counts the `FILE`s
a thread has open, which a failed `tfs_open` leaves open.

### PCQueue and BoundedQueue: `Exercise2/producer-consumer`

`PCQueue.tla` models `pcq_enqueue` and `pcq_dequeue` by the same steps for a
thread of either side: lock, test, wait, put or take, load and store of the size,
signal and unlock. `++` and `--` on the shared size are a load and a store with
anything in between, as the unsynchronised accesses compile to on the platforms
of the course; all other accesses are taken in program order. `raced` is not in
the program: it records that a store has undone another thread's.
`BoundedQueue.tla` is what the header promises, a bounded FIFO queue, and
`PCQueue` maps to it by `Contents`, the elements put and not taken, computed
from head, size and the updates under way.

### GlobalFS and MBroker: `Exercise2/fs` and `Exercise2/mbroker`

`GlobalFS.tla` is the file system of the broker. Every call holds
`g_library_mutex` from beginning to end, so a call is one step: an operator with
the returned value as its last parameter, built from the functions of `state.c`
(`inode_create`, `add_dir_entry`, `add_to_open_file_table`, ...). The directory is a function from names
to inumbers, since this version has no links. What is kept of its weaknesses:
`tfs_unlink` deletes a file that is open, `tfs_read` subtracts in `size_t`, and a
file whose handle does not fit in the open file table stays created.

`MBroker.tla` extends it with the broker. The queue between the main thread and
the workers is `BoundedQueue`, the abstraction that `PCQueue` implements as long
as no update of its size is lost. A worker takes a request (`Begin`), searches
(`EmptySpot` and `FindBox`, one spot per step with `boxes_mutex` held; `Found`
takes the box's mutex after giving that one up), and then

* creates: `CreateExists`, or `CreateFile`, then the three writes to the spot
  that others can see (`CreateTaken`, `CreateName`, `CreateBox`, the last with the
  initialisation of the mutexes), `CreateClose` and `Reply`;
* removes: `RemoveFile` first, then the search, `RemoveUnlock`, `RemoveWake` (the
  broadcast), `RemoveDestroy` (the mutexes), `RemoveCond` and `Reply`; when the search
  fails the code writes `boxes[-1]`: `FindNothing`. `RemoveCond` is
  `pthread_cond_destroy`, which waits for the threads that sleep on the variable: those
  that began to after the broadcast;
* publishes: `PubCount`, `PubOpen`, `PubLock`, then `PubRead`, `PubWrite`,
  `PubSignal` for what the pipe holds, until read returns 0 (`PubClose`,
  `PubUncount`) or a write is short (`PubClose`, `PubMiscount`, which decrements the
  other count as the code does);
* subscribes: `SubCount`, `SubOpen`, `SubLock`, then `SubRead`, `SubSend`, `SubWait`;
  the session never ends by itself;
* lists: `ListSpot` copies a box to its own place in the reply, `ListReply` sends it
  and the manager prints it.

A mutex is a thread, `NoThread`, or `NoMutex` once destroyed; locking and unlocking
a destroyed mutex do nothing, which is what glibc does and the broker does not
notice. `pthread_mutex_unlock` on another thread's mutex, which `remove_box`
calls, releases it. A thread asleep on a condition variable that `create_box`
initialises again is stranded, and a `RemoveCond` that waits for it goes on: whether
glibc's would is left open, and no run has a creation beside a removal. The clients are nondeterministic: a client may
register, write up to `MaxMessages` messages, and leave at any point; opening a
pipe waits for its client. A message is one cell of a file: who sent it, its
number, and whether it still ends in a zero or in the newline that `PubRead` makes
of the first zero of a read. `Text` gives each message one of three kinds: a line with
some text, an empty line, of which the publisher sends the terminator only
(`pub.c:33`), and a text that begins as a refusal does. A subscriber (`Receive`) reads
all that is there, up to its buffer, prints up to the first zero and counts the lines
that have a text (`LinesIn`), as `strtok` does. When the first message it
reads looks like a refusal it ends (`ReceiveError`). The broker ends (`failed`) at SIGINT (`sig_handler`), at SIGPIPE, when the register pipe is reopened before a client has
closed it (`RegisterEnds`), at an index outside the array, and, as one of two
outcomes, when `strlen` runs on a buffer without a terminator.

`BoxListing.tla` is the manager's side of a listing, as operators: the pairs its two
loops compare, the exchange of two boxes, the fold of one over the other, and what
is printed. `BoxLog.tla` is what the broker promises of a box, a log that
publishers add to and subscribers get from its beginning; `MBroker` maps to it
by `FileCells`, the file of the box, and `got`, what each subscriber was sent.

### Instances and proofs

`MCTFS`, `MCTFSCopy`, `MCPCQueue` and `MCMBroker` define the workloads and symmetries
of the runs. `TFSProofs`, `TFSHandleProofs` and
`TFSNameProofs` (each extends the one before), `TFSCopyProofs` (on `TFSHandleProofs`), `PCQueueProofs`, and `MBrokerProofs`
with `MBrokerLogProofs` and `MBrokerListProofs`, which extend it, hold the theorems. Operators marked *Mutant* in a comment are
plausible bugs, not part of any specification: replacing the definition they
name by them makes the property paired with them in `PROJECT.json` fail.

## Runs

| Run | Question | Instance |
|---|---|---|
| `TFS_namespace` | Do concurrent opens, links and unlinks keep root exclusion, link counts and the directory right, and implement `NameSpace`? Does anything but a symbolic link end the process? | 2 threads, 2 names, one overlong, one invalid, 3 inodes, 3 entries, 1 handle, stack for 1 link |
| `TFS_data` | When callers pass any handle, closed or in use: are entries owned, transfers inside the file? | 2 threads, 1 file, truncated too, 1 free block of 2 cells, 2 handles, lengths 0, 1, 3 |
| `TFS_private` | With names of their own, do threads disturb each other through the tables, the block table too, which both scan while the other frees blocks? Is a copy exact, and does it give back what it took? | 2 threads, 1 name each, copies of 2 and 3 cells in pieces of 1, blocks of 2, 1 free block, 2 handles |
| `TFS_progress` | Is the root lock always given up? | 2 threads, weak fairness |
| `TFS_unlink_open` | violated: an open file is never deleted | 2 threads, 1 name |
| `TFS_truncated` | violated: no transfer passes the end of the file | 2 threads, 1 name, 2 handles |
| `PCQ_ring` | Is the ring a bounded FIFO, and its size in range? | 2 producers, 2 consumers, 2 cells |
| `PCQ_lost_wakeup` | violated: a producer does not sleep while there is space | 1 and 1, 1 cell |
| `MB_sessions` | One publisher at a time, counts and handles right, an append-only log, an ordered stream, lines counted? | 3 workers, 2 publishers, 1 subscriber, box of 3 cells, 2 messages each, one of them empty, one like a refusal |
| `MB_boxes` | Do boxes, files and listings agree, do workers get every mutex, when boxes are removed in use? What can a removal wait for? Does a publisher keep its file when the other box is removed? | 2 workers, 2 boxes, 8 managers in a row, a publisher of one box, a subscriber of the other, 1 handle |
| `MB_lost_broadcast` | violated: a waiting subscriber hears of a message | 2 workers, 1 publisher, 1 subscriber |
| `MB_two_creates` | violated: one box per name | 2 workers, 2 managers |

The five violations are disagreements between the code and what its comments,
messages and headers say; the `findings` of `PROJECT.json` quote both. Other
disagreements met while modelling, which no run is about:

* `tfs_link` and `tfs_sym_link` test for an existing name with
  `tfs_lookup(...) == 0`, which is never true, under "Checks if this link already
  exists" (`operations.c:182`, `:247`): a name can have several entries.
* `tfs_sym_link` returns 0 when the entry did not fit (`operations.c:233-240`), and
  its inode is lost.
* `pcq_current_size_lock` is declared and never used.
* A short write decrements `n_subscribers` under "Decreases the number of
  publishers" (`mbroker.c:464`).
* "Sets last character to \n" (`mbroker.c:443`) sets the first zero of what was read:
  of two messages read at once the second keeps its zero, and a subscriber that
  reads both prints and counts the first only (`LinesKept`, `AllCounted` say what
  remains true).
* "Sends a list of taken boxes" (`mbroker.c:128`): after a removal the array has a
  hole, and the manager prints the first places, not the boxes (`ListingComplete`
  is stated for arrays without holes).
* A removal under a subscriber that begins to wait after the broadcast
  (`mbroker.c:198`) stays in `pthread_cond_destroy` (`:202`) and its manager gets no
  answer (`ManagersAnswered` excludes this wait, and says there is no other).
* `create_box` sets `n_subscribers` to 0 after the box can be found (`mbroker.c:259`),
  so a session that has begun may not be counted (`CountsKept` is an upper bound for
  subscribers).

**Bounds.** The hazards are between two threads and two objects of a kind; a
third thread would wait on the same locks. Tables are small enough to fill: the
inode table, the directory, the open file table and the block table all run
full in some run, which is where the error paths are. `BLOCK_SIZE` is counted
in cells, so that a write can stop short, at, and past the end of a block.
`MaxOffset` bounds the offset from which a transfer may start (offsets grow
without bound only after a wrapped read); the sources of the copies are a file
that fits in a block and one that does not, and the last block may go to the other
thread in the middle of a copy; `SizeT` is larger than any sum that
does not wrap in the code. The queue of 2 cells has empty, partial and full
states and makes the indices wrap. In the broker three workers are a publisher,
a subscriber and one more request; two spots let a spot be reused while
another is used; files of three cells fill up, which ends a session with a short
write; one handle in `MB_boxes` makes `create_box` fail after it has created the
file. The listing runs on arrays of two spots; the sort is checked, when a manager
prints, on every reply of up to three boxes with three names (`ListingSorted`), of
which the reply at hand is one. Managers
come one after another in the passing runs, because two at once
break `BoxesBacked` (`MB_two_creates`); no box that has a session is removed in
`MB_sessions`, because `remove_box` promises its sessions nothing. In `MB_boxes`, while
one box has a publisher, the other is created, which fails when the publisher has the
only handle, may get a subscriber, and is removed, with the subscriber at any point of
its session: `OthersUndisturbed` is about the time until then, and `SessionsApart` fails
after it. The removal is the last request, so a spot that a session has found is not made
again under it (`mbroker.c:96`); a write never fails for want of a block in the runs
(`mbroker.c:447` adds -1 to the size then), and of that `BoxLoggedCorrect` speaks.

**Callers.** `HandleUse` says which handles are passed: those the thread opened
and has not closed (`TFS_namespace`, `TFS_private`, `TFS_progress`), or any handle
(`TFS_data`), which covers the threads on one handle of the tests
`thread_tfs_write_same_fd.c` and `thread_tfs_read_same_fd.c` and goes further: closed
handles, and handles closed while another thread is in a transfer. The process
may then end at an assertion, so `TFS_data` checks what holds until it does, and
`NoFailure` and `HandlesOwned` are checked where callers behave. Symbolic links may
end it whoever calls: `TFS_private` makes none, and `TFS_namespace`, which does, checks
`OnlyLinksFail`, that nothing but the two steps named above ends it. A truncation under an
open handle breaks `TransferWithinFile` (`TFS_truncated`); `TransferFromWithin` is what
remains true with it. `OpenHandleLive` holds for private names only
(`TFS_unlink_open`). `TFS_data` makes no `tfs_unlink`: the block of a file deleted under an
open handle can be written after it was freed.

**Fairness.** `FairSpec` assumes weak fairness of `Continue(t)`: a thread whose call
has begun is scheduled again. Starting a call is the caller's choice and not
fair; nor are spurious wakeups. In `MBroker` it is weak fairness of each worker's steps, for the
same reason; clients are not fair: one that never writes and never leaves is allowed,
and `PublisherLeaves` and `ManagersAnswered` are stated for the clients that do.
`TFS_progress` makes no `tfs_close` and no `tfs_read`: rwlocks
and mutexes promise no turn to a thread that waits, and a run of writes on one
inode that each fail for want of a block could keep that inode's lock from the thread that
holds the root. With handles that stay live and blocks enough for the files, a
file's lock is busy only while it gets its first block.

## Proofs

TLAPS checks these for every number of threads, names and table sizes allowed
by the `ASSUME`s of the modules (names of the three kinds are disjoint, the
tables are not empty, `BLOCK_SIZE <= MaxOffset < SizeT`, the sentinels are not
threads; for the copies, `SIZE_OF_BUFFER > 0` and a transfer of the buffer at the end of
a block stays within `MaxOffset`; for the queue, the sides are disjoint and `Capacity < SizeT`;
for the broker, the tables and buffers are not empty, and `strcmp` finds no two names equal).

1. `TypeCorrect`: `TypeOK` is inductive alone. The part that is not about types
   is that an inode with contents has a block, which needs that a write stores
   the block before the size and that truncation resets the size.
2. `LockInvCorrect`: `RootExclusive` and `EntryHeld` are not inductive. A root lock
   could be reset by `inode_create`, or released as a file's lock, if inode 0 could be
   free or be opened: `RootKept` says it cannot. An entry could be freed under
   its user by a close that is between unlock and destroy: `CloseHeld` says who
   holds the table's mutex then, and that the entry is still taken. The
   conjunction `LockInv` is inductive given `TypeOK`, one lemma per part.
   `RootExclusiveCorrect` and `EntryHeldCorrect` follow, the second for callers
   that pass any handle whatever.
3. `LinkInvCorrect`: `LinkCountExact` needs that an unlink clears the entry it
   looked up (`UnlinkPinned`), which needs that an empty entry has an empty name
   and the reverse (`NamesInv`), because `clear_dir_entry` compares names only;
   and `UnlinkPinned` needs `RootExclusive`, so that nobody else changes the
   directory between the lookup and the deletion. Cardinalities of the sets of
   entries change by one in `SlotsAdded` and `SlotsCleared`.
4. `CopyImplementsTFS`: every step of a copy is a step of `TFS` or changes none of its
   variables, so `CopySpec => Spec`. What a copy passes has to be what a caller may
   pass: a length of a piece that is in `Lens` (`BytesRead`), a handle of the table
   (`CopyFileCalls`). These need the types of the copies, which need those of `TFS`
   after the step (`ReturnedType`), so `TypeOK /\ CopyTypeOK` is the inductive invariant.
   `CopyLinkCount` and `CopyNoFailure` are `LinkCountCorrect` and `NoFailureCorrect`
   carried over by it, the second for callers that make no symbolic links, as the other
   theorems of `TFS` can be.
5. `SizeCorrect`: with the size updated under two mutexes, what keeps it within
   `0 .. Capacity` is that each side's test (`TestHolds`) still holds when that side
   stores: the other side can only move the size away from the limit tested.

6. `HandlesOwnedCorrect`: a handle that a thread owns is taken and nobody else's. The
   inductive `HandleInv` adds that a handle in `tfs_close` is in nobody's hands
   (`CloseUnowned`), and uses `EntryHeld`: else the close could free an entry that was
   opened again. It holds whatever handles callers pass.
7. `TransferFromWithinCorrect`, an action property: a transfer ends within its file if it
   began there. The arithmetic modulo `SizeT` is the content; the inductive part is that
   the entry and the file a transfer works on are its own from lock to unlock.
8. `OpenHandleLiveCorrect`: the file of an open handle is not deleted, if threads use
   private paths (`PathsApart`) or nobody calls `tfs_unlink`. The invariant says, of each
   step of `tfs_unlink` from its scan of the open file table on, that nobody else has or
   will get a handle of the file. `TFS_unlink_open` shows that the hypothesis is needed.
9. `OnlyLinksFailCorrect`: for careful callers (`CallersCareful`: they pass their own
   handles, and if they read, they neither truncate nor unlink what another has open; the
   code tests none of this) the process ends only at the two steps that symbolic links
   make undefined. `NoFailureCorrect`: if they make no symbolic links it does not end, so
   no assertion fails and no copy leaves its block or buffer. `FailInv` adds
   that offsets and lengths do not wrap, that a mutex about to be destroyed is not
   locked, and that the calls in progress are those the callers make.
10. `BlocksWhileFilesKept`, `BlocksAccountedCorrect`: no block is lost or belongs to two
    files, as long as no open file is deleted. `AllocHeld` and `ScanHeld` say that a thread that
    looks for a block, or is about to delete, has the file locked meanwhile.
11. `NamesKeptCorrect`: `TFS` implements `NameSpace`. Each of the steps of a call is one
    step of the abstract name space, or leaves names, files and kinds alone; what links
    the two is `LinkInv`, since the abstract space has files where the code has inodes.
12. `FifoCorrect`: until the size is lost to the race, `PCQueue` implements `BoundedQueue`.
    The invariant `RingInv` relates head, tail and size to the threads
    between their test and their update.
13. `BrokerTypeCorrect` and `TypeCorrect`: the broker's types are not inductive without
    what a worker knows where it is (`Shape`): that it serves a request it took, at a
    step of such a request, with its handle, spot and buffer in range. `TypeCorrect` adds
    what managers print, by `ListingSorts` (22).
14. `SessionsApartCorrect`: sessions and creations have open files of their own, of the
    box's file, as long as no box is removed that is in use (`RemovesApart`: while a worker
    removes a box the others list, or serve sessions of other boxes). The hypothesis is needed:
    `tfs_unlink` of `GlobalFS` deletes open files, as `MB_boxes` does. It is about the
    behaviour, since no answer tells a client when a publisher's session has ended.
    If nobody asks for a removal (`NoRemoves`) it holds of itself (`NoneApart`).
    `OthersUndisturbedCorrect` states the same as the property `MB_boxes` checks.
    That a removal leaves the others' files alone (`SessionsStep`) is the content: the
    remover is alone with its name, so the inode it deletes is nobody's handle's.
15. `OnePublisherCorrect`: a box with a publisher's session counts it and has no second
    one, if publishers come after the boxes have been created (`BoxesFirst`, as in
    `MB_sessions`): a creation that has not ended sets the count of the box to 0 under a
    publisher that found it. A client may wait for the creation itself or for clients that do
    (`Before`). `ReqInv` follows a request from the queue to the worker to the answer,
    so that no creation is in progress when a publisher is served.
16. `AllCountedCorrect`: what a subscriber counts, with no hypothesis, empty lines and
    texts like a refusal included: `printf` of a buffer that is not full shows the
    messages up to the first zero, and `strtok` finds the lines with a text among them.
    `LinesAfter` adds the lines of a read to those before it.
17. `LinesKeptCorrect`, `StreamKeptCorrect`, with the hypotheses of 14 and 15, and
    `BoxLoggedCorrect`: the broker implements `BoxLog`, with `NoRemoves`, because the logs
    of `BoxLog` only grow. No file's contents are an invariant by
    themselves: that a write extends a box needs that the publisher's handle is at the end
    of the file, which needs that nobody else writes to it (`OnePublisher`, and `SpotInv`:
    a session stays at the spot of its box) and that the handle is its own (`SessionsApart`);
    that the order is kept needs that what is in the pipe follows what was taken out of it,
    and that it is in the file or in the worker's buffer. `LogInv` says so per session
    (`PubAt`, `SubAt`) and per pipe (`PipeInv`), and that files have inodes and blocks of
    their own (`FilesInv`, about the inodes that are taken, since a deleted file leaves its
    cells behind). A removal deletes one file and no other's cells (`UnlinkCells`,
    `RemoveStep`), and who removes a box has no session beside it (`RemoverInv`). Each
    step of a worker is, without removals, a step of `BoxLog` (`LogPublish`, `LogDeliver`) or
    leaves boxes and subscribers alone. After the removal of a box with sessions none of
    this holds: its blocks may be those of another.
18. `CopyGivesBackCorrect`, an action property, for threads that pass their own handles.
    `CopyHeld` says at each point of a copy which handles and streams its thread has
    besides those it had before, and in which steps of which call it is. It rests on
    `HandleInv`: the handle that `tfs_open` adds is new, and nobody else's close takes it.
19. `CopyExactCorrect`, an action property, for threads with their own handles and private
    paths. `CopiesDone` says that the offset of the handle and the size of the destination
    are what `fread` has returned, less the write in progress, and smaller once a write
    fell short; it begins to hold because `TFS_O_TRUNC` empties the file. That no other
    thread writes to the file or truncates it is `WorksApart`: whoever has a handle has a
    name of its file, because `tfs_unlink` keeps the last name of an open file
    (`OwnsStays`), and with private paths that is one thread. Without private paths two
    copies to one name could truncate each other's file, and each still return 0.

20. `BoxesBackedCorrect`: boxes that have been made have names of their own, and each its
    file, if the requests that create or remove boxes come one after another (`OneChanges`;
    with two at once a name is given to two boxes, as `MB_two_creates` shows). The code takes the
    mutex of one box after another and none for the name, so `BackInv` says what the worker
    that serves a manager has found out so far (`ManagerAt`): that no spot up to the one it
    looks at has the name, that none has it when it takes one, that the file is there
    before the spot is named, that the spot it is about to free is the one with the
    name. That nobody makes this untrue in between is `OneManages`, from `ReqInv`.
21. `CountsKeptCorrect`: the counts of a box are those of its sessions until its file is
    full, with `NoRemoves`, `BoxesFirst` (15) and two on sizes. A full box may have a wrong
    count, which matters again when its file is removed before its spot is left: hence no
    removals. With fewer entries in the open file
    table than workers a session whose `tfs_open` fails leaves without undoing its count
    (`mbroker.c:428`), so `EnoughHandles` asks for one for each worker: with the parameters
    `GlobalFS` is given (`operations.c:18-19` of its `fs/`), at most 16 sessions.
    `EnoughBlocks` asks for a block for each box somebody creates, since a
    write that finds no block ends a session that decrements the wrong count. From the first
    follows that each `tfs_open` of a session succeeds (`HandlesHeld`, `NamesFiled`), from
    the second that a write is short only when the file is full (`BlocksHeld`,
    `ShortFull`), and a file that is full stays so. What is left is that a count changes in
    the step in which a session comes to its spot or leaves it, and by one. `n_subscribers` is only
    bounded: subscribers need not wait for the creation, which may set it to 0 after they
    counted themselves.

22. `ListingSorts`, `ListingSortedCorrect`: the sort of `BoxListing`, for every number of
    boxes. Its fold is expanded down to its definition: `FoldSteps` and `FlattenSteps`
    show that the recursive functions in it exist and that each value comes from the one
    before, `PairsPlaced` at which steps the inner loop of each place runs. An invariant of
    the loops follows (`SortedTo`, and `Rearranged`: the list is a bijection of its places
    away from the reply). Inductions over the steps are by least counterexample
    (`LeastInSet`, `UpTo`), since those of the library take an operator as a parameter.
    `ListedAsOften` turns the bijection into how often each box is printed.
23. `ListingCompleteCorrect`, an action property. `ListKnows` says that a worker that lists
    has copied the names of the boxes in the spots it has seen, and has counted them. No
    mutex keeps this true: a box created or removed behind its back is missing or too many.
    So the hypotheses are `OneChanges`, as in 20, and `ListsApart`, that whoever lists comes
    before each creation or removal or after it; the managers of `MB_boxes` do both. Then
    `BackInv` gives the boxes names of their own (`OwnNames`), the reply has as many places as
    there are boxes (`FrontSpots`), and the sort prints them in a strict order. With an array
    that has holes the property says nothing: the manager reads places nobody wrote.

Only model-checked: the liveness properties `RootReleased`, `PublisherLeaves` and
`ManagersAnswered`, which are out of the prover's reach. Every invariant and action
property of the passing runs, and every refinement, is a theorem, under the hypotheses
named above where it needs any. Those are about what callers and clients do, or about sizes, which
the code does not check.

## Not modelled, and the plan

Left out of the models above: contents of the files of part 1; the bytes of a message;
the forms lost when the main thread closes the register pipe; a pipe that is full;
`ALWAYS_ASSERT`s on lock calls that cannot fail; the delays of `insert_delay`; `malloc`
failures in `tfs_init`; what the byte written past a link's target overwrites
(`operations.c:224`); `pcq_destroy`, which nothing
calls; the life cycle of the tables. `tfs_init` and `tfs_destroy` are called once by each
program, with no other thread of the library; a second `tfs_init` would change the
parameters, which are `CONSTANTS` here, before it fails (`state.c:97`), and the mutexes
that `tfs_destroy` destroys are initialised statically, not by `tfs_init`.

The order of the work:

1. done: `TFS`, `NameSpace` and `PCQueue`, their runs, and the theorems above.
2. done: `TFSCopy`, and the proof that it implements `TFS`.
3. done: `GlobalFS`, `MBroker`, `BoxListing` and `BoxLog`, the removal of a box nobody
   uses, and of one with a subscriber. Left: a spot made again under a session that found
   it, two subscribers of one box, and what is still true of a session whose box
   was removed.
4. Proofs. Done: the safety properties of `TFS` and of `PCQueue`, their refinements, the
   types, sessions, publishers, logs, boxes, counts and counted messages of the broker, and the
   copies' own properties, the managers' listings, and the sessions of the others when a box
   is removed that nobody uses. Left: the counts after such a removal.
