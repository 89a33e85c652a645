# A formal model of pegit

pegit is a small version control system in C. Every command (`peg insert`,
`peg commit`, `peg checkout`, ...) is a short-lived process that reads whole
files from `.peg/`, works on them in memory and writes them back. There is no
lock, no journal and no file system call that makes a write durable or atomic,
and most functions trust what they read. The project asks five questions:

1. What do the files under `.peg/` still mean after any sequence of commands,
   after a process has died between two file operations, and with two processes
   at once?
2. Does what `insert`, `commit`, `checkout` and `revert` do to the work tree and
   to the history agree with what the user was shown and was asked?
3. Which files does `status` look at at all? Every other command trusts it.
4. Is what `compare` lists a difference of the two files?
5. Do the arguments, the configuration and the files a process reads lead it to
   the commits and files they name?

## Inventory

| component | state | operations | what makes it correct | modules |
|---|---|---|---|---|
| object store: `commit.c`, `index.c`, `index.h`, `pack.h` | `commit.idx` (commits, HEAD and tag flags), `db.idx` (entries of all commits, end to end), `db.pack` (bytes) | append a commit, find a commit or an entry, move HEAD, tag | every range is inside its file; commits own disjoint ranges; history never changes; at most one HEAD; what is written is read back | `VersionStore`, `PegStore`, `PegStoreRefinement`, `PegConcurrent`, `CommitFile` |
| stage: `cache.c`, `cache.h` | `cache.idx` (nodes), `cache.pack` (bytes) | load, append, write, clean | the two files agree; a path is staged once; what is inserted stays until it is committed or reset | `PegStore`, `PegConcurrent` |
| insert: `stage.c` | list of reported files | all, a directory, a file, ignored paths | stages what differs from HEAD, and only that | `PegRepo`, `Arguments`, `PegConcurrent` |
| status: `status.c` | stack of directories, list of nodes, counters, all global | one walk per call, two lists | every file is compared once | `StatusWalk`, `PegRepo`, `Listing` |
| checkout, revert, head: `checkout.c`, `commit.c`, with `tree.c`, `visitor.c` | the work tree; options, global | move HEAD, ask, clean, rewrite, revert a file or a directory | nothing uncommitted is removed without asking; the end result is the commit | `PegRepo`, `WorkTree`, `Arguments` |
| compare, see: `delta.c`, `delta-file.c` | two files as lines, a table, one result for all files | split, table, trace, report | the differences turn one file into the other; each file is named | `DeltaFile`, `LineDelta`, `Compare` |
| string buffers: `strbuf.c`, `strbuf.h` | memory, capacity, length | append, splice, trim, format, read | the text, a NUL after it, inside the memory | `StrBuf` |
| configuration: `project-config.c` | `.peg/config` as text, a list of definitions | parse, look up | what is written is read, and the parser ends | `Config` |
| create: `project-init.c` | `.peg/` | make directories and empty files | nobody takes a half-made repository for a new one | `CreateRepo` |
| commands: `main.c` | the environment | find or propose a command, dispatch | every process ends; it acts on what was named | `CommandLine`, `Suggest`, `Arguments` |
| listing and history: `show-tables.h` and parts of `commit.c`, `stage.c`, `status.c` | | hist, tag, list, show, status | what is shown is what is stored | `Listing` |

What is hard in this code: a crash between two rewrites; files that are emptied
before they are written; two processes that each rewrite whole files from what
they read at their start; offsets computed while buffers grow; a commit that
starts from the last commit while its stage was made against HEAD; time stamps
of one second, and some that are never initialised; walks whose stack is
global; HEAD moved before the work tree is; a table of which only a part is
written; hand-written parsers and buffers. `PROJECT.json` lists each hazard
with its line and the properties that watch it.

## Modules

| module | models | composed of |
|---|---|---|
| `VersionStore` | what the repository promises: a history that only grows and a stage that becomes its next snapshot | |
| `PegStore` | the five files, every command that rewrites them, and crashes | |
| `PegStoreRefinement` | the abstract state the files stand for | `PegStore`, implements `VersionStore` |
| `PegStoreProofs` | proofs about `PegStore`, and that it implements `VersionStore` | `PegStoreRefinement` |
| `PegConcurrent` | several processes over the five files, at every file access | |
| `PegConcurrentProofs` | proofs about `PegConcurrent` | |
| `StatusWalk` | the directory walk of `status()` | |
| `WorkTree` | that walk, and then the walks of checkout and revert with the tree they change | `StatusWalk` |
| `WorkTreeProofs` | proofs about `StatusWalk` and `WorkTree` | |
| `PegRepo` | work tree, stage, commits and HEAD under the user's commands | implements `VersionStore` |
| `PegRepoProofs` | proofs about `PegRepo`, that refinement included | |
| `Ascend` | numbers in ascending order | |
| `DeltaFile` | splitting a file into lines | `Ascend` |
| `LineDelta` | the table and the trace of the comparison of two files | |
| `Compare` | comparing two commits, or files with HEAD | `DeltaFile`, `LineDelta` |
| `CompareProofs` | proofs about `DeltaFile`, `LineDelta` and `Compare` | `SequenceLemmas` |
| `StrBuf` | string buffers | |
| `StrBufProofs` | proofs about `StrBuf` | |
| `Config` | the parser of the configuration | `Ascend` |
| `Suggest` | the proposal for an unknown command | |
| `CreateRepo` | `peg create` | |
| `CommitFile` | the fields of `commit.idx`, written and read | |
| `Arguments` | what arguments make a command do | `CommitFile` |
| `Listing` | what the commands that only show print | `Arguments` |
| `CommandLine` | a process from its arguments to its command, and the next process | `Config`, `Suggest`, `CreateRepo`, `Listing` |
| `CommandLineProofs` | proofs about `CommandLine` and what it is made of | `SequenceLemmas` |
| `SequenceLemmas` | facts on numbers, sequences and recursive functions that the proofs use | `Ascend` |
| `MC*` | constants for TLC | |

### PegStore

One process runs at a time; `pc` is the last thing it did. A file that
`fopen("wb")` has emptied and `fwrite` has not filled is a state of its own
(`xTrunc`), and `Crash` may end the process at any of them. The variables `m...`
are the process's copies: `mEntries` and `mCache` for the stage, `mCommits`,
`mIdx`, `mPack` for the store, `mCopy` for the entries of the commit in the
making.

* `InsertBegin`, `StageFile`, then `TruncCachePack` ... `WriteCacheIdx`:
  `stage_main` with `cache_files` and `cache_object_write`.
* `CommitBegin`, `CopyEntry`, `TransferNew/Delete/Modify`, `TruncPack` ...
  `CleanPack`: `generate_new_commit`, in the order of its writes: pack,
  commits, index, stage.
* `Reset`, `Tag`, `MoveHead`, `ResetHead` with `WriteFlags`: the commands that
  clean the stage or rewrite the flags. `Tag` assigns the flags, as the code
  does, and so takes HEAD away.

Reading is as trusting as the code's: `Slice` and `EntryAt` give junk outside
a buffer, which is how a stage whose pack was cut reaches `commit`. Offsets in
the index count entries rather than bytes; authors, messages and hashes are in
`CommitFile`, stat data in `PegRepo`. `db.pack` goes through the wrapper of
the compression library whenever it is read or written; the model keeps it
inflated. A file that is cut in the middle of its `fwrite` is not a separate
state here: such a crash falls on the points that are exempt below, and the
empty file stands for it. `PegConcurrent` and `CommitFile` have cut files.

### PegConcurrent

The same files, with several processes. An action is one access to one file:
what a command reads, in which order, and what it truncates and writes. `mine`
is what a process has read. `open` lists the processes that have emptied a file
and not closed it; the one that closes last leaves its content. An insert
stages one new file, so that a name stands for a file and its content; what a
commit makes of modified and deleted files is in `PegStore`. `CutPack` is a
write to a full disk, whose return value nobody looks at. `raced` records that
two commands that write the history, or two that write the stage, overlapped:
there the code promises nothing. All that is claimed is about the overlaps that
are left, such as an insert beside a commit that waits for its user. The number of
processes is a constant: TLC has two, the proofs any.

### StatusWalk and WorkTree

`Start` is a call of `status()`, `Compare`, `Push` and `Die` what it does with
an entry readdir returned, `Pop` the `goto back`, `Done` the end. The stack
lives on between calls, as `d_root` and `d_sptr` do. `WorkTree` adds what
happens after the calls: `BeginClean` starts the walk of `tree.c` that removes
the files, `FilesRemoved` the one of `checkout.c` that removes the directories,
`WriteFile` makes the directories of a file and the file; `BeginRevert` starts
the visitor. The recursion is a sequence of frames, a directory and what
readdir has still to return. A link to nowhere ends the process in `status()`
and in the second walk, and only the call that meets it in the first and in
the visitor's. Revert rewrites the first directory it is given and no other:
`checkout.c:325` does not clear the path, so that for a further one `status()`
still walks the directory, but `./d1./d2` cannot be opened and the process
crashes (`RevertAgain`). Contents and the question to the user are in `PegRepo`.

### PegRepo

The store seen from the work tree. A command is one step, since what
happens between its writes is in `PegStore`; only checking out is file by
file, and may be killed. A stamp says what the comparison at `status.c:124` can
and cannot tell: the file's own (`same`), the file's own though the file has
been written since, within the same second (`raced`), an older one (`older`), or
one that was never written (`junk`). `PutFile` writes a file and restamps the
entries; `WriteOut` is a write of pegit's own, which like an edit may come within
the second of the one before (`RacyEdits`). `Doubtful` are the files whose stamp
lies or was never written. `CheckOut` moves HEAD first and then
refuses, asks, or cleans, as `set_head_commit` and `revert_files_hard` do.
Directories are one level deep. `NoDir` is the walk that leaves nothing out;
that a walk leaves out at most one directory is `LeavesOutFirstDirectory`.
`asked` records the user's answer, for the properties.

What the code cannot see is part of what the properties say, not of their
hypotheses: `InsertFindsChanges` says for every path what `insert .` stages, with
the files in doubt and the one directory left out as the exceptions, and what
becomes of these; `NothingLostSilently` has the same two exceptions;
`UnchangedOnlyAsDeleted` says how far `main.c:109` (only changed files are
staged) is true.

### DeltaFile, LineDelta and Compare

`LineDelta` is the two nested loops of `delta_basic_comparison_m`, a cell at a
time, and then `delta_backtrace_table`. A cell of the table of arrows that was
not written holds anything, so reading one would show. The trace stops when one
of the two files is used up, as in the code; `EditScript` is therefore about the
ends of the files that it covers. `LongestCommon` says that the trace finds as
many common lines as the last cell of the table counts, and that no set of pairs
of equal lines, in order in both files, is larger. `Compare` runs it for the files of two
commits (`do_commit_delta`), or for files of HEAD and of the work tree
(`check_entry`), with the titles that collect, the result that is shared by all
files and whose list forgets its end, and the flag that marks an entry as
compared. `CompareAssumption` says what the lists handed to it are: rows of paths
and contents, a path once in each (`Once`, which is `OneLiveEntryPerPath` where
the list is that of a commit), and contents that are sequences of bytes.
`Ascending` puts the newlines of a file in order, as the scan of `delta-file.c`
meets them.

### StrBuf

One action per operation, and one per round of a loop that reads. `text` is
what the calls put together; the memory, its size and the length in use are the
code's, with its arithmetic (`alloc_nr`, `ALLOC_GROW`). `Slack`, `ReadChunk` and
`FormatChunk` are 16, 8192 and 64 in the code and constants here, so that the
proof is about any and TLC can have small ones.

### CommandLine and what it is made of

A process: main's checks, the configuration (`Config`, one action per round of
the parser's loop), the command or a proposal (`Suggest`), the arguments
(`Arguments`, `Listing`), and for create every directory and file
(`CreateRepo`), with a death anywhere. `call` is what the process is about to
do: the commits, paths and rows that its arguments lead it to. What it then
does is in the other modules. An argument is an option, a number after `~`, or
a word; a word is a sequence of characters as far as the code looks at them.
`run.commits` was written to `commit.idx` by `WriteList` and is read by
`Readings`; `run.cut` fields are missing at the end of the file. Memory that
was never written may hold anything: `Readings` and `CallsWith` are sets.

## Runs

| run | checks | bounds |
|---|---|---|
| `store_crash` | types, `DiskReadable`, `StageReadable`, `CommitsTile`, `OneLiveEntryPerPath`, `AtMostOneHead`, `HistoryKept`, `HeadKept` with a crash anywhere | 2 paths, 1 content of 2 bytes (and the empty one), 2 commits, 1 crash |
| `store_refines` | `PegStore` implements `VersionStore` without a crash | 2 paths, 2 contents of different lengths, 2 commits |
| `store_quiet` | the same with a crash at a point where no file is being replaced; every command that a process goes on with ends | 1 path, 2 contents, 3 commits, 1 crash |
| `concurrent` | `HistoryKept`, `StagedKept`, `CommitsAreGenuine` | 2 processes, 3 commands, 1 cut write, on top of a commit and a staged file |
| `walk` | `NothingLostOrTwice`, `LeavesOutFirstDirectory`, `WalkEnds`, `WorkTreeSound` | 5 directories, three levels below the root, a file in each, 2 links, 3 calls, any order |
| `repo_dirs` | `CommitRecordsWork`, `InsertFindsChanges`, `UnchangedOnlyAsDeleted`, `NothingLostSilently` | a file in each of 2 directories, 1 content and the empty one, 2 commits, 1 edit, kill or second write within a second; 1.2 million states up to symmetry |
| `repo_tree` | `CheckOutRestores`, `ImplementsVersionStore`, `CheckOutEnds` | a file in a directory and one beside it, 1 content and the empty one, 2 commits, 1 edit or kill |
| `compare` | `ReadsWrittenCells`, `EditScript`, `LongestCommon`, `MarksFit` of one pair of files; `QuietChange`, `FilesNamed`, `OwnLines` of a report | files of up to 4 lines of two kinds with and without a last newline, commits of up to 3 files |
| `command_line` | `ConfigRead`, `EveryProcessEnds`, `MadeByOne`, `SuggestsNearest`, `ActsOnNamed`, `PathsNamed`, `CommitsReadBack` | 2 processes; every configuration of 4 characters and longer ones; all pairs of arguments from small sets; 3 commits, `commit.idx` cut after each field; room for names of 3 characters |
| `buffers` | `BufferHoldsText` | texts of 5 characters, 3 at a time, reads of 3, slack of 1 |

Why the bounds are enough to be interesting. Two paths of which one is carried
and one changed are what the copy and the transfer loop distinguish; two
commits give a master that is not HEAD, a deletion of something the master
lacks, and ranges that could overlap; the third is the first that finds a
deleted entry to skip; contents of different lengths make wrong offsets
visible; one crash is enough for every cut pair of files, and everything, a
further commit included, may be done on what it left. Three commands are two
that overlap and one that finds what they left. In `PegRepo`, initial work trees
are arbitrary, so that one edit gives both new and modified files, and one event
is a write that a stamp hides; of two directories the walk leaves out either, or
neither. In `walk`
two calls are what a revert of a directory makes; three are one with two
directories, and leave a stack behind twice. Files of four lines let the two rows of lengths go round, and three
files are the least with which a section repeats the lines of an earlier one.
With chunks of two and three characters every loop over a buffer goes round
more than once. Two processes are one that makes something and one that meets
it. Every property has a mutant of the code's definition that breaks it within
these bounds.

The exempt points. `HistoryPoints` are the five points of a commit or a flag
change at which a crash does destroy history: three where a file is empty and
two where `commit.idx` names entries that `db.idx` has not. They are part of
what the model says of the code, not a convenience: without any of them on
the list, `HistoryKept` is violated. `StagePoints` are the same for the stage,
and `raced` in `PegConcurrent` for two processes.

Fairness. `PegStore!FairSpec` is weakly fair to the steps of a running command,
`PegRepo!FairSpec` to those of a checkout, `WorkTree!FairSpec` to those of
`status()` and to those of the other walks, `CommandLine!FairSpec` to those of a
process that was started: a process waits for nobody once it has its arguments.
(The question before a checkout is answered within one step; while it is not,
nothing has changed but HEAD. The question whether a proposed command was meant
is answered, or the input ends.) Nothing is assumed of the user, and crashes
are not excluded. Deadlock is not checked where the system stops: `walk`,
`compare`, `concurrent` and `command_line`, whose processes end.

### Where the documents and the code disagree

Two runs check one property each and find it violated:

| run | what is said | what happens |
|---|---|---|
| `repo_all` | `stage.c:29`: `-a` adds all files that have been modified | `commit.c:439` leaves stamps uninitialised, and `status` may trust them |
| `repo_dir` | `main.c:109`: only changed files are added | `insert <dir>` stages all files outside it as deleted |

Others are in the model as the code has them, and the properties that pass say
so:

* `status.c:171` says that a directory is put on a stack so that its files are
  compared later; `status.c:186` never opens the first one
  (`LeavesOutFirstDirectory`).
* `peg_insert.html:73` says to insert again to add new content; `stage.c:402`
  ignores a path that is staged (`CommitRecordsWork`).
* A staged deletion of a path that HEAD lacks becomes an empty file of the new
  commit (`commit.c:488`), so that `CommitRecordsWork` claims nothing of a
  stage that has one (`StageIsWork`).
* A checkout writes back the entries HEAD has as deleted, too, as empty files
  (`checkout.c:190`; `CheckOutRestores`).
* Tagging HEAD removes HEAD (`commit.c:705`; `HeadKept`), and a tag without a
  hash goes to the last commit, though the comment at `commit.c:685` says HEAD.
* The second of two commits to compare is not found by its tag
  (`delta.c:664`; `ActsOnNamed`); of several paths given to revert only the first is
  found, and a second directory crashes it (`checkout.c:325`; `PathsNamed`,
  `WorkTreeSound`).
* What is hidden by a stamp or left out by the walk, insert does not find and a
  checkout does not ask about (`status.c:124`, `status.c:186`;
  `InsertFindsChanges`, `NothingLostSilently`).
* `main.c:105` speaks of reinitialising a project with create, which stops at
  the first directory that is there (`MadeByOne`).
* A name of more than 256 bytes is written by commit and then keeps every
  command from reading the commits (`author.h:45`; `CommitsReadBack`).
* `DELTA_FLAG` has the value of `NEW`, so that files that only the second
  commit has may not be named (`delta.c:594`; `FilesNamed`).
* The ignore pattern is compared without its last character
  (`stage.c:238`; `PathsNamed`): a pattern of one letter ignores everything.
* A number as a value in the configuration is always refused
  (`project-config.c:162`), and the address is `useremail` there where
  `ReadMe.md` has `email`.
* `-a` of create adds to the project's name (`project-config.c:68`), and
  `-q` of commit swallows the argument after it.

## Proofs

Every theorem is about all values of the constants that the named assumption of
its module allows; `PROJECT.json` lists those worth knowing. The invariants the
proofs rest on are conjunctions of named parts, with a comment on each.

### The store

`PegStoreProofs` proves, for every set of paths, bytes and contents, every
number of commits and crashes and every set of crash points
(`StoreAssumption` is all that is assumed of the constants):

* `TypeCorrect`: `Spec => []TypeOK`. It is inductive, junk included.
* `HistoryReadable` (`DiskReadable`), `CommitsDisjoint` (`CommitsTile`) and
  `HistoryImmutable` (`HistoryKept`), from `HistoryInv`.
* `SingleHead` (`AtMostOneHead`), from an invariant of its own over the commits
  on disk and those in memory. It needs no exempt point.
* `StagedFilesReadable` (`StageReadable`), from `StageInv`.
* `PathsLiveOnce` (`OneLiveEntryPerPath`), from `LiveInv`.
* `HeadNeverLost` (`HeadKept`), an action property, from `HistoryInv`, which
  tells what the list of commits is about to be at every step that writes it.

None of the three history properties is inductive: they speak of the files,
while what the files become is in memory by then. `HistoryInv` adds, as long as
no process has died at a history point: `RangesFit`, every entry that is or is
going to be in `db.idx` lies inside the pack that is there when it is;
`Tiled` over the files *as they are about to be* (`RealIdx`, `RealCommits`);
`CopyFits`, the entries in the making lie inside the pack in memory; and
`MemoryInStep`, which says how far the process's copies have run ahead of the
files, and that what they add comes after what was there. The last is what a
step at `packTrunc` or `indexTrunc` needs, when the file itself is empty.
There is one lemma per action (or group of actions that leave the same
things alone), each of which also shows `KeepsHistory`, so that
`HistoryImmutable` follows from the same lemmas.

`StageInv` says that the nodes on disk, and those an insert is about to write,
name bytes of their pack that some file had, and no path twice; that an insert
only adds to what it read; and that a commit transfers the stage that is on the
disk. `LiveInv` says of the commits, written or about to be, and of the copy in
the making that no path has two live entries; while the copy is made, that each
of its entries was met (`CopiedSoFar`). It rests on `HistoryInv`, since another
commit's entries are only where they were as long as ranges stay apart.

It also proves the refinement, step by step. `HarmlessRefines`
is about any crash points: a behaviour in which no process has died where it
shows (`HarmlessCrashes`: not at a history point, not at a point of the stage,
not between the last write of a commit and the clearing of its stage) is one of
`VersionStore`. `StoreRefines` is the property of the two runs: where
`CrashPoints` has no such point, as in their configurations, every behaviour of
`PegStore` is one. Beside the invariants above the proof needs `CopyInv`: a
commit in the making has copied every live entry of its master that it has
passed, and while the stage is laid over the copy, each path is either as staged
or as it was. An insert takes effect when `cache.idx` is emptied for its new
content, a commit when `commit.idx` is, a reset when the stage is cleared; every
other step is a stutter.

### Several processes

`PegConcurrentProofs` proves `StagedFilesStay` (`StagedKept`),
`CompletedCommitsStay` (`HistoryKept`) and `CommitsHoldTheInserted`
(`CommitsAreGenuine`) for any set of processes, any number of commands and of
cut writes. `SafeInv` has six parts: types; `OpenInv`, who has a file open;
`RaceInv`, two processes in a window are on record as having raced; `StageInv`,
`HistoryInv` and `GenuineInv`, which say for each point of a command what the
process holds in memory beside what is on the disk. The only steps that need an
argument about two processes are those that write: the other processes are then
outside the window, by `RaceInv`, and what they hold speaks of files this step
leaves alone.

### The walk and the work tree

`WorkTreeProofs` proves, for trees of any shape and depth, with any links broken
and any number of calls, `WalkIsExact` (`NothingLostOrTwice`) and
`FirstDirectoryLeftOut` (`LeavesOutFirstDirectory`) of `status()`, and
`CheckoutIsSound` (`WorkTreeSound`) of the walks of checkout and revert.
`TreeAssumption` says what a tree is; it also lists what the relation `Within`,
a transitive closure, is known by, since what a closure computes would need
induction over the tree. TLC evaluates it for the tree of the run. `WalkInv` says that
what the walk has still to compare is below what readdir has still to return or
below a directory on the stack, each in one place only (`Apart`, `Covered`).
`CallsInv` follows the directory that the first call leaves on the stack through
the later ones. `TreeInv` adds the walks that change the tree: whatever is there
has its directories (`HeldAll`), what is left below a frame is below an entry
the frame or the next one has still to meet (`CoverInv`), and what was rewritten
together with what is ahead is what revert was asked for (`RevertInv`), which a
further directory, where the process crashes, does not change.

### The commands

`PegRepoProofs` proves, for any files, contents and directories and any number
of commits, edits and killed commands (`PegRepo`'s assumptions):

* `RepoTypes`, and `CommitIsTheWorkTree` (`CommitRecordsWork`) and
  `CommandsRefineStore` (`ImplementsVersionStore`) from it: each command,
  each file written back and each edit is a step of `VersionStore` or none.
* `CheckoutRestoresHead` (`CheckOutRestores`), from `CheckOutInv`: what is not
  on the list of a checkout is as HEAD has it.
* `StampsAreHonest`: a file with the stamp of an entry has its content, unless it
  was written twice within that second (`StampInv`: `same` is not `raced`).
* `InsertMissesNothing` (`InsertFindsChanges`) and `NothingLostUnasked`
  (`NothingLostSilently`), from `StampInv`. There is no hypothesis on the tree or
  on the clock: a file that a report of `status()` has seen and left out is as
  HEAD has it or in doubt (`SeenAndUnreported`), and a report has seen all but
  the files of one directory (`StatusesSee`).
* `UnchangedAreDeletions` (`UnchangedOnlyAsDeleted`): an unchanged file that is
  newly staged was reported, so it was not seen (`ReportedUnchanged`), and is
  staged as deleted.

### The comparison

`CompareProofs` proves, for files of any length over any lines, that the
trace reads only cells the comparison has written (`TraceReadsWritten`), that
the lines it lists together with the common ones are the ends of both files it
covers (`ListingIsEditScript`), and that the common ones are a longest common
subsequence (`CommonIsLongest`). The first two follow from `DeltaInv`: up to the
current cell the table of arrows is written, and a diagonal arrow stands only
where the two lines are equal (`TiltsAreEqual`); behind the trace, each line was
listed or is common, once, in order.

The third follows from `LengthInv`. `Longest(o, w, a, b, k)` says that the longest common
subsequence of the first `a` lines of `o` and the first `b` of `w` has `k`
lines, without saying how it is found, and the lemmas on it are the
three cases of a cell. `RowLengths` says that the row of lengths, left
of the cell as it is now and from there on as the row before had it, and the
two lengths kept beside it hold such numbers, and `ArrowFits` that an arrow leads to
where the longest one is. The code compares the length to the left with the
one diagonally above and not with the one above. Where the two lines differ that
is enough: a length to the left that is greater is the longest
(`LongestLeft`), and if it is not, the one above is (`LongestUp`).

The rest is about a report, whatever is compared and in whatever order.
The comparison of each two files is a run of `LineDelta`, so that the above
holds of it (`FilesAreCompared`). On top of `WalkInv`, where the walk over the two
lists is, there is one invariant for each property:

* `ComparisonNamesFiles` (`FilesNamed`), from `FlagInv`, which flags the entries
  of the second list have by then, and `NamesInv`, which titles wait in the
  shared result and which are printed.
* `SectionsShowOwnLines` (`OwnLines`), from `SectionInv`: nothing is carried
  over before the second file.
* `QuietFilesAreAlike` (`QuietChange`), from `QuietInv` and `EndsInv`,
  which says what two files have in common when nothing, or
  one deleted line, was listed.
* `MarksAlwaysFit` (`MarksFit`): the marks of a file of any bytes fit the memory
  that was asked for, and the lines between them are the file. This is induction
  over data. The theorems of the library for it take an operator, which the
  provers cannot instantiate; the least-number principle
  (`LeastNumber`, from the well-foundedness of the order) does instead, with
  a smallest counterexample in each proof (`AscendingOrder`, `Flattened`,
  `Joined`).

### The buffer

`StrBufProofs` proves `BufferIsSound`, that a buffer holds the text the calls
put together with a NUL after it, inside its memory, for every set of
characters, every slack and chunk (`StrBufAssumption`) and every bound.
`BufInv` adds what is needed while a loop runs: the shape of the memory, what a
read that may fail has to give back (`before`), and that one byte is left for
the NUL. There is a lemma for each operation, on top of one for appending
(`WrittenHolds`) and one for cutting (`CutHolds`).

### The command line

`CommandLineProofs` is about `CommandLine`, for any list of commands, any set of
processes that may be started with any arguments, files and directories
(`CommandLineAssumption` says that these are words, numbers, paths and texts),
any number of processes and deaths anywhere. Of the characters,
`ConfigAssumption` has that the kinds the scanner tells apart are disjoint.
Four invariants follow what a process knows:

* `ProcessInv`: the process is one of the invocations, and what was found or
  proposed is one of the commands.
* `MakeInv`: what a process that creates has still to make is the end of the
  list of what there is to make; what it has made is there, and nobody else made
  a part of it. Who meets `.peg` makes nothing.
* `CallInv`: a process that has ended has stopped early, or what it is about to
  do is one of the things its command makes of its arguments, for one of the
  outcomes of reading `commit.idx` (`Acts`).
* `ConfigInv`: while a well-formed text is parsed, the parser is between two
  lines (`AtLineEnd`), in a definition whose key is read (`InDefinition`), or at
  its end (`HasDefinition`), and the list has just what the lines behind it
  define (`Listed`). `ConfigRead` says what the end of a parse has; this says
  what every round of its loop leaves, blanks and comments included.

From them:

* `ConfigIsRead` (`ConfigRead`): for every text. What a line of a well-formed
  text looks like is `IsLine` and `IsShaped`, with the places of its key, its
  sign and its value; a lemma for each kind of token says what a round of
  the parser does there.
* `NearestIsSuggested` (`SuggestsNearest`): `Distances` lists the
  equations of the distance of all pairs of beginnings, which the three rows of
  `levenshtein` hold one after the other, the swap that looks two rows back
  included; and a distance of at most `n` weights is what `n` edits can do
  (`Within`, which does not compute a distance).
* `OneMakesAll` (`MadeByOne`), from `MakeInv`.
* `CommitsAreRead` (`CommitsReadBack`): what `WriteList` writes is what each
  reader takes, field by field, so that a commit starts for the reader where it
  started for the writer; a reader of a file whose end is missing stops in the
  commit that is cut. A name longer than its room stops all readers.
* `ActsOnWhatIsNamed` (`ActsOnNamed`) and `PathsAreNamed` (`PathsNamed`): each
  parser of arguments is a recursive function over the words; the lemmas say
  what is known after any number of them (`compare`, `list`, `revert`,
  `insert`), and the rest is about the names of commits and paths.

Texts, words, lists of commits and of arguments have any length. These are
inductions over data, and each is made from the least number at which it would
fail (`LeastNumber`), as for `MarksFit`.

### Only model-checked

* Liveness under fairness (`WalkEnds`, `CheckOutEnds`, `EveryProcessEnds`, and
  that every command of `store_quiet` ends) and whatever needs ENABLED: beyond
  the prover.
* `InsertAddsAllModified` and `OnlyChangesStaged`, which are violated.

## Not modelled

* Statistics and summaries that are only printed. Those of insert subtract
  ignored files from an unsigned number (`stage.c:214`) and count by a status
  that was never set (`stage.c:483`); those of commit are never counted.
* `compare -u`, which gives the file to diff(1); the display of carriage returns.
* `-md` of insert, and an insert whose earlier directory hides the files of a
  later one.
* Failures of the file system other than a death, a cut `db.pack` or
  `commit.idx` and a link to nowhere (an `fopen` that fails in `project-init.c`,
  say, or a file that cannot be removed); the password of a protected user.
* Functions that nothing calls: `visitor_visit_parent` (which cuts one character
  too many), `strbuf_replace_chars`, the non-recursive loop of `tree.c`,
  `find_commit_generic`.
* Searching in buffers, `extract_filename` and the wrappers of `file.c`, which add
  nothing to the C library.
* The progress timer: its signal decides only when progress is printed.
* Compression (`mz.c`, `miniz.h`): `inflate` itself, and the loop at `mz.c:107`
  that a damaged stream does not leave.
* `sha1` (vendored), the MySQL back end `db.c` and `compat.c` (not built), the help
  pages, the scripts.

## What is left

Every safety property of the runs that pass is proved, the action properties and
the refinements included, from the assumptions on the constants alone.
What would come next:

1. Liveness, which TLC checks for the instances only.
2. The loop of `mz.c` over a damaged stream, and the summaries that insert and
   commit print.
3. Failures of a write other than those modelled.
