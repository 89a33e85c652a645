------------------------------ MODULE WorkTree ------------------------------
(***************************************************************************)
(* What head, checkout and revert do to the directories of the work tree,  *)
(* after the calls of status() that come first (checkout.c).  checkout     *)
(* walks the tree twice, to remove files (tree.c) and to remove            *)
(* directories, and writes the files of HEAD back; revert walks a          *)
(* directory with a visitor (visitor.c) and rewrites the files a commit    *)
(* has.  Of the directories given to one revert only the first is found:   *)
(* the names are put one behind the other (checkout.c:325).                *)
(* All three walks are recursive: a frame is a call and what readdir has   *)
(* still to return to it.                                                  *)
(*                                                                         *)
(* A link to nowhere ends the call that meets it in the first and in the   *)
(* third walk, and the process in the second.  It is met only where        *)
(* status() has not been.                                                  *)
(***************************************************************************)
EXTENDS StatusWalk

CONSTANT Committed   \* files of the commit that is checked out or reverted to

ASSUME CommittedAssumption == Committed \subseteq Files \ Links

VARIABLES
    job,       \* "none", "files", "dirs", "write", "end"; "revert", "reverted",
               \* "again": a further directory of the revert; "died", "crashed"
    frames,    \* calls of the walk: a directory, and entries not met
    there,     \* what the work tree holds
    looked,    \* files that some call of status() has compared
    rewritten  \* files that revert has rewritten

tree == <<job, frames, there, looked, rewritten>>
vars == <<status, tree>>

Call == frames[Len(frames)]

Open(d) == [dir |-> d, todo |-> Children(d) \cap there]

Met(e) == [frames EXCEPT ![Len(frames)].todo = @ \ {e}]

Returned == SubSeq(frames, 1, Len(frames) - 1)

Above(f) == {d \in Dirs \ {Root} : <<d, f>> \in Within}

-----------------------------------------------------------------------------
TreeInit ==
    /\ Init
    /\ job = "none" /\ frames = <<>>
    /\ there = Entries \ {Root}
    /\ looked = {} /\ rewritten = {}

Resting == job \in {"none", "reverted", "again"}

\* These commands call status(".") first; revert calls it for directories then.
\* What the stat buffer says of the first directory, it says of every further
\* name, for which stat() fails.
CallStatus ==
    /\ Resting
    /\ \E d \in Dirs : (walks = 0 => d = Root) /\ Start(d)
    /\ job' = IF job = "none" THEN "none" ELSE "again"
    /\ UNCHANGED <<frames, there, looked, rewritten>>

StatusStep ==
    /\ Resting /\ Walk
    /\ looked' = looked \union seen'
    /\ UNCHANGED <<job, frames, there, rewritten>>

\* clean_directory, once the user has agreed: the first of its two walks.
BeginClean ==
    /\ Resting /\ pc = "done"
    /\ job' = "files"
    /\ frames' = <<Open(Root)>>
    /\ UNCHANGED <<status, there, looked, rewritten>>

\* revert <dir>: a visitor of the first directory given, for which status() is
\* called a second time in the process.
BeginRevert ==
    /\ job = "none" /\ pc = "done" /\ walks = 2
    /\ job' = "revert"
    /\ frames' = <<Open(start)>>
    /\ rewritten' = {}
    /\ UNCHANGED <<status, there, looked>>

\* The visitor cannot open a directory of both names, nobody looks at what it
\* returns, and readdir is given a null pointer.  (The names that do lead
\* somewhere when put together are in Arguments.)
RevertAgain ==
    /\ job = "again" /\ pc = "done"
    /\ job' = "crashed"
    /\ UNCHANGED <<status, frames, there, looked, rewritten>>

Walking == job \in {"files", "dirs", "revert"} /\ frames # <<>>

Descend(d) ==
    /\ Walking /\ d \in Call.todo
    /\ frames' = Append(Met(d), Open(d))
    /\ UNCHANGED <<status, job, there, looked, rewritten>>

RemoveFile(f) ==
    /\ Walking /\ job # "revert" /\ f \in Call.todo \ broken
    /\ there' = there \ {f}
    /\ frames' = Met(f)
    /\ UNCHANGED <<status, job, looked, rewritten>>

\* A file the commit does not have is only mentioned.
RevertFile(f) ==
    /\ Walking /\ job = "revert" /\ f \in Call.todo \ broken
    /\ rewritten' = rewritten \union ({f} \cap Committed)
    /\ frames' = Met(f)
    /\ UNCHANGED <<status, job, there, looked>>

\* What stat() cannot follow ends the call; its other entries are left alone.
ReturnEarly(f) ==
    /\ Walking /\ job # "dirs" /\ f \in Call.todo \cap broken
    /\ frames' = Returned
    /\ UNCHANGED <<status, job, there, looked, rewritten>>

\* In remove_directory, it ends the process.
DieOnLink(f) ==
    /\ Walking /\ job = "dirs" /\ f \in Call.todo \cap broken
    /\ job' = "died"
    /\ UNCHANGED <<status, frames, there, looked, rewritten>>

\* A call has met all entries.  remove_directory removes the directory after
\* the call for it.
Return ==
    /\ Walking /\ Call.todo = {}
    /\ frames' = Returned
    /\ there' = IF job = "dirs" THEN there \ {Call.dir} ELSE there
    /\ UNCHANGED <<status, job, looked, rewritten>>

\* The files are removed: remove_directory(".") comes next.
FilesRemoved ==
    /\ job = "files" /\ frames = <<>>
    /\ job' = "dirs"
    /\ frames' = <<Open(Root)>>
    /\ UNCHANGED <<status, there, looked, rewritten>>

WalkDone ==
    /\ job \in {"dirs", "revert"} /\ frames = <<>>
    /\ job' = IF job = "dirs" THEN "write" ELSE "reverted"
    /\ UNCHANGED <<status, frames, there, looked, rewritten>>

\* Mutant: only the innermost directory is made.
MakeDirsInnermost(f) == {d \in Above(f) : Parent[f] = d}

\* check_and_mkdir: every directory in the name is made, from the outermost on.
MakeDirs(f) == Above(f)

WriteFile(f) ==
    /\ job = "write" /\ f \in Committed \ there
    /\ there' = there \union MakeDirs(f) \union {f}
    /\ UNCHANGED <<status, job, frames, looked, rewritten>>

AllWritten ==
    /\ job = "write" /\ Committed \subseteq there
    /\ job' = "end"
    /\ UNCHANGED <<status, frames, there, looked, rewritten>>

-----------------------------------------------------------------------------
TreeStep ==
    \/ \E d \in Dirs : Descend(d)
    \/ \E f \in Files :
          RemoveFile(f) \/ RevertFile(f) \/ ReturnEarly(f) \/ DieOnLink(f) \/ WriteFile(f)
    \/ Return \/ FilesRemoved \/ WalkDone \/ AllWritten

Next ==
    \/ CallStatus \/ StatusStep
    \/ BeginClean \/ BeginRevert \/ RevertAgain
    \/ TreeStep

Spec == TreeInit /\ [][Next]_vars

\* status() waits for nobody, and nor do the other walks.
FairSpec == Spec /\ WF_vars(StatusStep) /\ WF_vars(TreeStep)

-----------------------------------------------------------------------------
(* Properties *)

Unlooked == FilesUnder(stack[1])

\* Files are removed unseen by status() only below the directory it left out,
\* and only there a link makes the checkout fail after it has removed files.
RemovedWereSeen ==
    /\ job \in {"files", "dirs"} =>
          Files \ there \subseteq
            looked \union (IF stack = <<>> THEN {} ELSE Unlooked)
    /\ job = "died" => stack # <<>> /\ broken \cap Unlooked # {}

\* What is there has its directory there.
Held == \A e \in there : Parent[e] \in there \union {Root}

\* A checkout that comes to its end leaves the files of the commit and their
\* directories; a revert rewrites every file the commit has of the first
\* directory it was given and nothing of the others, whatever becomes of it.
Restored ==
    /\ job = "end" => there = Committed \union UNION {Above(f) : f \in Committed}
    /\ job = "reverted" => rewritten = Committed \cap FilesUnder(start)
    /\ job \in {"again", "crashed"} =>
          \E d \in Dirs : rewritten = Committed \cap FilesUnder(d)

\* The three walks of checkout.c do to the tree what its commands say, unless
\* a link is in the way (checkout.c:73, 147, 271; tree.c:204).
WorkTreeSound == RemovedWereSeen /\ Held /\ Restored

=============================================================================
