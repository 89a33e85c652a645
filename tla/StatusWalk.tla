----------------------------- MODULE StatusWalk -----------------------------
(***************************************************************************)
(* The walk of the work tree in status() (src/src/status.c), which every   *)
(* command that compares the work tree with the HEAD commit starts with.   *)
(* The walk keeps the directories it has met on a stack of d_nodes.  The   *)
(* stack is held in globals (d_root, d_sptr), so that a second call in the *)
(* same process, as in `peg revert <dir>' or `peg insert <dir> <dir>',     *)
(* starts with what the first one has left on it.                          *)
(*                                                                         *)
(* readdir returns the entries of a directory in any order.  What status   *)
(* does with a compared file is modelled in PegRepo.  The tree does not    *)
(* change under the walk, so opendir and stat succeed, but for stat of a   *)
(* link to nowhere: it ends the process.                                   *)
(***************************************************************************)
EXTENDS Naturals, Sequences

CONSTANTS
    Dirs,     \* directories of the work tree
    Files,    \* regular files
    Links,    \* names of Files that may be links to nowhere
    Root,     \* "."
    Parent,   \* the directory that holds each file and directory
    Within,   \* pairs <<d, e>>: e is d or lies somewhere below it
    MaxWalks  \* bound: calls of status() in one process

Entries == Dirs \union Files

Children(d) == {e \in Entries \ {Root} : Parent[e] = d}

\* Dirs and Files form a tree below Root, and Within is its order.
ASSUME TreeAssumption ==
    /\ Root \in Dirs
    /\ Dirs \cap Files = {} /\ Links \subseteq Files
    /\ Parent \in [Entries \ {Root} -> Dirs]
    /\ Within \subseteq Dirs \X Entries
    /\ \A d \in Dirs, e \in Entries :
            <<d, e>> \in Within <=>
                \/ e = d
                \/ e \in Children(d)
                \/ \E c \in Children(d) \cap Dirs : <<c, e>> \in Within
    /\ \A b, c \in Dirs \ {Root}, e \in Entries :
            (b # c /\ Parent[b] = Parent[c] /\ <<b, e>> \in Within)
                => <<c, e>> \notin Within
    /\ \A c \in Dirs \ {Root} : <<c, Parent[c]>> \notin Within
    /\ \A d \in Dirs, e \in Entries \ {Root} :
            (<<d, e>> \in Within /\ d # e) => <<d, Parent[e]>> \in Within
    /\ \A e \in Entries : <<Root, e>> \in Within
    /\ \A b, c \in Dirs, e \in Entries :
            (<<b, c>> \in Within /\ <<c, e>> \in Within) => <<b, e>> \in Within
    /\ MaxWalks \in Nat

VARIABLES
    broken, \* links that stat cannot follow
    pc,     \* "idle" before the first call, "walking", "done", "died"
    start,  \* the directory the call was given
    left,   \* whether an earlier call left a directory on the stack
    todo,   \* entries of the open directory that readdir has not returned
    stack,  \* d_root .. d_sptr
    seen,   \* files that were compared with the HEAD commit by this call
    walks   \* calls so far

status == <<broken, pc, start, left, todo, stack, seen, walks>>

FilesUnder(d) == {f \in Files : <<d, f>> \in Within}

Top == stack[Len(stack)]

-----------------------------------------------------------------------------
Init ==
    /\ broken \in SUBSET Links
    /\ pc = "idle"
    /\ start = Root
    /\ left = FALSE
    /\ todo = {}
    /\ stack = <<>>
    /\ seen = {}
    /\ walks = 0

\* The list of index entries, and with it the CHECKED marks, is made anew.
Start(d) ==
    /\ pc \in {"idle", "done"}
    /\ walks < MaxWalks
    /\ pc' = "walking"
    /\ start' = d
    /\ left' = (stack # <<>>)
    /\ todo' = Children(d)
    /\ seen' = {}
    /\ walks' = walks + 1
    /\ UNCHANGED <<broken, stack>>

Compare(f) ==
    /\ pc = "walking"
    /\ f \in todo \ broken
    /\ todo' = todo \ {f}
    /\ seen' = seen \union {f}
    /\ UNCHANGED <<broken, pc, start, left, stack, walks>>

\* die(): the whole process ends.
Die(f) ==
    /\ pc = "walking"
    /\ f \in todo \cap broken
    /\ pc' = "died"
    /\ UNCHANGED <<broken, start, left, todo, stack, seen, walks>>

Push(d) ==
    /\ pc = "walking"
    /\ d \in todo
    /\ todo' = todo \ {d}
    /\ stack' = Append(stack, d)
    /\ UNCHANGED <<broken, pc, start, left, seen, walks>>

\* Mutant: the top of the stack is opened and stays on it.
PopKeepingTop ==
    /\ pc = "walking"
    /\ todo = {}
    /\ Len(stack) > 1
    /\ todo' = Children(Top)
    /\ UNCHANGED <<broken, pc, start, left, stack, seen, walks>>

\* Mutant: the previous node becomes the top, and is the one opened.
PopPrevious ==
    /\ pc = "walking"
    /\ todo = {}
    /\ Len(stack) > 1
    /\ stack' = SubSeq(stack, 1, Len(stack) - 1)
    /\ todo' = Children(stack[Len(stack) - 1])
    /\ UNCHANGED <<broken, pc, start, left, seen, walks>>

\* pop() and `goto back', as long as d_sptr # d_root.
Pop ==
    /\ pc = "walking"
    /\ todo = {}
    /\ Len(stack) > 1
    /\ stack' = SubSeq(stack, 1, Len(stack) - 1)
    /\ todo' = Children(Top)
    /\ UNCHANGED <<broken, pc, start, left, seen, walks>>

\* Mutant: the stack is cleared at the end of a call.
DoneClearing ==
    /\ pc = "walking"
    /\ todo = {}
    /\ Len(stack) <= 1
    /\ pc' = "done"
    /\ stack' = <<>>
    /\ UNCHANGED <<broken, start, left, todo, seen, walks>>

\* With one d_node left, d_sptr is d_root: it is never popped.
Done ==
    /\ pc = "walking"
    /\ todo = {}
    /\ Len(stack) <= 1
    /\ pc' = "done"
    /\ UNCHANGED <<broken, start, left, todo, stack, seen, walks>>

Walk ==
    \/ \E f \in Files : Compare(f) \/ Die(f)
    \/ \E d \in Dirs : Push(d)
    \/ Pop
    \/ Done

-----------------------------------------------------------------------------
(* Properties *)

\* Directories that this call has pushed and not opened yet.
Pending == {stack[i] : i \in (IF left THEN 2 ELSE 1) .. Len(stack)}

\* What the call has still to compare if every pending directory is opened.
Ahead == (UNION {FilesUnder(d) : d \in Pending \union (todo \cap Dirs)})
            \union (todo \cap Files)

(***************************************************************************)
(* The walk neither forgets a file nor compares one twice: the files under *)
(* the directory it was given are those compared and those ahead, and a    *)
(* file is not ahead of the walk by two ways.                              *)
(***************************************************************************)
NothingLostOrTwice ==
    pc = "walking" =>
        /\ seen \union Ahead = FilesUnder(start)
        /\ seen \cap Ahead = {}
        /\ \A i, j \in 1 .. Len(stack) :
              (i # j /\ {stack[i], stack[j]} \subseteq Pending
                     /\ (left => i > 1 /\ j > 1))
                => FilesUnder(stack[i]) \cap FilesUnder(stack[j]) = {}

(***************************************************************************)
(* What status() compares.  A call that finds the stack empty leaves out   *)
(* the whole tree below the first directory readdir returned to it; a      *)
(* later call in the same process leaves out nothing.                      *)
(***************************************************************************)
LeavesOutFirstDirectory ==
    pc = "done" =>
        seen = FilesUnder(start) \
                (IF ~left /\ stack # <<>> THEN FilesUnder(stack[1]) ELSE {})

\* A call of status() comes to its end, or the process does.
WalkEnds == (pc = "walking") ~> (pc \in {"done", "died"})
=============================================================================
