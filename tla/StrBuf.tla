------------------------------- MODULE StrBuf -------------------------------
(***************************************************************************)
(* The string buffer all of peg is written with (strbuf.c, strbuf.h): a    *)
(* piece of memory, how much of it is allocated and how much is in use.    *)
(* One action per operation, and one per round of a loop that reads.       *)
(*                                                                         *)
(* A buffer that was never allocated points to one static byte.  Bytes     *)
(* that realloc adds have any value: Junk.                                 *)
(***************************************************************************)
EXTENDS Naturals, Sequences

CONSTANTS
    Char,         \* characters: no NUL among them
    Blank,        \* those that isspace() knows
    NUL, Junk,
    Slack,        \* alloc_nr(x) is (x + 16) * 3 / 2
    ReadChunk,    \* 8192: what strbuf_read grows by
    FormatChunk,  \* 64: what strbuf_vaddf grows by
    MaxLen,       \* bound: characters in the buffer
    MaxData       \* bound: characters that one call adds

ASSUME StrBufAssumption ==
    /\ Blank \subseteq Char
    /\ NUL \notin Char /\ Junk \notin Char
    /\ Slack \in Nat /\ ReadChunk \in Nat \ {0} /\ FormatChunk \in Nat \ {0}
    /\ MaxLen \in Nat /\ MaxData \in Nat

VARIABLES
    alloc,   \* bytes allocated
    len,     \* bytes in use
    mem,     \* what buf points to: byte 0, byte 1, ...
    doing,   \* "nothing", or the loop that runs: "read", "line" or "getline"
    before,  \* what strbuf_read keeps, and the text when it began
    text     \* what the calls so far should have put into the buffer

vars == <<alloc, len, mem, doing, before, text>>

Byte == Char \union {NUL, Junk}

\* The bytes of a buffer with a allocated.
Cells(a) == IF a = 0 THEN {0} ELSE 0 .. a - 1

Data == UNION {[1 .. n -> Char] : n \in 0 .. MaxData}

NoRead == [alloc |-> 0, len |-> 0, text |-> <<>>]

Init ==
    /\ alloc = 0 /\ len = 0 /\ mem = [i \in {0} |-> NUL]
    /\ doing = "nothing" /\ before = NoRead
    /\ text = <<>>

Avail == IF alloc = 0 THEN 0 ELSE alloc - len - 1

-----------------------------------------------------------------------------
(* Memory *)

AllocNr(a) == ((a + Slack) * 3) \div 2

\* ALLOC_GROW
Enough(nr, a) ==
    IF nr <= a THEN a ELSE IF AllocNr(a) < nr THEN nr ELSE AllocNr(a)

\* Mutant: no room for the NUL.
GrownTight(extra) == Enough(len + extra, alloc)

\* What is allocated after strbuf_grow.
Grown(extra) == Enough(len + extra + 1, alloc)

\* What a byte holds after strbuf_grow; a first allocation starts with a NUL.
Kept(i) == IF i \in DOMAIN mem THEN mem[i] ELSE Junk

\* The memory with data from `pos' on.
Written(a, pos, data) ==
    [i \in Cells(a) |->
        IF pos <= i /\ i < pos + Len(data) THEN data[i - pos + 1] ELSE Kept(i)]

\* The same, and a NUL after it.
Terminated(a, pos, data) ==
    [i \in Cells(a) |->
        IF pos <= i /\ i < pos + Len(data) THEN data[i - pos + 1]
        ELSE IF i = pos + Len(data) THEN NUL ELSE Kept(i)]

\* Data is added at the end of a buffer with a allocated.
AddedTo(a, data) ==
    /\ alloc' = a
    /\ mem' = Terminated(a, len, data)
    /\ len' = len + Len(data)
    /\ text' = text \o data
    /\ UNCHANGED <<doing, before>>

Idle == doing = "nothing"

Fits(data) == data \in Data /\ Len(text) + Len(data) <= MaxLen

-----------------------------------------------------------------------------
(* Life cycle and size *)

Freed ==
    /\ alloc' = 0 /\ len' = 0 /\ mem' = [i \in {0} |-> NUL]

Release == Idle /\ Freed /\ text' = <<>> /\ UNCHANGED <<doing, before>>

Grow ==
    /\ Idle
    /\ \E extra \in 0 .. MaxData : AddedTo(Grown(extra), <<>>)

\* strbuf_setlen, strbuf_reset; nothing keeps the length from being too large.
SetLen ==
    /\ Idle
    /\ \E n \in 0 .. len :
        /\ len' = n
        /\ mem' = [mem EXCEPT ![n] = NUL]
        /\ text' = SubSeq(text, 1, n)
    /\ UNCHANGED <<alloc, doing, before>>

-----------------------------------------------------------------------------
(* Contents *)

\* The length without the blanks at the end, and the number of those at the
\* beginning.
IsTrimmed(n) ==
    /\ n \in 0 .. len
    /\ \A i \in n .. len - 1 : mem[i] \in Blank
    /\ n > 0 => mem[n - 1] \notin Blank

Leading(n) ==
    /\ n \in 0 .. len
    /\ \A i \in 0 .. n - 1 : mem[i] \in Blank
    /\ n < len => mem[n] \notin Blank

RTrim ==
    /\ Idle
    /\ \E n \in 0 .. len :
        /\ IsTrimmed(n)
        /\ len' = n
        /\ mem' = [mem EXCEPT ![n] = NUL]
        /\ text' = SubSeq(text, 1, n)
    /\ UNCHANGED <<alloc, doing, before>>

LTrim ==
    /\ Idle
    /\ \E n \in 0 .. len :
        /\ Leading(n)
        /\ len' = len - n
        /\ mem' = [i \in DOMAIN mem |->
                      IF i < len - n THEN mem[i + n] ELSE IF i = len - n THEN NUL ELSE mem[i]]
        /\ text' = SubSeq(text, n + 1, len)
    /\ UNCHANGED <<alloc, doing, before>>

\* strbuf_splice, strbuf_insert and strbuf_remove; they die beyond the end.
Splice ==
    /\ Idle
    /\ \E pos \in 0 .. len : \E n \in 0 .. len - pos : \E data \in Data :
        LET end == len + Len(data) - n
            room == IF Len(data) >= n THEN Grown(Len(data) - n) ELSE alloc
        IN  /\ end <= MaxLen
            /\ alloc' = room
            /\ mem' = [i \in Cells(room) |->
                          IF i < pos THEN mem[i]
                          ELSE IF i < pos + Len(data) THEN data[i - pos + 1]
                          ELSE IF i < end THEN mem[i - Len(data) + n]
                          ELSE IF i = end THEN NUL ELSE Kept(i)]
            /\ len' = end
            /\ text' = SubSeq(text, 1, pos) \o data \o SubSeq(text, pos + n + 1, len)
    /\ UNCHANGED <<doing, before>>

\* strbuf_add, strbuf_addstr, strbuf_addbuf and strbuf_addchars.
Add ==
    /\ Idle
    /\ \E data \in Data : Fits(data) /\ AddedTo(Grown(Len(data)), data)

AddCh ==
    /\ Idle
    /\ \E c \in Char :
        /\ Len(text) < MaxLen
        /\ AddedTo(IF Avail = 0 THEN Grown(1) ELSE alloc, <<c>>)

\* strbuf_complete
Complete ==
    /\ Idle /\ len > 0 /\ len < MaxLen
    /\ \E c \in Char :
        /\ mem[len - 1] # c
        /\ AddedTo(IF Avail = 0 THEN Grown(1) ELSE alloc, <<c>>)

\* A part of the buffer is copied from memory that may have moved.
AddDup ==
    /\ Idle
    /\ \E pos \in 0 .. len : \E n \in 0 .. len - pos :
        /\ len + n <= MaxLen
        /\ alloc' = Grown(n)
        /\ mem' = Terminated(Grown(n), len, [k \in 1 .. n |-> mem[pos + k - 1]])
        /\ len' = len + n
        /\ text' = text \o SubSeq(text, pos + 1, pos + n)
    /\ UNCHANGED <<doing, before>>

(***************************************************************************)
(* strbuf_vaddf: the text is formatted into what is there, and again if it *)
(* does not fit; peg_vsnprintf sets the last byte to NUL.                  *)
(***************************************************************************)
AddF ==
    /\ Idle
    /\ \E data \in Data :
        LET first == IF Avail = 0 THEN Grown(FormatChunk) ELSE alloc
            room == IF Len(data) > first - len - 1
                    THEN Enough(len + Len(data) + 1, first) ELSE first
        IN  /\ Fits(data)
            /\ alloc' = room
            /\ mem' = [Terminated(room, len, data) EXCEPT ![room - 1] = NUL]
            /\ len' = len + Len(data)
            /\ text' = text \o data
    /\ UNCHANGED <<doing, before>>

-----------------------------------------------------------------------------
(* Files *)

\* strbuf_fread: a buffer that was not allocated is not if nothing is read.
FRead ==
    /\ Idle
    /\ \E size \in 0 .. MaxData : \E data \in Data :
        /\ Fits(data) /\ Len(data) <= size
        /\ IF Len(data) = 0 /\ alloc = 0
           THEN UNCHANGED vars
           ELSE AddedTo(Grown(size), data)

ReadOnce ==
    /\ Idle
    /\ \E hint \in 0 .. MaxData : \E data \in Data :
        LET room == Grown(IF hint = 0 THEN ReadChunk ELSE hint) IN
        /\ Fits(data) /\ Len(data) <= room - len - 1
        /\ AddedTo(room, data)

\* strbuf_read
StartRead ==
    /\ Idle
    /\ \E hint \in 0 .. MaxData :
        LET room == Grown(IF hint = 0 THEN ReadChunk ELSE hint) IN
        /\ alloc' = room
        /\ mem' = Written(room, len, <<>>)
    /\ before' = [alloc |-> alloc, len |-> len, text |-> text]
    /\ doing' = "read"
    /\ UNCHANGED <<len, text>>

\* Less than wanted is the end of the file.
ReadLast ==
    /\ doing = "read"
    /\ \E data \in Data :
        /\ Fits(data) /\ Len(data) < alloc - len - 1
        /\ mem' = Terminated(alloc, len, data)
        /\ len' = len + Len(data)
        /\ text' = text \o data
    /\ doing' = "nothing" /\ before' = NoRead
    /\ UNCHANGED alloc

ReadMore ==
    /\ doing = "read"
    /\ \E data \in Data :
        LET room == Enough(len + Len(data) + ReadChunk + 1, alloc) IN
        /\ Fits(data) /\ Len(data) = alloc - len - 1
        /\ alloc' = room
        /\ mem' = Written(room, len, data)
        /\ len' = len + Len(data)
        /\ text' = text \o data
    /\ UNCHANGED <<doing, before>>

\* What was read is undone.
ReadFails ==
    /\ doing = "read"
    /\ IF before.alloc = 0 THEN Freed
       ELSE /\ len' = before.len
            /\ mem' = [mem EXCEPT ![before.len] = NUL]
            /\ UNCHANGED alloc
    /\ text' = before.text
    /\ doing' = "nothing" /\ before' = NoRead

\* strbuf_getwholeline and strbuf_getline, which takes the end off the line.
StartLine ==
    /\ Idle
    /\ len' = 0 /\ mem' = [mem EXCEPT ![0] = NUL]
    /\ text' = <<>>
    /\ doing' \in {"line", "getline"}
    /\ UNCHANGED <<alloc, before>>

LineRoom == IF Avail = 0 THEN Grown(1) ELSE alloc

LineChar ==
    /\ doing \in {"line", "getline"}
    /\ \E c \in Char :
        /\ Len(text) < MaxLen
        /\ alloc' = LineRoom
        /\ mem' = Written(LineRoom, len, <<c>>)
        /\ len' = len + 1
        /\ text' = Append(text, c)
    /\ UNCHANGED <<doing, before>>

\* Any character may be the one that ends a line.
LineTerm ==
    /\ doing \in {"line", "getline"}
    /\ \E c \in Char :
        LET stored == Terminated(LineRoom, len, <<c>>) IN
        /\ Len(text) < MaxLen
        /\ alloc' = LineRoom
        /\ IF doing = "getline"
           THEN mem' = [stored EXCEPT ![len] = NUL] /\ UNCHANGED <<len, text>>
           ELSE mem' = stored /\ len' = len + 1 /\ text' = Append(text, c)
    /\ doing' = "nothing"
    /\ UNCHANGED before

LineEof ==
    /\ doing \in {"line", "getline"}
    /\ mem' = [mem EXCEPT ![len] = NUL]
    /\ doing' = "nothing"
    /\ UNCHANGED <<alloc, len, before, text>>

-----------------------------------------------------------------------------
Next ==
    \/ Release \/ Grow \/ SetLen \/ RTrim \/ LTrim \/ Splice
    \/ Add \/ AddCh \/ Complete \/ AddDup \/ AddF
    \/ FRead \/ ReadOnce \/ StartRead \/ ReadLast \/ ReadMore \/ ReadFails
    \/ StartLine \/ LineChar \/ LineTerm \/ LineEof

Spec == Init /\ [][Next]_vars

-----------------------------------------------------------------------------
(* Property *)

\* Between calls the buffer holds the text that the calls put together, and a
\* NUL after it, all within what is allocated (strbuf.h:79, strbuf.h:217).
BufferHoldsText ==
    /\ DOMAIN mem = Cells(alloc)
    /\ len \in DOMAIN mem
    /\ len = Len(text)
    /\ \A i \in 1 .. len : mem[i - 1] = text[i]
    /\ Idle => mem[len] = NUL

=============================================================================
