------------------------------ MODULE Wrappers ------------------------------
(***************************************************************************)
(* The wrappers of libc functions in the tracked target (llvm_mode/        *)
(* dfsan_rt/dfsan/dfsan_custom.cc, the struct tainted of dfsan.cc): one    *)
(* action per wrapper, or per group of wrappers that do the same.  The     *)
(* program calls them in any order; they label what it reads from its      *)
(* input and move labels along with bytes.                                 *)
(*                                                                         *)
(* Memory is a set of blocks; a cell has the byte it holds and its label.  *)
(* A byte is Nul, Chr, the input's byte at an offset, or (N) its size.     *)
(* The label of byte o is o + CONST_OFFSET, as InitializeTaintFile makes   *)
(* them; a label of several input bytes is in module Taint.  The label is  *)
(* Unknown when a call wrote the byte and left the old label: the model    *)
(* does not say what it is.  Where the code writes a label the model does, *)
(* the wrong ones included; what led to one is noted in habits.            *)
(* Positions of descriptors and streams are one: a program uses one or     *)
(* the other.                                                              *)
(*                                                                         *)
(* Faulty variants of the operations follow the word "Bug"; no behaviour   *)
(* of Spec uses them.                                                      *)
(***************************************************************************)
EXTENDS Integers, FiniteSets

CONSTANTS
  N,          \* size of the input, tainted.size
  MaxFd,      \* bound: largest descriptor
  Blocks,     \* blocks of memory
  L,          \* bytes of a block
  SizeLimit,  \* 256: dfsan_union takes the size of an operation as a u8
  MaxCalls    \* bound: calls of the program

ASSUME SizeAssumption == N \in Nat \ {0} /\ MaxFd \in Nat /\ L \in Nat \ {0} /\ SizeLimit \in Nat \ {0}

VARIABLES
  input,      \* the bytes of the input file: 0, or 1 for any other value
  tainted,    \* what the runtime knows: fd, is_utmp, offset
  desc,       \* the file and the position of each descriptor
  ut,         \* the file and the position of the utmpx functions
  mem,        \* the cells of each block
  kind,       \* each block: heap or map when in use, else fresh or freed
  cmp,        \* the last call, if it was a comparison
  habits,     \* history: what the program did that the runtime does not follow
  calls       \* calls so far

vars == <<input, tainted, desc, ut, mem, kind, cmp, habits, calls>>

CONST_OFFSET == 1
Initializing == -1
Unknown == -2
Nul == -2
Chr == -1
Offsets == 0 .. N - 1
Inputs == [Offsets -> {0, 1}]
Fds == 0 .. MaxFd
Paths == {"input", "other"}
Idx == 0 .. L - 1

LabelOf(b) == IF b >= 0 THEN b + CONST_OFFSET ELSE 0
Value(b, in) == IF b \in Offsets THEN in[b] ELSE IF b = Nul THEN 0 ELSE 1
Cell(b, l) == [byte |-> b, label |-> l]
Plain(b) == Cell(b, 0)
Closed == [path |-> "none", pos |-> 0]
NoCmp == [name |-> "none", s1 |-> 0, s2 |-> 0, n |-> 0, len |-> 0, size |-> 0]

(* habits.  lost: the input is on a descriptor the runtime does not know;  *)
(* stdin: descriptor 0 is another file, and the runtime has not opened one *)
(* yet; stat: of another file than the utmpx functions read; moved: their  *)
(* position, by a function without a wrapper.  What the wrappers labelled  *)
(* wrongly: misread: another file by the descriptor in tainted.fd; anon:   *)
(* an anonymous mapping, by the descriptor -1 of a closed input; zero: a   *)
(* zero byte of the input that fgets took for the end of the string;       *)
(* record: after stat or moved.                                            *)

(* The fuzzer names the input file in TAINT_OPTIONS; it is also descriptor *)
(* 0 of a target that reads stdin.  tainted.fd is 0 before anything is     *)
(* opened.  Blocks in use hold a constant, one character or all of them.   *)
Init ==
  /\ input \in Inputs
  /\ tainted = [fd |-> 0, is_utmp |-> 0, offset |-> 0]
  /\ \E p \in Paths :
       /\ desc = [fd \in Fds |-> IF fd = 0 THEN [path |-> p, pos |-> 0] ELSE Closed]
       /\ habits = IF p = "input" THEN {} ELSE {"stdin"}
  /\ ut = [path |-> "other", pos |-> 0]
  /\ kind \in [Blocks -> {"heap", "fresh"}]
  /\ \E k \in {1, L - 1} : mem = [b \in Blocks |-> [i \in Idx |-> Plain(IF kind[b] = "heap" /\ i < k THEN Chr ELSE Nul)]]
  /\ cmp = NoCmp /\ calls = 0

-----------------------------------------------------------------------------
(* The struct tainted. *)
OnInput(fd) == fd \in Fds /\ desc[fd].path = "input"
taint_get_file(fd) == IF tainted.fd = fd THEN N ELSE 0
taint_set_file(path, fd) == IF path = "input" THEN [tainted EXCEPT !.fd = fd] ELSE tainted

BugCloseAny(fd) == tainted
taint_close_file(fd) == IF tainted.fd = fd THEN [tainted EXCEPT !.fd = -1] ELSE tainted
is_taint_file(path) == [tainted EXCEPT !.is_utmp = IF path = "input" THEN 1 ELSE 0]

(* What a call of the program is allowed to use, and what it leaves alone. *)
Live(b) == kind[b] \in {"heap", "map"}
Call(c) == calls' = calls + 1 /\ cmp' = c /\ UNCHANGED input
Files == <<tainted, desc, ut, habits>>
Write(b, f) == mem' = [mem EXCEPT ![b] = f] /\ UNCHANGED kind
Mislabels(h) == habits' = habits \cup h
Habit(h) == habits' = (IF tainted'.fd = 0 THEN habits ELSE habits \ {"stdin"}) \cup h

-----------------------------------------------------------------------------
(* open: the lowest free descriptor, or -1; the test `if (fd)` lets -1     *)
(* through and holds back 0.  fopen asks whether it has a stream.          *)
Lowest(fd) == desc[fd] = Closed /\ \A e \in Fds : desc[e] = Closed => fd <= e
InputOpen == \E fd \in Fds : OnInput(fd)

Opened(path, fd) ==
  /\ desc' = [desc EXCEPT ![fd] = [path |-> path, pos |-> 0]]
  /\ UNCHANGED <<ut, mem, kind>>

Open(path, fd) ==
  /\ Call(NoCmp) /\ Lowest(fd)
  /\ Opened(path, fd)
  /\ tainted' = IF fd # 0 THEN taint_set_file(path, fd) ELSE tainted
  /\ Habit(IF path = "input" /\ (InputOpen \/ fd = 0) THEN {"lost"} ELSE {})

OpenFails(path) ==
  /\ Call(NoCmp)
  /\ tainted' = taint_set_file(path, -1)
  /\ Habit(IF path = "input" /\ InputOpen THEN {"lost"} ELSE {})
  /\ UNCHANGED <<desc, ut, mem, kind>>

Fopen(path, fd) ==
  /\ Call(NoCmp) /\ Lowest(fd)
  /\ Opened(path, fd)
  /\ tainted' = taint_set_file(path, fd)
  /\ Habit(IF path = "input" /\ InputOpen THEN {"lost"} ELSE {})

(* freopen keeps the descriptor; if it fails the descriptor is closed. *)
Freopen(fd, path, ok) ==
  /\ Call(NoCmp) /\ desc[fd] # Closed
  /\ desc' = [desc EXCEPT ![fd] = IF ok THEN [path |-> path, pos |-> 0] ELSE Closed]
  /\ tainted' = IF ok THEN taint_set_file(path, fd) ELSE tainted
  /\ Habit({"lost"})
  /\ UNCHANGED <<ut, mem, kind>>

Close(fd) ==
  /\ Call(NoCmp) /\ desc[fd] # Closed
  /\ tainted' = taint_close_file(fd)
  /\ desc' = [desc EXCEPT ![fd] = Closed]
  /\ Habit({})
  /\ UNCHANGED <<ut, mem, kind>>

(* fclose may fail to flush: the descriptor is closed all the same. *)
Fclose(fd, ok) ==
  /\ Call(NoCmp) /\ desc[fd] # Closed
  /\ tainted' = IF ok THEN taint_close_file(fd) ELSE tainted
  /\ desc' = [desc EXCEPT ![fd] = Closed]
  /\ Habit(IF ok THEN {} ELSE {"lost"})
  /\ UNCHANGED <<ut, mem, kind>>

(* dup and dup2 have no wrapper. *)
Dup2(fd, to) ==
  /\ Call(NoCmp) /\ desc[fd] # Closed
  /\ desc' = [desc EXCEPT ![to] = desc[fd]]
  /\ UNCHANGED <<tainted, ut, mem, kind>>
  /\ Habit({"lost"})

(* lseek and fseek; where they go is the program's choice. *)
Lseek(fd, off) ==
  /\ Call(NoCmp) /\ desc[fd] # Closed
  /\ desc' = [desc EXCEPT ![fd].pos = off]
  /\ UNCHANGED <<tainted, ut, mem, kind, habits>>

-----------------------------------------------------------------------------
(* Bytes of a file; those of the other file are all Chr. *)
FileByte(path, o) == IF path = "input" THEN o ELSE Chr
get_label_for(fd, o) == IF taint_get_file(fd) # 0 THEN o + CONST_OFFSET ELSE 0
ReadCell(fd, o) == Cell(FileByte(desc[fd].path, o), get_label_for(fd, o))
Misread(fd) == IF taint_get_file(fd) # 0 /\ ~OnInput(fd) THEN {"misread"} ELSE {}

BugFromStart(b, fd, o, k) ==
  [i \in Idx |-> IF i < k THEN Cell(ReadCell(fd, o + i).byte, ReadCell(fd, i).label) ELSE mem[b][i]]
Filled(b, fd, o, k) == [i \in Idx |-> IF i < k THEN ReadCell(fd, o + i) ELSE mem[b][i]]

(* How many of n bytes a read may return. *)
Min2(a, c) == IF a < c THEN a ELSE c
Returns(o, n) == IF o >= N THEN {0} ELSE 1 .. Min2(n, N - o)

(* read, with the offset from lseek before it, and fread of single bytes,  *)
(* with the offset from ftell.                                             *)
Read(fd, b, n) ==
  /\ Call(NoCmp) /\ desc[fd] # Closed /\ Live(b)
  /\ \E ret \in Returns(desc[fd].pos, n) :
       /\ Write(b, Filled(b, fd, desc[fd].pos, ret))
       /\ desc' = [desc EXCEPT ![fd].pos = @ + ret]
  /\ Mislabels(Misread(fd))
  /\ UNCHANGED <<tainted, ut>>

Pread(fd, b, n, o) ==
  /\ Call(NoCmp) /\ desc[fd] # Closed /\ Live(b)
  /\ \E ret \in Returns(o, n) : Write(b, Filled(b, fd, o, ret))
  /\ Mislabels(Misread(fd))
  /\ UNCHANGED <<tainted, desc, ut>>

(* fread of elements of two bytes: a last byte that makes no element is    *)
(* stored but not labelled.                                                *)
Fread(fd, b) ==
  /\ Call(NoCmp) /\ desc[fd] # Closed /\ Live(b) /\ L >= 2
  /\ \E got \in Returns(desc[fd].pos, 2) :
       /\ Write(b, [i \in Idx |->
            CASE i < got /\ got = 2 -> ReadCell(fd, desc[fd].pos + i)
              [] i < got /\ got # 2 -> Cell(FileByte(desc[fd].path, desc[fd].pos + i), Unknown)
              [] OTHER -> mem[b][i]])
       /\ desc' = [desc EXCEPT ![fd].pos = @ + got]
  /\ Mislabels(Misread(fd))
  /\ UNCHANGED <<tainted, ut>>

Fgetc(fd, b, i) ==
  /\ Call(NoCmp) /\ desc[fd] # Closed /\ Live(b) /\ desc[fd].pos < N
  /\ Write(b, [mem[b] EXCEPT ![i] = ReadCell(fd, desc[fd].pos)])
  /\ desc' = [desc EXCEPT ![fd].pos = @ + 1]
  /\ Mislabels(Misread(fd))
  /\ UNCHANGED <<tainted, ut>>

(* At the end of the file getline returns -1, for which the wrapper clears *)
(* the label of the byte before the buffer: the header of the heap block.  *)
Line(b, fd, ret) == IF ret = 0 THEN mem[b] ELSE [Filled(b, fd, desc[fd].pos, ret) EXCEPT ![ret] = Plain(Nul)]
Getline(fd, b) ==
  /\ Call(NoCmp) /\ desc[fd] # Closed /\ kind[b] = "heap"
  /\ \E ret \in Returns(desc[fd].pos, L - 1) :
       /\ Write(b, Line(b, fd, ret))
       /\ desc' = [desc EXCEPT ![fd].pos = @ + ret]
  /\ Mislabels(Misread(fd))
  /\ UNCHANGED <<tainted, ut>>

(* fgets labels strlen of what it returns, and 0 behind that: a zero byte  *)
(* of the input is taken for the terminator, and what follows it keeps its *)
(* old labels.                                                             *)
FirstNul(f, len) == Value(f[len].byte, input) = 0 /\ \A j \in 0 .. len - 1 : Value(f[j].byte, input) # 0
FgetsCell(c, i, len) == IF i < len THEN c ELSE Cell(c.byte, IF i = len THEN 0 ELSE Unknown)
Fgets(fd, b) ==
  /\ Call(NoCmp) /\ desc[fd] # Closed /\ Live(b)
  /\ \E ret \in Returns(desc[fd].pos, L - 1) \ {0}, len \in Idx :
       LET got == Line(b, fd, ret) IN
         /\ FirstNul(got, len)
         /\ Write(b, [i \in Idx |-> IF i <= ret THEN FgetsCell(got[i], i, len) ELSE got[i]])
         /\ desc' = [desc EXCEPT ![fd].pos = @ + ret]
         /\ Mislabels(Misread(fd) \cup (IF len # ret THEN {"zero"} ELSE {}))
  /\ UNCHANGED <<tainted, ut>>

-----------------------------------------------------------------------------
(* stat and lstat, which also say whether the utmpx functions read the     *)
(* input, and fstat: the labels of a struct that describes another file    *)
(* are left as they are.                                                   *)
Stated == [i \in Idx |-> IF i = 0 THEN Cell(N, N + CONST_OFFSET) ELSE Plain(Chr)]
Unlabelled == [i \in Idx |-> Cell(Chr, Unknown)]

Stat(path, b) ==
  /\ Call(NoCmp) /\ Live(b)
  /\ tainted' = is_taint_file(path)
  /\ Write(b, IF tainted'.is_utmp = 1 THEN Stated ELSE Unlabelled)
  /\ Habit(IF path # ut.path THEN {"stat"} ELSE {})
  /\ UNCHANGED <<desc, ut>>

Fstat(fd, b) ==
  /\ Call(NoCmp) /\ desc[fd] # Closed /\ Live(b)
  /\ Write(b, CASE taint_get_file(fd) = 0 -> Unlabelled
                [] taint_get_file(fd) # 0 /\ OnInput(fd) -> Stated
                [] taint_get_file(fd) # 0 /\ ~OnInput(fd) -> [i \in Idx |-> Cell(Chr, Stated[i].label)])
  /\ Mislabels(Misread(fd))
  /\ UNCHANGED <<tainted, desc, ut>>

(* The utmpx functions, with records of one byte. *)
Utmpxname(path) ==
  /\ Call(NoCmp)
  /\ tainted' = [is_taint_file(path) EXCEPT !.offset = IF path = "input" THEN 0 ELSE @]
  /\ ut' = [path |-> path, pos |-> 0]
  /\ habits' = habits \ {"stat", "moved"}
  /\ UNCHANGED <<desc, mem, kind>>

Setutxent ==
  /\ Call(NoCmp)
  /\ tainted' = [tainted EXCEPT !.offset = IF tainted.is_utmp = 1 THEN 0 ELSE @]
  /\ ut' = [ut EXCEPT !.pos = 0]
  /\ habits' = habits \ {"moved"}
  /\ UNCHANGED <<desc, mem, kind>>

BugOffsetKept(t) == t
NextRecord(t) == [t EXCEPT !.offset = @ + 1]
Getutxent(b, i) ==
  /\ Call(NoCmp) /\ Live(b) /\ ut.pos < N
  /\ Write(b, [mem[b] EXCEPT ![i] =
       Cell(FileByte(ut.path, ut.pos), IF tainted.is_utmp = 1 THEN tainted.offset + CONST_OFFSET ELSE Unknown)])
  /\ tainted' = IF tainted.is_utmp = 1 THEN NextRecord(tainted) ELSE tainted
  /\ ut' = [ut EXCEPT !.pos = @ + 1]
  /\ Mislabels(IF tainted.is_utmp = 1 /\ habits \cap {"stat", "moved"} # {} THEN {"record"} ELSE {})
  /\ UNCHANGED desc

(* endutxent, getutxid and getutxline have no wrapper: the first goes back *)
(* to the start, the others skip to a record p, and leave its labels.      *)
Endutxent ==
  /\ Call(NoCmp)
  /\ ut' = [ut EXCEPT !.pos = 0]
  /\ Mislabels({"moved"})
  /\ UNCHANGED <<tainted, desc, mem, kind>>

Getutxid(b, i, p) ==
  /\ Call(NoCmp) /\ Live(b) /\ ut.pos <= p
  /\ Write(b, [mem[b] EXCEPT ![i] = Cell(FileByte(ut.path, p), Unknown)])
  /\ ut' = [ut EXCEPT !.pos = p + 1]
  /\ Mislabels({"moved"})
  /\ UNCHANGED <<tainted, desc>>

-----------------------------------------------------------------------------
(* Blocks come and go.  malloc, calloc and free leave labels alone, so a   *)
(* block that was freed comes back with its old ones.                      *)
Taken(b, k) == kind' = [kind EXCEPT ![b] = k]
Idle(b) == ~Live(b)

Malloc(b) ==
  /\ Call(NoCmp) /\ Idle(b)
  /\ Taken(b, "heap")
  /\ mem' = [mem EXCEPT ![b] = [i \in Idx |-> Cell(@[i].byte, Unknown)]]
  /\ UNCHANGED Files

Calloc(b) ==
  /\ Call(NoCmp) /\ Idle(b)
  /\ Taken(b, "heap")
  /\ mem' = [mem EXCEPT ![b] = [i \in Idx |-> Cell(Nul, IF kind[b] = "fresh" THEN 0 ELSE Unknown)]]
  /\ UNCHANGED Files

FreeBlock(b) == Call(NoCmp) /\ kind[b] = "heap" /\ Taken(b, "freed") /\ UNCHANGED <<mem, Files>>

(* realloc that moves the block to d and makes it n bytes long; one that   *)
(* leaves it in place touches no label.                                    *)
Realloc(b, d, n) ==
  /\ Call(NoCmp) /\ kind[b] = "heap" /\ Idle(d)
  /\ kind' = [kind EXCEPT ![b] = "freed", ![d] = "heap"]
  /\ mem' = [mem EXCEPT ![d] = [i \in Idx |-> IF i < n THEN mem[b][i] ELSE Cell(@[i].byte, Unknown)]]
  /\ UNCHANGED Files

(* mmap of a file, or (-1) of no file; taint_get_file(-1) is the size of   *)
(* the input as long as the input is closed.                               *)
MappedLength(o) == IF o + L > N THEN N - o ELSE L
Mmap(fd, b, o) ==
  /\ Call(NoCmp) /\ Idle(b) /\ (fd \in Fds => desc[fd] # Closed)
  /\ Taken(b, "map")
  /\ mem' = [mem EXCEPT ![b] = [i \in Idx |->
       Cell(IF fd # -1 /\ o + i < N THEN FileByte(desc[fd].path, o + i) ELSE Nul,
            IF taint_get_file(fd) # 0 /\ i >= MappedLength(o) THEN Initializing ELSE get_label_for(fd, o + i))]]
  /\ Mislabels(IF fd # -1 THEN Misread(fd) ELSE IF taint_get_file(fd) # 0 THEN {"anon"} ELSE {})
  /\ UNCHANGED <<tainted, desc, ut>>

Munmap(b) ==
  /\ Call(NoCmp) /\ kind[b] = "map"
  /\ Taken(b, "fresh")
  /\ mem' = [mem EXCEPT ![b] = [i \in Idx |-> Plain(Nul)]]
  /\ UNCHANGED Files

-----------------------------------------------------------------------------
(* Bytes move with their labels.  Strlen is empty for what is no string. *)
Byte(b, i) == Value(mem[b][i].byte, input)
Strlen(b) == {k \in Idx : Byte(b, k) = 0 /\ \A j \in 0 .. k - 1 : Byte(b, j) # 0}
dfsan_memcpy(d, at, s, n) == [i \in Idx |-> IF i >= at /\ i < at + n THEN mem[s][i - at] ELSE mem[d][i]]

Memcpy(d, s, n) ==
  /\ Call(NoCmp) /\ Live(d) /\ Live(s) /\ d # s
  /\ Write(d, dfsan_memcpy(d, 0, s, n))
  /\ UNCHANGED Files

(* memmove within a block, through a copy of the labels. *)
Moved(b, to, from, n) == [i \in Idx |-> IF i >= to /\ i < to + n THEN mem[b][i - to + from] ELSE mem[b][i]]
Memmove(b, to, from, n) ==
  /\ Call(NoCmp) /\ Live(b) /\ to + n <= L /\ from + n <= L
  /\ Write(b, Moved(b, to, from, n))
  /\ UNCHANGED Files

(* memset with a byte that may be labelled, and a store by the program. *)
Memset(b, n, c) ==
  /\ Call(NoCmp) /\ Live(b)
  /\ Write(b, [i \in Idx |-> IF i < n THEN c ELSE mem[b][i]])
  /\ UNCHANGED Files

Strcpy(d, s) ==
  /\ Call(NoCmp) /\ Live(d) /\ Live(s) /\ d # s
  /\ \E len \in Strlen(s) : Write(d, dfsan_memcpy(d, 0, s, len + 1))
  /\ UNCHANGED Files

Strcat(d, s) ==
  /\ Call(NoCmp) /\ Live(d) /\ Live(s) /\ d # s
  /\ \E at \in Strlen(d), len \in Strlen(s) : at + len < L /\ Write(d, dfsan_memcpy(d, at, s, len + 1))
  /\ UNCHANGED Files

Padded(d, s, len, n) ==
  [i \in Idx |-> CASE i <= len -> mem[s][i]
                  [] i > len /\ i < n -> Plain(Nul)
                  [] i > len /\ i >= n -> mem[d][i]]
Strncpy(d, s, n) ==
  /\ Call(NoCmp) /\ Live(d) /\ Live(s) /\ d # s
  /\ \E len \in Strlen(s) : Write(d, IF len < n THEN Padded(d, s, len, n) ELSE dfsan_memcpy(d, 0, s, n))
  /\ UNCHANGED Files

Strdup(d, s) ==
  /\ Call(NoCmp) /\ Idle(d) /\ Live(s)
  /\ Taken(d, "heap")
  /\ \E len \in Strlen(s) :
       mem' = [mem EXCEPT ![d] = [i \in Idx |-> IF i <= len THEN mem[s][i] ELSE Cell(@[i].byte, Unknown)]]
  /\ UNCHANGED Files

(* Functions that fill a struct or a string with what is no input.  A      *)
(* function without a wrapper does the same and leaves the labels.         *)
SetOutput(b) == Call(NoCmp) /\ Live(b) /\ Write(b, [i \in Idx |-> Plain(Chr)]) /\ UNCHANGED Files
Unwrapped(b) == Call(NoCmp) /\ Live(b) /\ Write(b, Unlabelled) /\ UNCHANGED Files
-----------------------------------------------------------------------------
(* Comparisons: the label of the result says how many bytes decide it.     *)
(* Both arguments of a string comparison are strings.  dfsan_union         *)
(* narrows the number, len, to size.                                       *)
Narrow(len) == len % SizeLimit
Compared(name, a, b, n, len) ==
  Call([name |-> name, s1 |-> a, s2 |-> b, n |-> n, len |-> len, size |-> Narrow(len)])
dfsan_get_label(b) == IF mem[b][0].label = Unknown THEN {0, 1} ELSE {mem[b][0].label}

BugSizeOfFirst(a, b) == {len + 1 : len \in Strlen(a)}
StrcmpSize(a, b) ==
  LET sized == (IF 0 \in dfsan_get_label(a) THEN Strlen(a) ELSE {}) \cup
               (IF dfsan_get_label(a) # {0} THEN Strlen(b) ELSE {})
  IN  {len + 1 : len \in sized}
Shorter(b, n) == {IF l = 0 /\ len < n - 1 THEN len + 1 ELSE n : l \in dfsan_get_label(b), len \in Strlen(b)}

Memcmp(a, b, n) == Live(a) /\ Live(b) /\ Compared("memcmp", a, b, n, n) /\ UNCHANGED <<mem, kind, Files>>
Strcmp(a, b) ==
  /\ Live(a) /\ Live(b) /\ Strlen(a) # {} /\ Strlen(b) # {}
  /\ \E size \in StrcmpSize(a, b) : Compared("strcmp", a, b, L, size)
  /\ UNCHANGED <<mem, kind, Files>>
Strncmp(a, b, n) ==
  /\ Live(a) /\ Live(b) /\ n > 0
  /\ \E m \in Shorter(a, n) : \E size \in Shorter(b, m) : Compared("strncmp", a, b, n, size)
  /\ UNCHANGED <<mem, kind, Files>>

-----------------------------------------------------------------------------
FileCalls ==
  \/ \E path \in Paths, fd \in Fds : Open(path, fd) \/ Fopen(path, fd)
  \/ \E path \in Paths : OpenFails(path) \/ Utmpxname(path)
  \/ \E fd \in Fds, path \in Paths, ok \in BOOLEAN : Freopen(fd, path, ok)
  \/ \E fd \in Fds : Close(fd) \/ \E ok \in BOOLEAN : Fclose(fd, ok)
  \/ \E fd, to \in Fds : Dup2(fd, to)
  \/ \E fd \in Fds, off \in 0 .. N : Lseek(fd, off)
  \/ Setutxent \/ Endutxent

ReadCalls ==
  \E b \in Blocks :
    \/ \E fd \in Fds : Fread(fd, b) \/ Getline(fd, b) \/ Fgets(fd, b) \/ Fstat(fd, b)
    \/ \E fd \in Fds, n \in 1 .. L : Read(fd, b, n) \/ \E o \in 0 .. N : Pread(fd, b, n, o)
    \/ \E fd \in Fds, i \in Idx : Fgetc(fd, b, i)
    \/ \E fd \in Fds \cup {-1}, o \in 0 .. N : Mmap(fd, b, o)
    \/ \E path \in Paths : Stat(path, b)
    \/ \E i \in Idx : Getutxent(b, i) \/ \E p \in Offsets : Getutxid(b, i, p)

MemoryCalls ==
  \/ \E b \in Blocks : Malloc(b) \/ Calloc(b) \/ FreeBlock(b) \/ Munmap(b) \/ SetOutput(b) \/ Unwrapped(b)
  \/ \E b \in Blocks, to, from \in Idx, n \in 1 .. L : Memmove(b, to, from, n)
  \/ \E b, s \in Blocks, n \in 1 .. L, i \in Idx : mem[s][i].label # Unknown /\ Memset(b, n, mem[s][i])
  \/ \E d, s \in Blocks : Strcpy(d, s) \/ Strcat(d, s) \/ Strdup(d, s)
  \/ \E d, s \in Blocks, n \in 1 .. L : Memcpy(d, s, n) \/ Strncpy(d, s, n) \/ Realloc(s, d, n)

Comparisons ==
  \E a, b \in Blocks : Strcmp(a, b) \/ \E n \in 1 .. L : Memcmp(a, b, n) \/ Strncmp(a, b, n)

Next == calls < MaxCalls /\ (FileCalls \/ ReadCalls \/ MemoryCalls \/ Comparisons)

Spec == Init /\ [][Next]_vars

-----------------------------------------------------------------------------
(* taint_get_file and the struct tainted: while the program opens the      *)
(* input once at a time through open, fopen and close, and gets no         *)
(* descriptor 0 from open, the runtime knows exactly which descriptor      *)
(* the input is on, whatever else is opened, closed and opened again at    *)
(* the same descriptor.                                                    *)
Followed == habits \cap {"lost", "stdin"} = {} => {fd \in Fds : OnInput(fd)} = {tainted.fd} \ {-1}

(* is_taint_file, set_utmp_offset: the utmpx wrappers label records of the *)
(* input and of no other file, from the offset at which libc reads, if     *)
(* since utmpxname no other file was given to stat, and since utmpxname or *)
(* setutxent no function without a wrapper moved libc's position: each of  *)
(* the two sets right what came before it.                                 *)
UtmpFollowed ==
  habits \cap {"stat", "moved"} = {} => /\ tainted.is_utmp = 1 <=> ut.path = "input"
                                        /\ tainted.is_utmp = 1 => tainted.offset = ut.pos

(* The wrappers as a whole: a byte has the label of the input offset it    *)
(* came from and no other, however it got there, unless the last call that *)
(* wrote it left its label alone (Unknown).  Of the wrong labels that the  *)
(* wrappers do give, only these are anywhere: on zeros, the uninitialised  *)
(* mark behind the mapped end of the input, and any in anonymous mappings; *)
(* none, on a zero byte of the input from fgets; and any on bytes of a     *)
(* file that the runtime took for the input.  This is so until the runtime *)
(* loses the input or labels a record at the wrong offset.                 *)
RightLabel(c) ==
  \/ c.label \in {LabelOf(c.byte), Unknown}
  \/ c.byte = Nul /\ (c.label = Initializing \/ "anon" \in habits)
  \/ c.byte >= 0 /\ c.label = 0 /\ Value(c.byte, input) = 0 /\ "zero" \in habits
  \/ c.byte = Chr /\ "misread" \in habits
LabelsFollowBytes ==
  habits \cap {"lost", "record"} = {} => \A b \in Blocks, i \in Idx : RightLabel(mem[b][i])

(* What the C function returns on another input. *)
At(b, i, in) == Value(mem[b][i].byte, in)
SameTo(a, b, n, in) == \A i \in 0 .. n - 1 : At(a, i, in) = At(b, i, in)
SameString(a, b, n, in) ==
  \A i \in 0 .. n - 1 : (\A j \in 0 .. i - 1 : At(a, j, in) # 0) => At(a, i, in) = At(b, i, in)
InputFree(b) == \A len \in Strlen(b) : \A i \in 0 .. len : mem[b][i].byte < 0

(* strcmp and strncmp: the bytes named in the label of the result decide   *)
(* the comparison on every input, not only on the one that was run, if one *)
(* argument has no input byte, one that begins without an input byte has   *)
(* none, and every byte has the right label.  Of 256 bytes and more the    *)
(* label names the remainder only: these are equal if the strings are, but *)
(* decide nothing.                                                         *)
CompareDecides ==
  LET c == cmp
      args == {c.s1, c.s2}
      labelled == \A b \in args, i \in Idx : mem[b][i].label = LabelOf(mem[b][i].byte)
      oneFixed == /\ \E b \in args : InputFree(b)
                  /\ \A b \in args : mem[b][0].byte < 0 => InputFree(b)
  IN  c.name \in {"strcmp", "strncmp"} /\ labelled /\ oneFixed =>
        \A in \in Inputs :
          /\ SameString(c.s1, c.s2, c.n, in) => SameTo(c.s1, c.s2, c.size, in)
          /\ c.len < SizeLimit /\ SameTo(c.s1, c.s2, c.size, in) => SameString(c.s1, c.s2, c.n, in)
=============================================================================
