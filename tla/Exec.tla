-------------------------------- MODULE Exec --------------------------------
(***************************************************************************)
(* Building a new program: sys_execve's copy of the arguments, the checks  *)
(* of lib/elf.c and check_layout, load_segments and setup_stack.  The new  *)
(* address space is private until the end of the call, so after the copies *)
(* from user memory, which may fault at each string, the rest is one step  *)
(* that any allocation may fail.  Addresses and sizes are counted in small *)
(* units; U64 and I64 are the largest values of their types.  A string is  *)
(* its number and its length; a byte of memory is known by the object it   *)
(* belongs to and its place there.                                         *)
(***************************************************************************)
EXTENDS Integers, SequencesExt

CONSTANTS
  Page, Word, Align,          \* PAGE_SIZE, sizeof(long), USTACK_ALIGN
  UvStart, Bottom, Top,       \* UVADDR_START, USTACK_BOTTOM, USTACK_TOP
  EhSize, PhSize,             \* sizeof the ELF headers
  U64, I64,
  Lengths, MaxStrings,        \* of the strings handed in; bound on their number
  Ehdrs,                      \* [type, entry, phoff, num]: well-formed ELF headers
  Phdrs                       \* [type, flags, off, vaddr, filesz, memsz, align]

VARIABLES
  pc,       \* the loop or step that is next; "done" or "failed" at the end
  argv, envp,     \* history: the strings the caller handed in
  ptrs, bytes,    \* pointers[] and string_bytes
  image,    \* struct exec_image once it is loaded
  stack     \* the user stack: sp and what the bytes below Top hold

execVars == <<pc, argv, envp, ptrs, bytes, image, stack>>

StackSize == Top - Bottom
Null == [id |-> 0, len |-> 0]
Empty == [id |-> 1, len |-> 0]    \* the "" that stands in for a missing argv[0]
NoImage == [ehdr |-> <<>>, phdrs |-> <<>>, base |-> 0, table |-> 0]
NoStack == [ok |-> TRUE, sp |-> Top, mem |-> <<>>, table |-> <<>>]
Headers == -1    \* the numbers of what is no string of the caller
Path == -2
Random == -3
Table == -4
Down(a, n) == (a \div n) * n
Up(a, n) == Down(a + n - 1, n)

ExecInit ==
  /\ pc = "argv" /\ argv = <<>> /\ envp = <<>> /\ ptrs = <<>> /\ bytes = 0
  /\ image = NoImage /\ stack = NoStack

\* The new address space is dropped and the caller goes on as before.
Fail ==
  /\ pc' = "failed" /\ argv' = <<>> /\ envp' = <<>> /\ ptrs' = <<>> /\ bytes' = 0
  /\ image' = NoImage /\ stack' = NoStack

\* strncpy_from_user found the end of the string within the capacity.
Fits(len) == bytes + len < StackSize

Full == Len(ptrs) = StackSize \div Word

\* One pass of either loop; the pointer or the string may not be readable.
CopyString(len) ==
  /\ pc \in {"argv", "envp"} /\ Len(argv) + Len(envp) < MaxStrings
  /\ LET s == [id |-> Len(argv) + Len(envp) + 2, len |-> len] IN
     \/ /\ ~Full /\ Fits(len)
        /\ ptrs' = Append(ptrs, s) /\ bytes' = bytes + len + 1
        /\ argv' = IF pc = "argv" THEN Append(argv, s) ELSE argv
        /\ envp' = IF pc = "envp" THEN Append(envp, s) ELSE envp
        /\ UNCHANGED <<pc, image, stack>>
     \/ (Full \/ ~Fits(len)) /\ Fail

CopyFaults == pc \in {"argv", "envp"} /\ Fail

\* Faulty variant: an empty argv stays empty.
ArgvEndAsIs(p) == p

\* The NULL that ends argv; a program always gets an argv[0].
ArgvEnd(p) == IF p = <<Null>> THEN <<Empty, Null>> ELSE p

EndArgv ==
  /\ pc = "argv"
  /\ \/ ~Full /\ pc' = "envp" /\ ptrs' = ArgvEnd(Append(ptrs, Null))
        /\ UNCHANGED <<argv, envp, bytes, image, stack>>
     \/ Full /\ Fail

EndEnvp ==
  /\ pc = "envp"
  /\ \/ ~Full /\ pc' = "load" /\ ptrs' = Append(ptrs, Null)
        /\ UNCHANGED <<argv, envp, bytes, image, stack>>
     \/ Full /\ Fail

-----------------------------------------------------------------------------
(* lib/elf.c and check_layout.                                             *)

RangeValid(off, len) == off <= I64 /\ len <= I64 - off

SegmentValid(p) ==
  /\ p.filesz <= p.memsz /\ RangeValid(p.off, p.filesz) /\ p.memsz <= U64 - p.vaddr
  /\ p.align > 1 => p.vaddr % p.align = p.off % p.align

EhdrOK(e) == e.num # 0 /\ e.phoff >= EhSize /\ RangeValid(e.phoff, e.num * PhSize)

Loads(ps) == SelectSeq(ps, LAMBDA p : p.type = "LOAD")
Covers(p, a) == a >= p.vaddr /\ a - p.vaddr < p.memsz

PhdrsOK(e, ps) ==
  LET loads == Loads(ps) IN
  /\ \A i \in DOMAIN ps :
       /\ ps[i].type \in {"LOAD", "DYNAMIC", "PHDR", "TLS"} => SegmentValid(ps[i])
       /\ ps[i].type # "INTERP"
       /\ ps[i].type = "PHDR" =>
            /\ \A j \in 1 .. i - 1 : ps[j].type # "LOAD"
            /\ ps[i].off = e.phoff /\ {ps[i].filesz, ps[i].memsz} = {e.num * PhSize}
       /\ ps[i].type = "STACK" => "X" \notin ps[i].flags
  /\ \A i \in DOMAIN loads \ {1} : loads[i].vaddr >= loads[i - 1].vaddr + loads[i - 1].memsz
  /\ \E i \in DOMAIN loads : "X" \in loads[i].flags /\ Covers(loads[i], e.entry)

Base(e) == IF e.type = "DYN" THEN UvStart ELSE 0

\* Faulty variant: two segments may share a page.
ApartBytes(p, q, base) == base + p.vaddr + p.memsz <= base + q.vaddr

\* The pages of a segment begin after those of the one before it.
Apart(p, q, base) == Up(base + p.vaddr + p.memsz, Page) <= Down(base + q.vaddr, Page)

Mapped(ps) == SelectSeq(ps, LAMBDA p : p.type = "LOAD" /\ p.memsz # 0)

LayoutOK(ps, base) ==
  LET segs == Mapped(ps) IN
  /\ \A i \in DOMAIN segs :
       /\ segs[i].vaddr >= UvStart - base
       /\ segs[i].vaddr + segs[i].memsz <= Bottom - Page - base
       /\ segs[i].vaddr % Page = segs[i].off % Page
       /\ IF i = 1 THEN Down(base + segs[1].vaddr, Page) >= UvStart
          ELSE Apart(segs[i - 1], segs[i], base)

\* Faulty variant: the table may reach past what the file fills.
HoldsTableStart(p, e) ==
  "R" \in p.flags /\ e.phoff >= p.off /\ e.phoff - p.off <= p.filesz

\* The segment brings the program headers into memory, readable.
HoldsTable(p, e) ==
  /\ "R" \in p.flags /\ e.phoff >= p.off /\ e.phoff - p.off <= p.filesz
  /\ e.num * PhSize <= p.filesz - (e.phoff - p.off)

\* phdr_addr: 0 when no segment holds the table, else the last one that does.
TableAddr(e, ps, base) ==
  FoldLeft(LAMBDA a, p : IF HoldsTable(p, e) THEN base + p.vaddr + (e.phoff - p.off) ELSE a,
           0, Mapped(ps))

-----------------------------------------------------------------------------
(* setup_stack.                                                            *)

\* stack_copy of size bytes of object id.
Written(mem, at, id, size) ==
  [a \in DOMAIN mem \cup at .. at + size - 1 |->
     IF a \in at .. at + size - 1 THEN <<id, a - at>> ELSE mem[a]]

\* stack_push.
Push(s, id, size) ==
  IF ~s.ok \/ size > s.sp - Bottom THEN [s EXCEPT !.ok = FALSE]
  ELSE [s EXCEPT !.sp = @ - size, !.mem = Written(@, s.sp - size, id, size)]

\* Faulty variant: the terminating NUL is not copied.
StringSizeBare(str) == str.len

StringSize(str) == str.len + 1

\* A string and its entry of the table; NULL only has the entry.
PushString(s, str) ==
  LET t == Push(s, str.id, StringSize(str))
  IN IF str = Null THEN [s EXCEPT !.table = Append(@, 0)]
     ELSE [t EXCEPT !.table = Append(@, t.sp)]

\* Faulty variant: the room for the table is taken after the alignment.
TableBaseLate(sp, size) == Down(sp, Align) - size

TableBase(sp, size) == Down(sp - size, Align)

\* The auxiliary vector keeps its three addresses; the rest of it is constant.
SetUp(e, table) ==
  LET a == IF table = 0 THEN Push(NoStack, Headers, e.num * PhSize) ELSE NoStack
      b == Push(a, Path, 2)
      c == Push(b, Random, 2 * Word)
      d == FoldLeft(PushString, c, ptrs)
      argc == CHOOSE n \in 0 .. Len(ptrs) - 1 : ptrs[n + 1] = Null /\ \A i \in 1 .. n : ptrs[i] # Null
      words == <<argc>> \o d.table \o <<IF table = 0 THEN a.sp ELSE table, c.sp, b.sp>>
      size == Len(words) * Word
      sp == TableBase(d.sp, size)
  IN IF ~d.ok \/ size > StackSize \/ size > d.sp - Bottom THEN [d EXCEPT !.ok = FALSE]
     ELSE [d EXCEPT !.sp = sp, !.mem = Written(@, sp, Table, size), !.table = words]

Accepted(e, ps) ==
  EhdrOK(e) /\ e.num = Len(ps) /\ PhdrsOK(e, ps) /\ LayoutOK(ps, Base(e))

\* load_exec and the end of sys_execve, or an allocation that fails in them.
Load(e, ps) ==
  LET table == TableAddr(e, ps, Base(e)) IN
  /\ pc = "load"
  /\ \/ /\ Accepted(e, ps) /\ SetUp(e, table).ok
        /\ pc' = "done" /\ stack' = SetUp(e, table)
        /\ image' = [ehdr |-> e, phdrs |-> ps, base |-> Base(e), table |-> table]
        /\ UNCHANGED <<argv, envp, ptrs, bytes>>
     \/ Fail

ExecNext ==
  \/ \E len \in Lengths : CopyString(len)
  \/ CopyFaults \/ EndArgv \/ EndEnvp
  \/ \E e \in Ehdrs : \E n \in 0 .. 2 : \E ps \in [1 .. n -> Phdrs] : Load(e, ps)

ExecSpec == ExecInit /\ [][ExecNext]_execVars

-----------------------------------------------------------------------------

PagesOf(p) == Down(image.base + p.vaddr, Page) .. Up(image.base + p.vaddr + p.memsz, Page) - 1

\* What the program reads from an address on: size bytes of an object.
Reads(at, id, size) ==
  \A k \in 0 .. size - 1 : at + k \in DOMAIN stack.mem /\ stack.mem[at + k] = <<id, k>>

(* An accepted image can be mapped as it is: its segments lie in user      *)
(* space below the guard page of the stack and share no page, so map_range *)
(* finds every range free; it starts in an executable segment; and AT_PHDR *)
(* names memory that a segment fills from the file's program headers or    *)
(* the copy of them on the stack.                                          *)
ImageInv ==
  pc = "done" =>
    LET segs == Mapped(image.phdrs)
        size == image.ehdr.num * PhSize
        phdr == stack.table[Len(stack.table) - 2] IN
    /\ \A i \in DOMAIN segs : PagesOf(segs[i]) \subseteq UvStart .. Bottom - Page - 1
    /\ \A i, j \in DOMAIN segs : i # j => PagesOf(segs[i]) \cap PagesOf(segs[j]) = {}
    /\ \E i \in DOMAIN segs : "X" \in segs[i].flags /\ Covers(segs[i], image.ehdr.entry)
    /\ \/ Reads(phdr, Headers, size)
       \/ \E i \in DOMAIN segs :
            LET from == phdr - image.base - segs[i].vaddr IN
            /\ "R" \in segs[i].flags /\ from >= 0 /\ from + size <= segs[i].filesz
            /\ segs[i].off + from = image.ehdr.phoff

(* The program finds an aligned stack pointer inside the stack, and at it  *)
(* the table: argc, then where each string the caller handed in is, whole, *)
(* terminated and not written over by what follows, with a NULL after argv *)
(* and after envp.  There is always an argv[0].                            *)
ArgumentsInv ==
  pc = "done" =>
    LET args == IF argv = <<>> THEN <<Empty>> ELSE argv
        strings == args \o <<Null>> \o envp \o <<Null>>
        t == stack.table IN
    /\ stack.sp % Align = 0 /\ stack.sp >= Bottom
    /\ Reads(stack.sp, Table, Len(t) * Word)
    /\ t[1] = Len(args) /\ Len(t) = Len(strings) + 4
    /\ \A i \in DOMAIN strings :
         IF strings[i] = Null THEN t[i + 1] = 0
         ELSE Reads(t[i + 1], strings[i].id, strings[i].len + 1)
    /\ Reads(t[Len(t) - 1], Random, 2 * Word) /\ Reads(t[Len(t)], Path, 2)
=============================================================================
