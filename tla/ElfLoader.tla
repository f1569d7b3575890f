----------------------------- MODULE ElfLoader -----------------------------
(***************************************************************************)
(* The ELF loader (src/src/kernel/elf.c) and the commands that start ring-3 *)
(* programs (cmd_runelf, cmd_run, cmd_runfault of repl.c).  All programs    *)
(* share one user region: whatever a load or a program left there is what   *)
(* the next `run' starts.  Memory is an array of cells, one per byte of a   *)
(* scaled-down machine whose 64-bit numbers wrap at Word and whose 16-bit   *)
(* numbers wrap at HalfWord.  The fields of a file are read into locals     *)
(* once, so a file is modelled by any values the reads can yield.           *)
(* The copy and the zero-fill are one step per byte.                        *)
(***************************************************************************)
EXTENDS Integers, FiniteSets

CONSTANTS
  Word,           \* 2^64
  HalfWord,       \* 2^16
  HeaderSize,     \* 64, the least size of a file
  PhentMin,       \* 56, the least e_phentsize
  UserStart,      \* USER_REGION_START, where main.c's blob is (USER_ENTRY)
  FaultEntry,     \* FAULT_ENTRY, where fault.c's blob is
  BlobEnd,        \* end of the blobs; pages from here on may be heap pages
  UserEnd,        \* USER_REGION_END, where the ramdisk starts
  Sizes,          \* the files: their sizes in bytes
  Places,         \* where kmalloc may put the buffer of a file
  Phoffs, Entries,            \* values of e_phoff and e_entry
  Offsets, Vaddrs, Lengths,   \* values of the fields of a program header
  UserCells       \* what ring-3 programs write

Cells == 0 .. Word - 1
Region == UserStart .. UserEnd - 1
InRegion(buf, size) == \E k \in 0 .. size - 1 : buf + k \in Region

ASSUME ElfAssumption ==
  /\ {Word, HalfWord, HeaderSize, PhentMin} \subseteq Nat \ {0}
  /\ HalfWord * HalfWord <= Word
  /\ {UserStart, FaultEntry, BlobEnd, UserEnd} \subseteq Cells
  /\ UserStart < FaultEntry /\ FaultEntry < BlobEnd /\ BlobEnd < UserEnd
  /\ Sizes \subseteq Nat \ {0} /\ Places \subseteq Cells
  /\ \A buf \in Places, n \in Sizes : buf + n <= Word
  /\ Phoffs \cup Entries \cup Offsets \cup Vaddrs \cup Lengths \subseteq Cells
  /\ UserCells \subseteq Region

(* A byte: where it comes from and its position there.                      *)
Byte == {"file", "blob", "other", "zero", "user"} \X Cells

(* The header fields of the files.                                          *)
ProgramHeaders == [offset : Offsets, vaddr : Vaddrs, filesz : Lengths, memsz : Lengths]
Tables == [phoff : Phoffs, phentsize : 0 .. HalfWord - 1, phnum : 0 .. HalfWord - 1]

VARIABLES
  mem,       \* the cells
  pc,        \* "repl"; "check", "load", "copy" in elf_load; "user": ring 3
  image,     \* elf_load's argument, the buffer of the file
  size,      \* its length
  table,     \* e_phoff, e_phentsize and e_phnum
  i,         \* the loop variable, uint16_t
  ph, j,     \* the segment being loaded and the variable of the byte loops
  entry,     \* e_entry, or where run and runfault start
  expect     \* history: what the segments loaded so far ask of the region

vars == <<mem, pc, image, size, table, i, ph, j, entry, expect>>

NoTable == [phoff |-> 0, phentsize |-> 0, phnum |-> 0]
NoSegment == [offset |-> 0, vaddr |-> 0, filesz |-> 0, memsz |-> 0]

Boot(a) ==
  IF a \in UserStart .. BlobEnd - 1 THEN <<"blob", a>> ELSE <<"other", a>>

Init ==
  /\ mem = [a \in Cells |-> Boot(a)]
  /\ expect = [a \in Region |-> Boot(a)]
  /\ pc = "repl"
  /\ image = 0 /\ size = 0 /\ table = NoTable /\ i = 0 /\ entry = 0
  /\ ph = NoSegment /\ j = 0

----------------------------------------------------------------------------
(* The commands                                                             *)

(* cmd_runelf: fs_read copies the file to a heap block (module Files has    *)
(* its failures) and calls elf_load.  The block is anywhere pmm_init does   *)
(* not reserve: mm.c:74 reserves only the blobs of the user region.         *)
cmd_runelf(buf, n) ==
  /\ pc = "repl"
  /\ InRegion(buf, n) => BlobEnd <= buf /\ buf + n <= UserEnd
  /\ mem' = [a \in Cells |-> IF a \in buf .. buf + n - 1 THEN <<"file", a - buf>> ELSE mem[a]]
  /\ expect' = [a \in Region |-> IF a \in buf .. buf + n - 1 THEN mem'[a] ELSE expect[a]]
  /\ pc' = "check"
  /\ image' = buf /\ size' = n
  /\ UNCHANGED <<table, i, ph, j, entry>>

(* cmd_run and cmd_runfault start whatever is at their entry.               *)
cmd_run(e) ==
  /\ pc = "repl"
  /\ pc' = "user" /\ entry' = e
  /\ UNCHANGED <<mem, image, size, table, i, ph, j, expect>>

(* elf_load is over: cmd_runelf frees the buffer.  What its cells hold from *)
(* then on is the heap's business, inside the region it stays visible.      *)
LeaveLoad(next) ==
  /\ mem' = [a \in Cells |-> IF a \in (image .. image + size - 1) \ Region
                             THEN Boot(a) ELSE mem[a]]
  /\ pc' = next
  /\ image' = 0 /\ size' = 0 /\ table' = NoTable /\ i' = 0
  /\ UNCHANGED <<ph, j, expect>>

(* "bad elf": back to the prompt; earlier segments stay where they are.     *)
Refuse == LeaveLoad("repl") /\ entry' = 0

----------------------------------------------------------------------------
(* elf_load                                                                 *)

(* Mutant: the product of the two 16-bit fields is computed in 16 bits.     *)
TableFitsNarrow(t) ==
  size >= (t.phoff + ((t.phnum * t.phentsize) % HalfWord)) % Word

(* The bound on the table, in 64-bit arithmetic that may wrap (elf.c:97): a *)
(* table that starts just below 2^64 and runs over it passes.               *)
TableFits(t) == size >= (t.phoff + t.phnum * t.phentsize) % Word

(* The tests before the loop; nothing is written until they have passed.    *)
(* ident stands for magic, class, encoding, type and machine.               *)
HeaderOk(ident, t, e) ==
  /\ size >= HeaderSize /\ ident
  /\ t.phentsize >= PhentMin
  /\ TableFits(t)
  /\ e \in Region

AcceptHeader(t, e) ==
  /\ pc = "check" /\ HeaderOk(TRUE, t, e)
  /\ pc' = "load" /\ table' = t /\ entry' = e /\ i' = 0
  /\ UNCHANGED <<mem, image, size, ph, j, expect>>

RefuseHeader ==
  /\ pc = "check"
  /\ {h \in BOOLEAN \X Tables \X Entries : ~HeaderOk(h[1], h[2], h[3])} # {}
  /\ Refuse

(* The cells of the program header the loop looks at.                       *)
HeaderCells == {(table.phoff + i * table.phentsize + k) % Word : k \in 0 .. PhentMin - 1}

(* Mutant: the end of the segment is computed by an addition that wraps.    *)
RefusedWrapping(p) ==
  \/ p.vaddr \notin Region
  \/ (p.vaddr + p.memsz) % Word > UserEnd
  \/ p.filesz > p.memsz
  \/ p.offset > size \/ p.filesz > size - p.offset

(* Mutant: the end of its bytes in the file is computed by a wrapping sum.  *)
RefusedOffsetWraps(p) ==
  \/ p.vaddr \notin Region
  \/ p.memsz > UserEnd - p.vaddr
  \/ p.filesz > p.memsz
  \/ (p.offset + p.filesz) % Word > size

(* The four tests of a segment; unsigned subtraction cannot wrap in them.   *)
Refused(p) ==
  \/ p.vaddr \notin Region
  \/ p.memsz > UserEnd - p.vaddr
  \/ p.filesz > p.memsz
  \/ p.offset > size \/ p.filesz > size - p.offset

(* What the segment asks for: the file's bytes, then zeroes.                *)
Asked(p) ==
  [a \in Region |->
     IF a \in p.vaddr .. p.vaddr + p.filesz - 1 THEN <<"file", p.offset + a - p.vaddr>>
     ELSE IF a \in p.vaddr + p.filesz .. p.vaddr + p.memsz - 1 THEN <<"zero", 0>>
     ELSE expect[a]]


MoreHeaders == i < table.phnum

(* A header that is not PT_LOAD is skipped.                                 *)
SkipSegment ==
  /\ pc = "load" /\ MoreHeaders
  /\ i' = (i + 1) % HalfWord
  /\ UNCHANGED <<mem, pc, image, size, table, ph, j, entry, expect>>

RefuseSegment ==
  /\ pc = "load" /\ MoreHeaders
  /\ {p \in ProgramHeaders : Refused(p)} # {}
  /\ Refuse

AcceptSegment(p) ==
  /\ pc = "load" /\ MoreHeaders /\ ~Refused(p)
  /\ pc' = "copy" /\ ph' = p /\ j' = 0
  /\ expect' = IF InRegion(image, size) THEN expect ELSE Asked(p)
  /\ UNCHANGED <<mem, image, size, table, i, entry>>

(* Copying goes upwards: a source byte that the loop itself has overwritten *)
(* yields the new value.                                                    *)
CopyByte ==
  /\ pc = "copy" /\ j < ph.filesz
  /\ mem' = [mem EXCEPT ![(ph.vaddr + j) % Word] = mem[(image + ph.offset + j) % Word]]
  /\ j' = j + 1
  /\ UNCHANGED <<pc, image, size, table, i, ph, entry, expect>>

(* Mutant: zero-filling runs one byte too far.                              *)
ZeroByteTooFar ==
  /\ pc = "copy" /\ j >= ph.filesz /\ j <= ph.memsz
  /\ mem' = [mem EXCEPT ![(ph.vaddr + j) % Word] = <<"zero", 0>>]
  /\ j' = j + 1
  /\ UNCHANGED <<pc, image, size, table, i, ph, entry, expect>>

ZeroByte ==
  /\ pc = "copy" /\ j >= ph.filesz /\ j < ph.memsz
  /\ mem' = [mem EXCEPT ![(ph.vaddr + j) % Word] = <<"zero", 0>>]
  /\ j' = j + 1
  /\ UNCHANGED <<pc, image, size, table, i, ph, entry, expect>>

(* If the file's buffer is itself in the region, a segment may overwrite    *)
(* what it or a later one copies: nothing is asked of such a load.          *)
SegmentDone ==
  /\ pc = "copy" /\ j >= ph.filesz /\ j >= ph.memsz
  /\ pc' = "load" /\ i' = (i + 1) % HalfWord
  /\ ph' = NoSegment /\ j' = 0
  /\ expect' = IF InRegion(image, size) THEN [a \in Region |-> mem[a]] ELSE expect
  /\ UNCHANGED <<mem, image, size, table, entry>>

(* The table is done: the buffer is freed and the program started.          *)
StartProgram == pc = "load" /\ ~MoreHeaders /\ LeaveLoad("user") /\ UNCHANGED entry

----------------------------------------------------------------------------
(* Ring 3 may write the whole region, its stack included, and ends by exit  *)
(* or by a fault (module Ring3).                                            *)

UserWrite(a) ==
  /\ pc = "user"
  /\ mem' = [mem EXCEPT ![a] = <<"user", 0>>]
  /\ expect' = [expect EXCEPT ![a] = <<"user", 0>>]
  /\ UNCHANGED <<pc, image, size, table, i, ph, j, entry>>

UserExit ==
  /\ pc = "user"
  /\ pc' = "repl" /\ entry' = 0
  /\ UNCHANGED <<mem, image, size, table, i, ph, j, expect>>

Load ==
  \/ \E t \in Tables, e \in Entries : AcceptHeader(t, e)
  \/ RefuseHeader
  \/ SkipSegment \/ RefuseSegment
  \/ \E p \in ProgramHeaders : AcceptSegment(p)
  \/ CopyByte \/ ZeroByte \/ SegmentDone
  \/ StartProgram

Next ==
  \/ \E buf \in Places, n \in Sizes : cmd_runelf(buf, n)
  \/ \E e \in {UserStart, FaultEntry} : cmd_run(e)
  \/ Load
  \/ \E a \in UserCells : UserWrite(a)
  \/ UserExit

(* elf_load runs with nothing to wait for; a program need never end.        *)
Spec == Init /\ [][Next]_vars /\ WF_vars(Load)

----------------------------------------------------------------------------

(* The values the variables range over.                                     *)
ElfTypeOK ==
  /\ mem \in [Cells -> Byte]
  /\ pc \in {"repl", "check", "load", "copy", "user"}
  /\ image \in Cells /\ size \in Sizes \cup {0}
  /\ table \in Tables \cup {NoTable}
  /\ i \in 0 .. table.phnum
  /\ ph \in ProgramHeaders \cup {NoSegment} /\ j \in 0 .. ph.memsz
  /\ entry \in Region \cup {0}
  /\ expect \in [Region -> Byte]

(* Loading never writes outside the user region: not into the ramdisk right *)
(* behind it, nor into the heap or the kernel, for any field values, those  *)
(* near 2^64 included (elf.c:125-135).                                      *)
WritesStayInRegion ==
  [][pc = "copy" => \A a \in Cells \ Region : mem'[a] = mem[a]]_vars

(* The region holds exactly what the segments loaded so far ask for: file   *)
(* bytes, then zeroes, later segments over earlier ones, and everything no  *)
(* segment covers as it was.  So `run' starts main.c's blob until a segment *)
(* or a program overwrites it, and it starts the remains of a refused load  *)
(* when that got as far as a segment over it (proc.c:114, elf.c:138-150).   *)
RegionAsLoaded == pc # "copy" => \A a \in Region : mem[a] = expect[a]

(* Every byte of a segment comes from inside the file, whatever the fields *)
(* of the header hold (elf.c:137-145).                                      *)
ReadsInsideImage == pc = "copy" /\ j < ph.filesz => ph.offset + j < size

(* What elf.c:93 says of the tests before the loop, "Validate program       *)
(* header table fits in image": each header is read from inside the file.   *)
TableInsideImage == pc = "load" /\ MoreHeaders => HeaderCells \subseteq 0 .. size - 1

(* A header is read from outside the file only if the sum that bounds the   *)
(* table wraps at 2^64 (elf.c:97): not by the product of the 16-bit fields, *)
(* the last header's end or the size of a header.                           *)
TableOverrunOnlyByWrap ==
  pc = "load" /\ MoreHeaders /\ ~(HeaderCells \subseteq 0 .. size - 1)
    => table.phoff + table.phnum * table.phentsize >= Word


(* The file being loaded stays intact until it is freed: the pages of the   *)
(* heap are outside the region the segments go to.                          *)
ImageIntact == pc \in {"load", "copy"} => \A k \in 0 .. size - 1 : mem[image + k] = <<"file", k>>
=============================================================================
