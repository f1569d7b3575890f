----------------------------- MODULE ElfProofs -----------------------------
(***************************************************************************)
(* The ELF loader for every width of its numbers, every file and every      *)
(* layout of the region: loading writes nowhere but into the region, reads  *)
(* nothing but the file, and leaves the region as the segments ask.         *)
(***************************************************************************)
EXTENDS ElfLoader, TLAPS

(* What has been tested stays true while the loader uses it.                *)
Tested ==
  /\ pc \in {"check", "load", "copy"} => image \in Places /\ size \in Sizes
  /\ pc \in {"load", "copy"} =>
       table \in Tables /\ table.phentsize >= PhentMin /\ TableFits(table)
  /\ pc = "copy" => ph \in ProgramHeaders /\ ~Refused(ph) /\ MoreHeaders

(* A file outside the region is not touched while it is being loaded.       *)
FileKept ==
  pc \in {"check", "load", "copy"} /\ ~InRegion(image, size) =>
     \A q \in 0 .. size - 1 : mem[image + q] = <<"file", q>>

(* Between two bytes of a segment: the region is as asked, except for the   *)
(* rest of the segment.                                                     *)
CopyProgress ==
  pc = "copy" /\ ~InRegion(image, size) =>
     \A a \in Region :
        /\ a < ph.vaddr + j \/ a >= ph.vaddr + ph.memsz => mem[a] = expect[a]
        /\ ph.vaddr <= a /\ a < ph.vaddr + ph.filesz =>
             expect[a] = <<"file", ph.offset + a - ph.vaddr>>
        /\ ph.vaddr + ph.filesz <= a /\ a < ph.vaddr + ph.memsz => expect[a] = <<"zero", 0>>

ElfInv ==
  /\ ElfTypeOK
  /\ Tested
  /\ FileKept
  /\ CopyProgress
  /\ RegionAsLoaded

----------------------------------------------------------------------------
(* The constants, as the provers need them.                                 *)
LEMMA Layout ==
  /\ Word \in Nat \ {0} /\ HalfWord \in Nat \ {0} /\ PhentMin \in Nat \ {0}
  /\ UserStart \in Nat /\ UserEnd \in Nat /\ BlobEnd \in Nat
  /\ UserStart < BlobEnd /\ BlobEnd < UserEnd /\ UserEnd < Word
  /\ Region \subseteq Cells /\ 0 \in Cells /\ Cells \subseteq Nat
  BY ElfAssumption DEF Region, Cells

LEMMA BufferFits ==
  ASSUME NEW buf \in Places, NEW n \in Sizes
  PROVE  /\ buf \in Nat /\ buf \in Cells /\ n \in Nat /\ n > 0 /\ buf + n <= Word
         /\ \A q \in 0 .. n - 1 : buf + q \in Cells /\ q \in Cells
  BY ElfAssumption, Layout DEF Cells

LEMMA BootByte ==
  ASSUME NEW a \in Cells
  PROVE  Boot(a) \in Byte
  BY DEF Boot, Byte

(* A segment that passes the tests lies in the region and in the file.      *)
LEMMA AcceptedSegment ==
  ASSUME NEW p \in ProgramHeaders, size \in Nat, ~Refused(p)
  PROVE  /\ p.vaddr \in Nat /\ p.memsz \in Nat /\ p.filesz \in Nat /\ p.offset \in Nat
         /\ UserStart <= p.vaddr /\ p.vaddr + p.memsz <= UserEnd
         /\ p.filesz <= p.memsz
         /\ p.offset + p.filesz <= size
  <1>1. p.vaddr \in Cells /\ p.memsz \in Cells /\ p.filesz \in Cells /\ p.offset \in Cells
    BY ElfAssumption DEF ProgramHeaders
  <1>2. p.vaddr \in Nat /\ p.memsz \in Nat /\ p.filesz \in Nat /\ p.offset \in Nat
    BY <1>1, Layout
  <1>3. p.vaddr \in UserStart .. UserEnd - 1
    BY DEF Refused, Region
  <1> QED
    BY <1>2, <1>3, Layout DEF Refused

LEMMA InitElfInv == Init => ElfInv
  <1> SUFFICES ASSUME Init PROVE ElfInv
    OBVIOUS
  <1>1. mem \in [Cells -> Byte] /\ expect \in [Region -> Byte]
    BY BootByte, Layout DEF Init
  <1>2. ElfTypeOK
    BY <1>1, Layout DEF Init, ElfTypeOK, NoTable, NoSegment
  <1>3. \A a \in Region : mem[a] = expect[a]
    BY Layout DEF Init
  <1> QED
    BY <1>2, <1>3 DEF Init, ElfInv, Tested, FileKept, CopyProgress, RegionAsLoaded

----------------------------------------------------------------------------
(* The commands                                                             *)

LEMMA RunelfInv ==
  ASSUME ElfInv, NEW buf \in Places, NEW n \in Sizes, cmd_runelf(buf, n)
  PROVE  ElfInv'
  <1> USE DEF ElfInv
  <1> DEFINE B == buf .. buf + n - 1
  <1>0. buf \in Nat /\ n \in Nat /\ buf + n <= Word
    BY BufferFits
  <1>1. /\ pc' = "check" /\ image' = buf /\ size' = n
        /\ mem' = [a \in Cells |-> IF a \in B THEN <<"file", a - buf>> ELSE mem[a]]
        /\ expect' = [a \in Region |-> IF a \in B THEN mem'[a] ELSE expect[a]]
        /\ UNCHANGED <<table, i, ph, j, entry>>
    BY DEF cmd_runelf
  <1>2. \A a \in B : a - buf \in Cells
    BY <1>0, Layout DEF Cells
  <1>3. mem' \in [Cells -> Byte]
    BY <1>1, <1>2 DEF ElfTypeOK, Byte
  <1>4. expect' \in [Region -> Byte]
    BY <1>1, <1>3, Layout DEF ElfTypeOK
  <1>5. ElfTypeOK'
    BY <1>1, <1>3, <1>4, BufferFits DEF ElfTypeOK
  <1>6. RegionAsLoaded'
    BY <1>1, Layout DEF RegionAsLoaded, cmd_runelf
  <1>7. \A q \in 0 .. n - 1 : mem'[buf + q] = <<"file", q>>
    <2> TAKE q \in 0 .. n - 1
    <2>1. buf + q \in Cells /\ buf + q \in B /\ (buf + q) - buf = q
      BY <1>0, BufferFits
    <2> QED
      BY <1>1, <2>1
  <1>8. FileKept'
    BY <1>1, <1>7 DEF FileKept
  <1> QED
    BY <1>1, <1>5, <1>6, <1>8 DEF Tested, CopyProgress

LEMMA RunInv ==
  ASSUME ElfInv, NEW e \in {UserStart, FaultEntry}, cmd_run(e)
  PROVE  ElfInv'
  <1>1. e \in Region
    BY ElfAssumption, Layout DEF Region, Cells
  <1> QED
    BY <1>1 DEF cmd_run, ElfInv, ElfTypeOK, Tested, FileKept, CopyProgress, RegionAsLoaded

(* Freeing the buffer leaves the region alone.                              *)
LEMMA LeaveInv ==
  ASSUME ElfInv, pc \in {"check", "load"}, NEW n \in {"repl", "user"}, LeaveLoad(n),
         entry' \in {entry, 0}
  PROVE  ElfInv'
  <1> USE DEF ElfInv
  <1>1. mem' \in [Cells -> Byte]
    BY BootByte DEF LeaveLoad, ElfTypeOK
  <1>2. ElfTypeOK'
    BY <1>1, Layout DEF LeaveLoad, ElfTypeOK, NoTable
  <1>3. RegionAsLoaded'
    BY Layout DEF LeaveLoad, RegionAsLoaded
  <1> QED
    BY <1>2, <1>3 DEF LeaveLoad, Tested, FileKept, CopyProgress

LEMMA AcceptHeaderInv ==
  ASSUME ElfInv, NEW t \in Tables, NEW e \in Entries, AcceptHeader(t, e)
  PROVE  ElfInv'
  <1> USE DEF ElfInv
  <1>1. t.phnum \in Nat
    BY Layout DEF Tables
  <1>2. ElfTypeOK'
    BY <1>1 DEF AcceptHeader, HeaderOk, ElfTypeOK
  <1>3. Tested'
    BY DEF AcceptHeader, HeaderOk, Tested, TableFits
  <1> QED
    BY <1>2, <1>3 DEF AcceptHeader, FileKept, CopyProgress, RegionAsLoaded

----------------------------------------------------------------------------
(* The loop                                                                 *)

(* i cannot wrap below e_phnum, a 16-bit number itself.                     *)
LEMMA NextHeader ==
  ASSUME ElfInv, pc \in {"load", "copy"}, MoreHeaders
  PROVE  (i + 1) % HalfWord \in 0 .. table.phnum
  <1>1. table.phnum \in 0 .. HalfWord - 1 /\ i \in Nat /\ i < table.phnum
    BY DEF ElfInv, ElfTypeOK, Tested, Tables, MoreHeaders
  <1> QED
    BY <1>1, Layout

LEMMA SkipInv ==
  ASSUME ElfInv, SkipSegment
  PROVE  ElfInv'
  <1>1. ElfTypeOK'
    BY NextHeader DEF SkipSegment, ElfInv, ElfTypeOK
  <1> QED
    BY <1>1 DEF SkipSegment, ElfInv, Tested, TableFits, FileKept, CopyProgress, RegionAsLoaded

LEMMA AcceptSegmentInv ==
  ASSUME ElfInv, NEW p \in ProgramHeaders, AcceptSegment(p)
  PROVE  ElfInv'
  <1> USE DEF ElfInv
  <1>1. /\ pc = "load" /\ ~Refused(p) /\ MoreHeaders
        /\ pc' = "copy" /\ ph' = p /\ j' = 0
        /\ expect' = IF InRegion(image, size) THEN expect ELSE Asked(p)
        /\ UNCHANGED <<mem, image, size, table, i, entry>>
    BY DEF AcceptSegment
  <1>2. image \in Places /\ size \in Sizes /\ size \in Nat /\ size <= Word
    BY <1>1, BufferFits, Layout DEF Tested
  <1>3. /\ p.vaddr \in Nat /\ p.memsz \in Nat /\ p.filesz \in Nat /\ p.offset \in Nat
        /\ p.filesz <= p.memsz /\ p.offset + p.filesz <= size
    BY <1>1, <1>2, AcceptedSegment
  <1>4. Asked(p) \in [Region -> Byte]
    <2>1. \A a \in p.vaddr .. p.vaddr + p.filesz - 1 : p.offset + a - p.vaddr \in Cells
      BY <1>2, <1>3, Layout DEF Cells
    <2> QED
      BY <2>1, Layout DEF Asked, ElfTypeOK, Byte
  <1>5. ElfTypeOK'
    BY <1>1, <1>3, <1>4 DEF ElfTypeOK
  <1>6. Tested'
    BY <1>1 DEF Tested, TableFits, Refused, MoreHeaders
  <1>7. CopyProgress'
    <2> SUFFICES ASSUME ~InRegion(image, size), NEW a \in Region
                 PROVE  /\ a < p.vaddr + 0 \/ a >= p.vaddr + p.memsz => mem[a] = Asked(p)[a]
                        /\ p.vaddr <= a /\ a < p.vaddr + p.filesz =>
                             Asked(p)[a] = <<"file", p.offset + a - p.vaddr>>
                        /\ p.vaddr + p.filesz <= a /\ a < p.vaddr + p.memsz =>
                             Asked(p)[a] = <<"zero", 0>>
      BY <1>1 DEF CopyProgress
    <2>1. a \in Nat /\ mem[a] = expect[a]
      BY <1>1, Layout DEF RegionAsLoaded
    <2> QED
      BY <1>3, <2>1 DEF Asked
  <1> QED
    BY <1>1, <1>5, <1>6, <1>7 DEF FileKept, RegionAsLoaded

(* What both byte loops share: the cell written is vaddr + j, in the        *)
(* region, and everything but that cell stays.                              *)
LEMMA ByteInv ==
  ASSUME ElfInv, pc = "copy", j < ph.memsz, NEW v \in Byte,
         mem' = [mem EXCEPT ![(ph.vaddr + j) % Word] = v], j' = j + 1,
         UNCHANGED <<pc, image, size, table, i, ph, entry, expect>>,
         ~InRegion(image, size) => v = expect[ph.vaddr + j]
  PROVE  /\ ElfInv'
         /\ ph.vaddr + j \in Region /\ (ph.vaddr + j) % Word = ph.vaddr + j
  <1> USE DEF ElfInv
  <1> DEFINE d == ph.vaddr + j
  <1>1. /\ image \in Places /\ size \in Sizes /\ size \in Nat
        /\ ph \in ProgramHeaders /\ ~Refused(ph)
    BY BufferFits DEF Tested
  <1>2. /\ ph.vaddr \in Nat /\ ph.memsz \in Nat /\ ph.filesz \in Nat /\ ph.offset \in Nat
        /\ UserStart <= ph.vaddr /\ ph.vaddr + ph.memsz <= UserEnd /\ ph.filesz <= ph.memsz
    BY <1>1, AcceptedSegment
  <1>3. j \in Nat
    BY <1>2 DEF ElfTypeOK
  <1>4. d \in Region /\ d % Word = d /\ d \in Cells
    BY <1>2, <1>3, Layout DEF Region
  <1>5. mem' = [mem EXCEPT ![d] = v]
    BY <1>4
  <1>6. ElfTypeOK'
    <2>1. mem' \in [Cells -> Byte]
      BY <1>5 DEF ElfTypeOK
    <2>2. j' \in 0 .. ph.memsz
      BY <1>2, <1>3
    <2> QED
      BY <2>1, <2>2 DEF ElfTypeOK
  <1>7. Tested'
    BY DEF Tested, TableFits, Refused, MoreHeaders
  <1>8. FileKept'
    <2> SUFFICES ASSUME ~InRegion(image, size), NEW q \in 0 .. size - 1
                 PROVE  mem'[image + q] = <<"file", q>>
      BY DEF FileKept
    <2>1. image + q \in Cells /\ image + q # d
      BY <1>1, <1>4, BufferFits DEF InRegion
    <2> QED
      BY <1>5, <2>1 DEF FileKept, ElfTypeOK
  <1>9. CopyProgress'
    <2> SUFFICES ASSUME ~InRegion(image, size), NEW a \in Region
                 PROVE  a < ph.vaddr + (j + 1) \/ a >= ph.vaddr + ph.memsz => mem'[a] = expect[a]
      BY DEF CopyProgress
    <2>1. CASE a = d
      BY <1>4, <1>5, <2>1 DEF ElfTypeOK
    <2>2. CASE a # d
      <3>1. a \in Nat /\ a \in Cells
        BY Layout
      <3>2. a < ph.vaddr + (j + 1) => a < ph.vaddr + j
        BY <1>2, <1>3, <2>2, <3>1
      <3> QED
        BY <1>5, <2>2, <3>1, <3>2 DEF CopyProgress, ElfTypeOK
    <2> QED
      BY <2>1, <2>2
  <1> QED
    BY <1>4, <1>6, <1>7, <1>8, <1>9 DEF RegionAsLoaded

(* The byte copied is the file's, unless the file is in the region.         *)
LEMMA CopyByteInv ==
  ASSUME ElfInv, CopyByte
  PROVE  ElfInv' /\ \A a \in Cells \ Region : mem'[a] = mem[a]
  <1> USE DEF ElfInv
  <1> DEFINE s == image + (ph.offset + j)
  <1>1. /\ pc = "copy" /\ j < ph.filesz
        /\ image \in Places /\ size \in Sizes /\ size \in Nat
        /\ ph \in ProgramHeaders /\ ~Refused(ph)
    BY BufferFits DEF CopyByte, Tested
  <1>2. /\ ph.vaddr \in Nat /\ ph.memsz \in Nat /\ ph.filesz \in Nat /\ ph.offset \in Nat
        /\ UserStart <= ph.vaddr /\ ph.vaddr + ph.memsz <= UserEnd /\ ph.filesz <= ph.memsz
        /\ ph.offset + ph.filesz <= size
    BY <1>1, AcceptedSegment
  <1>3. j \in Nat /\ j < ph.memsz
    BY <1>1, <1>2 DEF ElfTypeOK
  <1>4. ph.offset + j \in 0 .. size - 1
    BY <1>1, <1>2, <1>3
  <1>5. s \in Cells /\ (image + ph.offset + j) % Word = s
    <2>1. image \in Nat /\ s \in Cells
      BY <1>1, <1>4, BufferFits
    <2>2. image + ph.offset + j = s
      BY <1>2, <1>3, <2>1
    <2>3. s \in Nat /\ s < Word
      BY <2>1, Layout DEF Cells
    <2> HIDE DEF s
    <2> QED
      BY <2>1, <2>2, <2>3, Layout
  <1>6. mem' = [mem EXCEPT ![(ph.vaddr + j) % Word] = mem[s]] /\ mem[s] \in Byte
    BY <1>5 DEF CopyByte, ElfTypeOK
  <1>7. ASSUME ~InRegion(image, size) PROVE mem[s] = expect[ph.vaddr + j]
    <2>1. mem[s] = <<"file", ph.offset + j>>
      BY <1>1, <1>4, <1>7 DEF FileKept
    <2>2. ph.vaddr + j \in Region /\ ph.offset + (ph.vaddr + j) - ph.vaddr = ph.offset + j
      BY <1>2, <1>3, Layout DEF Region
    <2>3. ph.vaddr <= ph.vaddr + j /\ ph.vaddr + j < ph.vaddr + ph.filesz
      BY <1>1, <1>2, <1>3
    <2> QED
      BY <1>1, <1>7, <2>1, <2>2, <2>3 DEF CopyProgress
  <1>8. j' = j + 1 /\ UNCHANGED <<pc, image, size, table, i, ph, entry, expect>>
    BY DEF CopyByte
  <1>9. ElfInv' /\ ph.vaddr + j \in Region /\ (ph.vaddr + j) % Word = ph.vaddr + j
    BY <1>1, <1>3, <1>6, <1>7, <1>8, ByteInv
  <1> QED
    BY <1>6, <1>9 DEF ElfTypeOK

LEMMA ZeroByteInv ==
  ASSUME ElfInv, ZeroByte
  PROVE  ElfInv' /\ \A a \in Cells \ Region : mem'[a] = mem[a]
  <1> USE DEF ElfInv
  <1>1. /\ pc = "copy" /\ j < ph.memsz /\ j >= ph.filesz
        /\ mem' = [mem EXCEPT ![(ph.vaddr + j) % Word] = <<"zero", 0>>]
        /\ j' = j + 1 /\ UNCHANGED <<pc, image, size, table, i, ph, entry, expect>>
        /\ size \in Nat /\ ph \in ProgramHeaders /\ ~Refused(ph)
    BY BufferFits DEF ZeroByte, Tested
  <1>2. /\ ph.vaddr \in Nat /\ ph.memsz \in Nat /\ ph.filesz \in Nat
        /\ UserStart <= ph.vaddr /\ ph.vaddr + ph.memsz <= UserEnd
    BY <1>1, AcceptedSegment
  <1>3. j \in Nat
    BY <1>2 DEF ElfTypeOK
  <1>4. <<"zero", 0>> \in Byte
    BY Layout DEF Byte
  <1>5. ASSUME ~InRegion(image, size) PROVE <<"zero", 0>> = expect[ph.vaddr + j]
    <2>1. ph.vaddr + j \in Region
      BY <1>1, <1>2, <1>3, Layout DEF Region
    <2>2. ph.vaddr + ph.filesz <= ph.vaddr + j /\ ph.vaddr + j < ph.vaddr + ph.memsz
      BY <1>1, <1>2, <1>3
    <2> QED
      BY <1>1, <1>5, <2>1, <2>2 DEF CopyProgress
  <1>6. ElfInv' /\ ph.vaddr + j \in Region /\ (ph.vaddr + j) % Word = ph.vaddr + j
    BY <1>1, <1>4, <1>5, ByteInv
  <1> QED
    BY <1>1, <1>6 DEF ElfTypeOK

LEMMA SegmentDoneInv ==
  ASSUME ElfInv, SegmentDone
  PROVE  ElfInv'
  <1> USE DEF ElfInv
  <1>1. /\ pc = "copy" /\ j >= ph.memsz /\ MoreHeaders
        /\ pc' = "load" /\ i' = (i + 1) % HalfWord /\ ph' = NoSegment /\ j' = 0
        /\ expect' = IF InRegion(image, size) THEN [a \in Region |-> mem[a]] ELSE expect
        /\ UNCHANGED <<mem, image, size, table, entry>>
        /\ size \in Nat /\ ph \in ProgramHeaders /\ ~Refused(ph)
    BY BufferFits DEF SegmentDone, Tested
  <1>2. expect' \in [Region -> Byte]
    BY <1>1, Layout DEF ElfTypeOK
  <1>3. ElfTypeOK'
    BY <1>1, <1>2, NextHeader DEF ElfTypeOK, NoSegment
  <1>4. RegionAsLoaded'
    <2> SUFFICES ASSUME ~InRegion(image, size), NEW a \in Region PROVE mem[a] = expect[a]
      BY <1>1 DEF RegionAsLoaded
    <2>1. ph.vaddr \in Nat /\ ph.memsz \in Nat /\ j \in Nat /\ a \in Nat
      BY <1>1, AcceptedSegment, Layout DEF ElfTypeOK
    <2>2. a < ph.vaddr + j \/ a >= ph.vaddr + ph.memsz
      BY <1>1, <2>1
    <2> QED
      BY <1>1, <2>2 DEF CopyProgress
  <1> QED
    BY <1>1, <1>3, <1>4 DEF Tested, TableFits, FileKept, CopyProgress

LEMMA UserWriteInv ==
  ASSUME ElfInv, NEW a \in UserCells, UserWrite(a)
  PROVE  ElfInv'
  <1> USE DEF ElfInv
  <1>1. a \in Region /\ a \in Cells
    BY ElfAssumption, Layout
  <1>2. <<"user", 0>> \in Byte
    BY Layout DEF Byte
  <1>3. ElfTypeOK'
    BY <1>1, <1>2 DEF UserWrite, ElfTypeOK
  <1>4. RegionAsLoaded'
    BY <1>1, Layout DEF UserWrite, RegionAsLoaded, ElfTypeOK
  <1> QED
    BY <1>3, <1>4 DEF UserWrite, Tested, FileKept, CopyProgress

LEMMA NextElfInv == ElfInv /\ [Next]_vars => ElfInv'
  <1> SUFFICES ASSUME ElfInv, [Next]_vars PROVE ElfInv'
    OBVIOUS
  <1>1. ASSUME NEW buf \in Places, NEW n \in Sizes, cmd_runelf(buf, n) PROVE ElfInv'
    BY <1>1, RunelfInv
  <1>2. ASSUME NEW e \in {UserStart, FaultEntry}, cmd_run(e) PROVE ElfInv'
    BY <1>2, RunInv
  <1>3. ASSUME NEW t \in Tables, NEW e \in Entries, AcceptHeader(t, e) PROVE ElfInv'
    BY <1>3, AcceptHeaderInv
  <1>4. CASE RefuseHeader \/ RefuseSegment
    BY <1>4, LeaveInv DEF RefuseHeader, RefuseSegment, Refuse
  <1>5. CASE SkipSegment
    BY <1>5, SkipInv
  <1>6. ASSUME NEW p \in ProgramHeaders, AcceptSegment(p) PROVE ElfInv'
    BY <1>6, AcceptSegmentInv
  <1>7. CASE CopyByte \/ ZeroByte \/ SegmentDone
    BY <1>7, CopyByteInv, ZeroByteInv, SegmentDoneInv
  <1>8. CASE StartProgram
    BY <1>8, LeaveInv DEF StartProgram
  <1>9. ASSUME NEW a \in UserCells, UserWrite(a) PROVE ElfInv'
    BY <1>9, UserWriteInv
  <1>10. CASE UserExit
    BY <1>10 DEF UserExit, ElfInv, ElfTypeOK, Tested, FileKept, CopyProgress, RegionAsLoaded
  <1>11. CASE UNCHANGED vars
    BY <1>11 DEF vars, ElfInv, ElfTypeOK, Tested, TableFits, Refused, MoreHeaders, FileKept,
                 CopyProgress, RegionAsLoaded
  <1> QED
    BY <1>1, <1>2, <1>3, <1>4, <1>5, <1>6, <1>7, <1>8, <1>9, <1>10, <1>11 DEF Next, Load

LEMMA ElfInvHolds == Spec => []ElfInv
  BY InitElfInv, NextElfInv, PTL DEF Spec

----------------------------------------------------------------------------
(* After any sequence of loads, refused or not, and of programs, the region *)
(* is exactly what the segments loaded so far and the programs' own writes  *)
(* make it (elf.c:138-150, proc.c:114).                                     *)
THEOREM RegionHoldsWhatWasLoaded == Spec => [](ElfTypeOK /\ RegionAsLoaded)
  <1>1. ElfInv => ElfTypeOK /\ RegionAsLoaded
    BY DEF ElfInv
  <1> QED
    BY <1>1, ElfInvHolds, PTL

(* No step of the loader that copies or zeroes a byte changes a cell        *)
(* outside the region, for any field values: the tests of elf.c:125-135 do  *)
(* not overflow.                                                            *)
THEOREM LoaderWritesOnlyRegion == Spec => WritesStayInRegion
  <1> DEFINE A == pc = "copy" => \A a \in Cells \ Region : mem'[a] = mem[a]
  <1>1. ElfInv /\ [Next]_vars => [A]_vars
    <2> SUFFICES ASSUME ElfInv, Next, pc = "copy", NEW a \in Cells \ Region
                 PROVE  mem'[a] = mem[a]
      OBVIOUS
    <2>1. CopyByte \/ ZeroByte \/ SegmentDone
      BY DEF Next, Load, cmd_runelf, cmd_run, AcceptHeader, RefuseHeader, SkipSegment,
             RefuseSegment, AcceptSegment, StartProgram, UserWrite, UserExit
    <2> QED
      BY <2>1, CopyByteInv, ZeroByteInv DEF SegmentDone
  <1> QED
    BY <1>1, ElfInvHolds, PTL DEF Spec, WritesStayInRegion

(* Every byte of a segment is read from inside the file, for all values of  *)
(* the fields of its header (elf.c:137-145).                                *)
THEOREM LoaderReadsOnlyImage == Spec => []ReadsInsideImage
  <1>1. ASSUME ElfInv PROVE ReadsInsideImage
    <2> USE <1>1 DEF ElfInv
    <2>1. ASSUME pc = "copy", j < ph.filesz PROVE ph.offset + j < size
      <3>1. size \in Nat /\ ph \in ProgramHeaders /\ ~Refused(ph)
        BY <2>1, BufferFits DEF Tested
      <3>2. /\ ph.filesz \in Nat /\ ph.offset \in Nat /\ ph.memsz \in Nat
            /\ ph.offset + ph.filesz <= size
        BY <3>1, AcceptedSegment
      <3> QED
        BY <2>1, <3>1, <3>2 DEF ElfTypeOK
    <2> QED
      BY <2>1 DEF ReadsInsideImage
  <1> QED
    BY <1>1, ElfInvHolds, PTL

(* The wrapping sum of elf.c:97 is the only hole of the tests before the    *)
(* loop: when a header is read from outside the file, it wrapped.           *)
THEOREM OverrunNeedsWrap == Spec => []TableOverrunOnlyByWrap
  <1>1. ASSUME ElfInv PROVE TableOverrunOnlyByWrap
    <2> USE <1>1 DEF ElfInv
    <2>1. ASSUME pc = "load", MoreHeaders, table.phoff + table.phnum * table.phentsize < Word
          PROVE  HeaderCells \subseteq 0 .. size - 1
      <3> DEFINE o == table.phoff
                 e == table.phentsize
                 n == table.phnum
      <3>1. /\ o \in Nat /\ e \in Nat /\ n \in Nat /\ i \in Nat
            /\ e >= PhentMin /\ i < n /\ size \in Nat
        BY <2>1, BufferFits, ElfAssumption DEF Tested, Tables, ElfTypeOK, MoreHeaders, Cells
      <3>2. o + n * e < Word /\ size >= (o + n * e) % Word
        BY <2>1 DEF Tested, TableFits
      <3> HIDE DEF o, e, n
      <3>3. n * e \in Nat /\ (i + 1) * e <= n * e /\ i * e \in Nat /\ (i + 1) * e = i * e + e
        BY <3>1
      <3>4. size >= o + n * e
        BY <3>1, <3>2, <3>3, Layout
      <3>5. ASSUME NEW q \in 0 .. PhentMin - 1 PROVE (o + i * e + q) % Word \in 0 .. size - 1
        <4>1. o + i * e + q \in Nat /\ o + i * e + q < o + n * e
          BY <3>1, <3>3, Layout
        <4> QED
          BY <3>1, <3>2, <3>3, <3>4, <4>1, Layout
      <3> QED
        BY <3>5 DEF HeaderCells, o, e
    <2>2. pc = "load" => table.phoff + table.phnum * table.phentsize \in Nat /\ Word \in Nat
      BY Layout, ElfAssumption DEF Tested, Tables, Cells
    <2> QED
      BY <2>1, <2>2 DEF TableOverrunOnlyByWrap
  <1> QED
    BY <1>1, ElfInvHolds, PTL

(* What is left of a load: the program headers not yet dealt with, each     *)
(* worth a segment that fills the region, and the bytes of this segment.    *)
SegmentSteps == UserEnd - UserStart + 2

LoadLeft ==
  IF pc = "check" THEN HalfWord * SegmentSteps + 1
  ELSE IF pc = "load" THEN (table.phnum - i) * SegmentSteps + 1
  ELSE IF pc = "copy" THEN (table.phnum - (i + 1)) * SegmentSteps + (ph.memsz - j) + 2
  ELSE 0

Loading == pc \in {"check", "load", "copy"}

LoadStepsDown == [][Loading => LoadLeft' < LoadLeft]_vars

LEMMA Products ==
  ASSUME NEW n \in Nat
  PROVE  /\ n * SegmentSteps \in Nat
         /\ (n + 1) * SegmentSteps = n * SegmentSteps + SegmentSteps
         /\ \A m \in Nat : n <= m => n * SegmentSteps <= m * SegmentSteps
         /\ SegmentSteps \in Nat /\ SegmentSteps > 2
  <1>1. PICK s \in Nat : s = SegmentSteps /\ s > 2
    BY Layout DEF SegmentSteps
  <1>2. n * s \in Nat /\ (n + 1) * s = n * s + s
    BY <1>1
  <1>3. \A m \in Nat : n <= m => n * s <= m * s
    BY <1>1
  <1> QED
    BY <1>1, <1>2, <1>3

(* What LoadEnds rests on: every step of elf_load brings its end nearer,    *)
(* whatever the file says, because e_phnum is a 16-bit number the 16-bit    *)
(* loop variable can reach and a segment fits the region (elf.c:108-150).   *)
THEOREM LoadIsBounded ==
  Spec => [](LoadLeft \in 0 .. HalfWord * SegmentSteps + 1) /\ LoadStepsDown
  <1> DEFINE A == Loading => LoadLeft' < LoadLeft
  <1>0. /\ HalfWord \in Nat \ {0} /\ HalfWord * SegmentSteps \in Nat
        /\ SegmentSteps \in Nat /\ SegmentSteps > 2
    BY Layout, Products
  <1>1. ASSUME ElfInv
        PROVE  /\ pc \in {"load", "copy"} =>
                    /\ table.phnum \in Nat /\ table.phnum < HalfWord /\ i \in 0 .. table.phnum
               /\ pc = "copy" =>
                    /\ i < table.phnum /\ ph.memsz \in Nat /\ ph.filesz \in Nat
                    /\ ph.filesz <= ph.memsz /\ j \in 0 .. ph.memsz
                    /\ ph.memsz + 2 <= SegmentSteps
    <2>1. pc \in {"load", "copy"} => table.phnum \in 0 .. HalfWord - 1 /\ i \in 0 .. table.phnum
      BY <1>1 DEF ElfInv, ElfTypeOK, Tested, Tables
    <2>2. ASSUME pc = "copy"
          PROVE  /\ i < table.phnum /\ ph \in ProgramHeaders /\ ~Refused(ph) /\ j \in 0 .. ph.memsz
      BY <1>1, <2>2 DEF ElfInv, ElfTypeOK, Tested, MoreHeaders
    <2>3. ASSUME pc = "copy"
          PROVE  /\ ph.memsz \in Nat /\ ph.filesz \in Nat /\ ph.filesz <= ph.memsz
                 /\ ph.memsz + 2 <= SegmentSteps
      <3>1. /\ ph.memsz \in Nat /\ ph.filesz \in Nat /\ ph.vaddr \in Nat /\ ph.vaddr >= UserStart
        BY <2>2, <2>3, ElfAssumption, Layout DEF ProgramHeaders, Refused, Region, Cells
      <3> QED
        BY <2>2, <2>3, <3>1, Layout DEF Refused, SegmentSteps
    <2> QED
      BY <1>0, <2>1, <2>2, <2>3
  <1>2. ASSUME ElfInv PROVE LoadLeft \in 0 .. HalfWord * SegmentSteps + 1
    <2>1. PICK h \in Nat : h + 1 = HalfWord
      BY <1>0
    <2>2. CASE pc = "check"
      <3>1. LoadLeft = HalfWord * SegmentSteps + 1
        BY <2>2 DEF LoadLeft
      <3> QED
        BY <1>0, <3>1
    <2>3. CASE pc = "load"
      <3>1. PICK r \in Nat : r = table.phnum - i /\ r <= HalfWord
        BY <1>0, <1>1, <1>2, <2>3
      <3>2. r * SegmentSteps \in Nat /\ r * SegmentSteps <= HalfWord * SegmentSteps
        BY <1>0, <3>1, Products
      <3>3. LoadLeft = r * SegmentSteps + 1
        BY <2>3, <3>1 DEF LoadLeft
      <3> QED
        BY <1>0, <3>2, <3>3
    <2>4. CASE pc = "copy"
      <3>1. PICK r \in Nat : r = table.phnum - (i + 1) /\ r <= h
        BY <1>0, <1>1, <1>2, <2>1, <2>4
      <3>2. PICK m \in Nat : m = ph.memsz - j /\ m + 2 <= SegmentSteps
        BY <1>0, <1>1, <1>2, <2>4
      <3>3. /\ r * SegmentSteps \in Nat /\ r * SegmentSteps <= h * SegmentSteps
            /\ h * SegmentSteps \in Nat /\ SegmentSteps \in Nat
            /\ HalfWord * SegmentSteps = h * SegmentSteps + SegmentSteps
        BY <2>1, <3>1, Products
      <3>4. LoadLeft = r * SegmentSteps + m + 2
        BY <2>4, <3>1, <3>2 DEF LoadLeft
      <3> QED
        BY <3>2, <3>3, <3>4
    <2>5. CASE pc \notin {"check", "load", "copy"}
      BY <1>0, <2>5, Products DEF LoadLeft
    <2> QED
      BY <2>2, <2>3, <2>4, <2>5
  <1>3. ElfInv /\ [Next]_vars => [A]_vars
    <2> SUFFICES ASSUME ElfInv, Next, Loading PROVE LoadLeft' < LoadLeft
      OBVIOUS
    <2>1. Load
      BY DEF Next, Loading, cmd_runelf, cmd_run, UserWrite, UserExit
    <2>2. LoadLeft \in Nat /\ LoadLeft >= 1
      <3>1. LoadLeft # 0
        <4>1. CASE pc = "check"
          BY <1>0, <4>1, Products DEF LoadLeft
        <4>2. CASE pc = "load"
          <5>1. table.phnum - i \in Nat
            BY <1>1, <4>2
          <5> QED
            BY <4>2, <5>1, Products DEF LoadLeft
        <4>3. CASE pc = "copy"
          <5>1. PICK r \in Nat, m \in Nat : r = table.phnum - (i + 1) /\ m = ph.memsz - j
            BY <1>1, <4>3
          <5>2. LoadLeft = r * SegmentSteps + m + 2 /\ r * SegmentSteps \in Nat
            BY <4>3, <5>1, Products DEF LoadLeft
          <5> QED
            BY <5>2
        <4> QED
          BY <4>1, <4>2, <4>3 DEF Loading
      <3> QED
        BY <1>0, <1>2, <3>1, Products
    <2>3. ASSUME NEW next \in {"repl", "user"}, LeaveLoad(next) PROVE LoadLeft' < LoadLeft
      BY <2>2, <2>3 DEF LeaveLoad, LoadLeft
    <2>4. ASSUME NEW t \in Tables, NEW e \in Entries, AcceptHeader(t, e)
          PROVE  LoadLeft' < LoadLeft
      <3>1. PICK n \in Nat : n = t.phnum /\ n + 1 <= HalfWord
        BY <1>0 DEF Tables
      <3>2. LoadLeft' = n * SegmentSteps + 1 /\ LoadLeft = HalfWord * SegmentSteps + 1
        BY <2>4, <3>1 DEF AcceptHeader, LoadLeft, SegmentSteps
      <3>3. /\ n * SegmentSteps \in Nat /\ (n + 1) * SegmentSteps = n * SegmentSteps + SegmentSteps
            /\ SegmentSteps \in Nat /\ SegmentSteps > 2 /\ HalfWord * SegmentSteps \in Nat
            /\ (n + 1) * SegmentSteps <= HalfWord * SegmentSteps
        BY <1>0, <3>1, Products
      <3> QED
        BY <3>2, <3>3
    <2>5. ASSUME pc = "load", i < table.phnum
          PROVE  \E r \in Nat : /\ r = table.phnum - (i + 1) /\ (i + 1) % HalfWord = i + 1
                               /\ LoadLeft = r * SegmentSteps + SegmentSteps + 1
                               /\ r * SegmentSteps \in Nat
      <3>1. PICK r \in Nat : r = table.phnum - (i + 1) /\ r + 1 = table.phnum - i
        BY <1>1, <2>5
      <3>2. (i + 1) % HalfWord = i + 1
        BY <1>0, <1>1, <2>5
      <3> QED
        BY <2>5, <3>1, <3>2, Products DEF LoadLeft
    <2>6. CASE SkipSegment
      <3>1. pc = "load" /\ i < table.phnum
        BY <2>6 DEF SkipSegment, MoreHeaders
      <3>2. PICK r \in Nat : /\ r = table.phnum - (i + 1) /\ (i + 1) % HalfWord = i + 1
                             /\ LoadLeft = r * SegmentSteps + SegmentSteps + 1
                             /\ r * SegmentSteps \in Nat
        BY <2>5, <3>1
      <3>3. LoadLeft' = r * SegmentSteps + 1
        BY <2>6, <3>1, <3>2 DEF SkipSegment, LoadLeft, SegmentSteps
      <3> QED
        BY <3>2, <3>3, Products
    <2>7. ASSUME NEW q \in ProgramHeaders, AcceptSegment(q) PROVE LoadLeft' < LoadLeft
      <3>1. pc = "load" /\ i < table.phnum
        BY <2>7 DEF AcceptSegment, MoreHeaders
      <3>2. PICK r \in Nat : /\ r = table.phnum - (i + 1) /\ (i + 1) % HalfWord = i + 1
                             /\ LoadLeft = r * SegmentSteps + SegmentSteps + 1
                             /\ r * SegmentSteps \in Nat
        BY <2>5, <3>1
      <3>3. PICK m \in Nat : m = q.memsz /\ m + 2 <= SegmentSteps
        <4>1. q.memsz \in Nat /\ q.vaddr \in Nat
          BY ElfAssumption, Layout DEF ProgramHeaders, Cells
        <4> QED
          BY <2>7, <4>1, Layout DEF AcceptSegment, Refused, Region, SegmentSteps
      <3>4. LoadLeft' = r * SegmentSteps + m + 2
        BY <2>7, <3>2, <3>3 DEF AcceptSegment, LoadLeft, SegmentSteps
      <3> QED
        BY <1>0, <3>2, <3>3, <3>4
    <2>8. ASSUME pc = "copy"
          PROVE  \E r \in Nat : /\ r = table.phnum - (i + 1) /\ (i + 1) % HalfWord = i + 1
                               /\ LoadLeft = r * SegmentSteps + (ph.memsz - j) + 2
                               /\ r * SegmentSteps \in Nat
                               /\ ph.memsz \in Nat /\ j \in 0 .. ph.memsz /\ ph.filesz <= ph.memsz
                               /\ ph.filesz \in Nat
      <3>1. PICK r \in Nat : r = table.phnum - (i + 1)
        BY <1>1, <2>8
      <3>2. (i + 1) % HalfWord = i + 1
        BY <1>0, <1>1, <2>8
      <3> QED
        BY <1>1, <2>8, <3>1, <3>2, Products DEF LoadLeft
    <2>9. CASE CopyByte \/ ZeroByte
      <3>1. PICK r \in Nat : /\ r = table.phnum - (i + 1)
                             /\ LoadLeft = r * SegmentSteps + (ph.memsz - j) + 2
                             /\ r * SegmentSteps \in Nat
                             /\ ph.memsz \in Nat /\ j \in 0 .. ph.memsz /\ ph.filesz <= ph.memsz
                             /\ ph.filesz \in Nat
        BY <2>8, <2>9 DEF CopyByte, ZeroByte
      <3>2. LoadLeft' = r * SegmentSteps + (ph.memsz - (j + 1)) + 2
        BY <2>9, <3>1 DEF CopyByte, ZeroByte, LoadLeft, SegmentSteps
      <3> QED
        BY <3>1, <3>2
    <2>10. CASE SegmentDone
      <3>1. PICK r \in Nat : /\ r = table.phnum - (i + 1) /\ (i + 1) % HalfWord = i + 1
                             /\ LoadLeft = r * SegmentSteps + (ph.memsz - j) + 2
                             /\ r * SegmentSteps \in Nat
                             /\ ph.memsz \in Nat /\ j \in 0 .. ph.memsz
        BY <2>8, <2>10 DEF SegmentDone
      <3>2. LoadLeft' = r * SegmentSteps + 1
        BY <2>10, <3>1 DEF SegmentDone, LoadLeft, SegmentSteps
      <3> QED
        BY <3>1, <3>2
    <2> QED
      BY <2>1, <2>3, <2>4, <2>6, <2>7, <2>9, <2>10
      DEF Load, RefuseHeader, RefuseSegment, Refuse, StartProgram
  <1> QED
    BY <1>1, <1>2, <1>3, ElfInvHolds, PTL DEF Spec, LoadStepsDown
=============================================================================
