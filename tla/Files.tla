------------------------------- MODULE Files -------------------------------
(***************************************************************************)
(* Files from the image to a program: the image builder (buildfs.py), the   *)
(* AIkFS driver (fs.c), the descriptor table (fd.c) behind the open, close  *)
(* and read_file system calls (syscall.c), and the REPL commands cat and    *)
(* runelf that read files too (repl.c).                                     *)
(*                                                                          *)
(* A call is atomic except for the copy loop of fs_read, which takes one    *)
(* step per block.  System calls run with interrupts off and the REPL does  *)
(* nothing while a program runs, so no other call comes between.            *)
(***************************************************************************)
EXTENDS Integers, Sequences, FiniteSets

CONSTANTS
  NFds,        \* slots of g_fd_table (16)
  BlockSize,   \* AIKFS_BLOCK_SIZE
  DirSlots,    \* entries of a directory block
  Staged,      \* what the staging directory may hold: sequences of files
  Names,       \* the file names callers use
  Key,         \* Key[n]: the first 16 bytes of n, padded with NULs
  Buffers,     \* bound: buffers the heap can give out at a time
  Lengths      \* the lengths programs pass to read_file

(* A staged file: its name and its bytes.                                   *)
File == [name : Names, data : Seq(Nat)]

ASSUME FilesAssumption ==
  /\ NFds \in Nat \ {0} /\ BlockSize \in Nat \ {0} /\ DirSlots \in Nat \ {0}
  /\ Staged \subseteq Seq(File)
  /\ Key \in [Names -> Names]
  /\ Lengths \subseteq Nat
  \* A directory entry is a whole number of bytes.
  /\ BlockSize % DirSlots = 0
  \* A file name of the image is at most 16 bytes long, no two are the same.
  /\ \A files \in Staged :
       /\ \A i \in DOMAIN files : Key[files[i].name] = files[i].name
       /\ \A i, j \in DOMAIN files : files[i].name = files[j].name => i = j

VARIABLES
  files,             \* history: the staging directory the image was made of
  disk,              \* the ramdisk at 0x400000: its bin directory and blocks
  g_fs_initialized,
  g_fd_table,
  heap,              \* contents of each buffer in use; <<>> for a free one
  running,           \* a program runs (else the REPL)
  \* The call in progress: who reads which file, and the locals of fs_read.
  pc, by, name, ent, buf, b, bytes_copied,
  \* History.
  origin,            \* per slot: the name that was asked for
  got                \* per slot: the bytes read so far

callVars == <<pc, by, name, ent, buf, b, bytes_copied>>
vars == <<files, disk, g_fs_initialized, g_fd_table, heap, running, callVars,
          origin, got>>

Slots == 0 .. NFds - 1
Free == <<>>
Junk == -1      \* a byte nobody has written
EntryByte == 255  \* a byte of a directory entry
NoBuf == "NULL"
ClosedFd == [in_use |-> FALSE, size |-> 0, offset |-> 0, data |-> NoBuf]

----------------------------------------------------------------------------
(* The image builder.                                                       *)

BlocksOf(size) == (size + BlockSize - 1) \div BlockSize

(* add_file puts the files one behind the other, from block 4.              *)
FirstBlock(fs) ==
  LET next[i \in 1 .. Len(fs) + 1] ==
        IF i = 1 THEN 4 ELSE next[i - 1] + BlocksOf(Len(fs[i - 1].data))
  IN next

(* build_bin_dir and the data blocks of build_partition.  Entries that do   *)
(* not fit the directory block run on into block 4, where the data that is  *)
(* written later covers them; what the data leaves of them, and zeros, pad  *)
(* a file's last block.  The driver reads one block of directory.           *)
Image(fs) ==
  [dir |-> [i \in {k \in DOMAIN fs : k <= DirSlots} |->
              [name |-> Key[fs[i].name], size |-> Len(fs[i].data),
               first_block |-> FirstBlock(fs)[i],
               block_count |-> BlocksOf(Len(fs[i].data))]],
   block |-> [n \in 4 .. FirstBlock(fs)[Len(fs) + 1] - 1 |->
                LET i == CHOOSE k \in DOMAIN fs : FirstBlock(fs)[k] <= n /\ n < FirstBlock(fs)[k + 1]
                    at == (n - FirstBlock(fs)[i]) * BlockSize
                    excess == (Len(fs) - DirSlots) * (BlockSize \div DirSlots)
                IN [o \in 1 .. BlockSize |->
                      CASE at + o <= Len(fs[i].data) -> fs[i].data[at + o]
                        [] at + o > Len(fs[i].data) /\ (n - 4) * BlockSize + o <= excess -> EntryByte
                        [] OTHER -> 0]]]

----------------------------------------------------------------------------
(* fs.c                                                                     *)

(* The entries find_dir_entry matches: 16 bytes are compared, so a longer   *)
(* name finds the file named by its first 16 bytes.                         *)
Matches(n) == {i \in DOMAIN disk.dir : disk.dir[i].name = Key[n]}

(* The tests of fs_read before it allocates.  A path is [slash, bin, name]: *)
(* a leading slash, the directory "bin/", and the rest ("" if none).        *)
Found(path) ==
  /\ g_fs_initialized
  /\ ~path.slash /\ path.bin
  /\ path.name # ""
  /\ Matches(path.name) # {}

(* The call returns to its caller.                                          *)
Idle ==
  /\ pc' = "idle" /\ by' = "cat" /\ name' = "" /\ ent' = 1 /\ buf' = NoBuf
  /\ b' = 0 /\ bytes_copied' = 0

(* fs_read up to its loop: the first entry that matches; kmalloc gives a    *)
(* buffer nobody has, or NULL when the size is 0 or memory is short.        *)
fs_read(who, path) ==
  LET i == CHOOSE k \in Matches(path.name) : \A m \in Matches(path.name) : k <= m
      size == disk.dir[i].size
  IN IF Found(path) /\ size # 0 /\ \E x \in Buffers : heap[x] = Free
     THEN /\ \E x \in Buffers :
               /\ heap[x] = Free
               /\ heap' = [heap EXCEPT ![x] = [o \in 1 .. size |-> Junk]]
               /\ buf' = x
          /\ ent' = i /\ b' = 0 /\ bytes_copied' = 0
          /\ by' = who /\ name' = path.name /\ pc' = "copy"
     ELSE Idle /\ UNCHANGED heap

(* n bytes of block data, written behind the first k of s.                  *)
Write(s, k, data, n) ==
  [o \in 1 .. (IF k + n > Len(s) THEN k + n ELSE Len(s)) |->
     IF k < o /\ o <= k + n THEN data[o - k] ELSE s[o]]

(* Mutant: the last block is copied whole.                                  *)
CopyWholeBlock ==
  LET e == disk.dir[ent]
  IN /\ pc = "copy"
     /\ heap' = [heap EXCEPT ![buf] = Write(@, bytes_copied, disk.block[e.first_block + b], BlockSize)]
     /\ bytes_copied' = bytes_copied + BlockSize
     /\ b' = b + 1
     /\ pc' = IF bytes_copied' >= e.size \/ b' = e.block_count THEN "copied" ELSE "copy"
     /\ UNCHANGED <<files, disk, g_fs_initialized, g_fd_table, running, by, name, ent, buf,
                    origin, got>>

(* One iteration of the copy loop, with its break and its end.              *)
CopyBlock ==
  LET e == disk.dir[ent]
      to_copy == IF bytes_copied + BlockSize > e.size THEN e.size - bytes_copied ELSE BlockSize
  IN /\ pc = "copy"
     /\ heap' = [heap EXCEPT ![buf] = Write(@, bytes_copied, disk.block[e.first_block + b], to_copy)]
     /\ bytes_copied' = bytes_copied + to_copy
     /\ b' = b + 1
     /\ pc' = IF bytes_copied' >= e.size \/ b' = e.block_count THEN "copied" ELSE "copy"
     /\ UNCHANGED <<files, disk, g_fs_initialized, g_fd_table, running, by, name, ent, buf,
                    origin, got>>

----------------------------------------------------------------------------
(* fd.c and the system calls of a program.                                  *)

(* open: fd_open skips a leading slash; NULL is refused at once.            *)
Open(path) ==
  /\ pc = "idle" /\ running
  /\ fs_read("open", [path EXCEPT !.slash = FALSE])
  /\ UNCHANGED <<files, disk, g_fs_initialized, g_fd_table, running, origin, got>>

kfree(x) == heap' = [heap EXCEPT ![x] = Free]

FreeSlots == {i \in Slots : ~g_fd_table[i].in_use}

(* Mutant: the buffer of a file that finds no slot is forgotten.            *)
OpenNoSlotLeaks ==
  /\ pc = "copied" /\ by = "open"
  /\ FreeSlots = {}
  /\ Idle
  /\ UNCHANGED <<files, disk, g_fs_initialized, g_fd_table, heap, running, origin, got>>

(* No slot is free: the buffer is freed again.                              *)
OpenNoSlot ==
  /\ pc = "copied" /\ by = "open"
  /\ FreeSlots = {}
  /\ kfree(buf)
  /\ Idle
  /\ UNCHANGED <<files, disk, g_fs_initialized, g_fd_table, running, origin, got>>

(* The first free slot i is filled; the call returns 3 + i.                 *)
OpenSlot(i) ==
  /\ pc = "copied" /\ by = "open"
  /\ i \in FreeSlots /\ \A k \in FreeSlots : i <= k
  /\ g_fd_table' = [g_fd_table EXCEPT ![i] =
       [in_use |-> TRUE, size |-> disk.dir[ent].size, offset |-> 0, data |-> buf]]
  /\ origin' = [origin EXCEPT ![i] = name]
  /\ Idle
  /\ UNCHANGED <<files, disk, g_fs_initialized, heap, running, got>>

(* The descriptors that fd_close and fd_read accept.                        *)
ValidFd(fd) == fd >= 3 /\ fd < 3 + NFds /\ g_fd_table[fd - 3].in_use

(* close: a descriptor out of range or not in use changes nothing.          *)
fd_close(fd) ==
  /\ pc = "idle" /\ running
  /\ ValidFd(fd)
  /\ kfree(g_fd_table[fd - 3].data)
  /\ g_fd_table' = [g_fd_table EXCEPT ![fd - 3] = ClosedFd]
  /\ origin' = [origin EXCEPT ![fd - 3] = ""]
  /\ got' = [got EXCEPT ![fd - 3] = <<>>]
  /\ UNCHANGED <<files, disk, g_fs_initialized, running, callVars>>

(* read_file: at the end of the file it returns 0 and changes nothing, and  *)
(* so does a NULL buffer or a bad descriptor (with an error).               *)
fd_read(fd, len) ==
  LET f == g_fd_table[fd - 3]
      avail == f.size - f.offset
      to_read == IF len < avail THEN len ELSE avail
  IN /\ pc = "idle" /\ running
     /\ ValidFd(fd) /\ f.offset < f.size
     /\ got' = [got EXCEPT ![fd - 3] = @ \o SubSeq(heap[f.data], f.offset + 1, f.offset + to_read)]
     /\ g_fd_table' = [g_fd_table EXCEPT ![fd - 3].offset = @ + to_read]
     /\ UNCHANGED <<files, disk, g_fs_initialized, heap, running, callVars, origin>>

----------------------------------------------------------------------------
(* The REPL.                                                                *)

(* cat and runelf pass their argument on as it was typed.                   *)
ReadCommand(who, path) ==
  /\ pc = "idle" /\ ~running
  /\ fs_read(who, path)
  /\ UNCHANGED <<files, disk, g_fs_initialized, g_fd_table, running, origin, got>>

(* cat prints the buffer and frees it.                                      *)
CatDone ==
  /\ pc = "copied" /\ by = "cat"
  /\ kfree(buf)
  /\ Idle
  /\ UNCHANGED <<files, disk, g_fs_initialized, g_fd_table, running, origin, got>>

(* runelf loads the image, frees the buffer in either case, and starts the  *)
(* program when elf_load accepted it.                                       *)
RunelfDone(loaded) ==
  /\ pc = "copied" /\ by = "runelf"
  /\ kfree(buf)
  /\ running' = loaded
  /\ Idle
  /\ UNCHANGED <<files, disk, g_fs_initialized, g_fd_table, origin, got>>

(* run and runfault start the program that is at 0x200000 already.          *)
Run ==
  /\ pc = "idle" /\ ~running
  /\ running' = TRUE
  /\ UNCHANGED <<files, disk, g_fs_initialized, g_fd_table, heap, callVars, origin, got>>

(* The program exits or faults.  Neither path touches the descriptor table. *)
Terminate ==
  /\ pc = "idle" /\ running
  /\ running' = FALSE
  /\ UNCHANGED <<files, disk, g_fs_initialized, g_fd_table, heap, callVars, origin, got>>

----------------------------------------------------------------------------
(* fs_init accepts an image with the right magic and version; without one   *)
(* the ramdisk holds something else and no file is ever read.               *)
fs_init ==
  /\ files \in Staged
  /\ disk = Image(files)
  /\ g_fs_initialized \in BOOLEAN

Init ==
  /\ fs_init
  /\ g_fd_table = [i \in Slots |-> ClosedFd]
  /\ heap = [x \in Buffers |-> Free]
  /\ running = FALSE
  /\ pc = "idle" /\ by = "cat" /\ name = "" /\ ent = 1 /\ buf = NoBuf /\ b = 0 /\ bytes_copied = 0
  /\ origin = [i \in Slots |-> ""]
  /\ got = [i \in Slots |-> <<>>]

Paths == [slash : BOOLEAN, bin : BOOLEAN, name : Names \cup {""}]

Next ==
  \/ \E path \in Paths : Open(path)
  \/ CopyBlock
  \/ OpenNoSlot
  \/ \E i \in Slots : OpenSlot(i)
  \/ \E fd \in 0 .. NFds + 3 : fd_close(fd)
  \/ \E fd \in 0 .. NFds + 3, len \in Lengths : fd_read(fd, len)
  \/ \E who \in {"cat", "runelf"}, path \in Paths : ReadCommand(who, path)
  \/ CatDone
  \/ \E loaded \in BOOLEAN : RunelfDone(loaded)
  \/ Run
  \/ Terminate

Spec == Init /\ [][Next]_vars

----------------------------------------------------------------------------
(* Properties *)

(* The values the variables range over.                                     *)
FilesTypeOK ==
  /\ files \in Staged
  /\ g_fs_initialized \in BOOLEAN /\ running \in BOOLEAN
  /\ g_fd_table \in [Slots -> [in_use : BOOLEAN, size : Nat, offset : Nat,
                               data : Buffers \cup {NoBuf}]]
  /\ heap \in [Buffers -> Seq(Nat \cup {Junk})]
  /\ pc \in {"idle", "copy", "copied"} /\ by \in {"open", "cat", "runelf"}
  /\ ent \in Nat /\ b \in Nat /\ bytes_copied \in Nat
  /\ buf \in Buffers \cup {NoBuf}
  /\ origin \in [Slots -> Names \cup {""}] /\ name \in Names \cup {""}
  /\ got \in [Slots -> Seq(Nat \cup {Junk})]

(* The buffer of the call in progress.                                      *)
InHand == IF pc = "idle" THEN {} ELSE {buf}

(* Every buffer in use has exactly one owner, an open descriptor (also one  *)
(* that an ended program left, syscall.c:27-42, idt.c:89-113) or the        *)
(* call in progress: no error path (bad ELF, table full, unknown name)      *)
(* leaks one or frees it twice, and no two descriptors share one.           *)
OneOwnerPerBuffer ==
  LET open == {i \in Slots : g_fd_table[i].in_use}
      owned == {g_fd_table[i].data : i \in open}
  IN /\ {x \in Buffers : heap[x] # Free} = owned \cup InHand
     /\ owned \cap InHand = {}
     /\ \A i, j \in open : g_fd_table[i].data = g_fd_table[j].data => i = j

StagedAs(n) == files[CHOOSE k \in DOMAIN files : files[k].name = Key[n]].data

(* Through an open descriptor a program reads exactly the bytes that were   *)
(* staged under the name it asked for, from the first, each once, whatever  *)
(* other files are opened, read and closed in between: the builder's block  *)
(* layout, the driver's copy (its last, partial block included) and the     *)
(* read offset agree, and entries past the end of the directory block       *)
(* damage no file that can be opened.                                       *)
ReadsStagedBytes ==
  \A i \in Slots : g_fd_table[i].in_use =>
    LET data == StagedAs(origin[i])
    IN /\ heap[g_fd_table[i].data] = data
       /\ g_fd_table[i].size = Len(data)
       /\ g_fd_table[i].offset <= Len(data)
       /\ got[i] = SubSeq(data, 1, g_fd_table[i].offset)
=============================================================================
