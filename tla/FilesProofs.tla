---------------------------- MODULE FilesProofs ----------------------------
(***************************************************************************)
(* Files for every staging directory, block size and number of descriptors: *)
(* every buffer has one owner, and what a program reads through a           *)
(* descriptor is what was staged under the name it opened.                  *)
(***************************************************************************)
EXTENDS Files, WellFoundedInduction, SequenceTheorems, TLAPS

(* The image never changes after it was built.                              *)
ImageKept == files \in Staged /\ disk = Image(files)

(* The call in progress copies a file that has the name asked for; what it  *)
(* has copied so far is the beginning of that file.                         *)
CopyInv ==
  pc # "idle" =>
    LET data == files[ent].data
    IN /\ buf \in Buffers /\ ent \in DOMAIN disk.dir
       /\ name \in Names /\ files[ent].name = Key[name]
       /\ Len(data) > 0 /\ Len(heap[buf]) = Len(data)
       /\ pc = "copy" => /\ b < BlocksOf(Len(data))
                         /\ bytes_copied = b * BlockSize /\ bytes_copied < Len(data)
       /\ pc = "copied" => bytes_copied = Len(data)
       /\ \A o \in 1 .. bytes_copied : heap[buf][o] = data[o]

(* An open descriptor is for a file of the image; a closed one was reset.   *)
SlotInv ==
  \A s \in Slots :
    IF g_fd_table[s].in_use
    THEN /\ g_fd_table[s].data \in Buffers
         /\ origin[s] \in Names
         /\ \E q \in DOMAIN files : files[q].name = Key[origin[s]]
    ELSE got[s] = <<>>

(* OneOwnerPerBuffer, buffer by buffer.                                     *)
Owners ==
  /\ \A x \in Buffers :
       heap[x] # Free <=> \/ \E s \in Slots : g_fd_table[s].in_use /\ g_fd_table[s].data = x
                          \/ pc # "idle" /\ buf = x
  /\ \A s \in Slots : g_fd_table[s].in_use /\ pc # "idle" => g_fd_table[s].data # buf
  /\ \A s, t \in Slots : /\ g_fd_table[s].in_use /\ g_fd_table[t].in_use
                         /\ g_fd_table[s].data = g_fd_table[t].data
                         => s = t

FilesInv ==
  /\ FilesTypeOK
  /\ ImageKept
  /\ CopyInv
  /\ SlotInv
  /\ Owners
  /\ ReadsStagedBytes

----------------------------------------------------------------------------
(* The layout of the image                                                  *)

(* A set of numbers that is not empty has a least one.                      *)
LEMMA LeastOf ==
  ASSUME NEW T, T \subseteq Nat, T # {}
  PROVE  \E x \in T : \A y \in T : x <= y
  <1> DEFINE R == OpToRel(<, Nat)
  <1>1. IsWellFoundedOn(R, Nat)
    BY NatLessThanWellFounded
  <1>2. \A x, y \in Nat : y < x => <<y, x>> \in R
    BY DEF OpToRel
  <1> HIDE DEF R
  <1>3. PICK x \in T : \A y \in T : ~ (<<y, x>> \in R)
    BY <1>1, WFMin
  <1>4. \A y \in T : x \in Nat /\ y \in Nat /\ ~(y < x)
    BY <1>2, <1>3
  <1> QED
    BY <1>4

(* Induction over numbers, for a set: whatever contains 1 and with n also   *)
(* n + 1, up to N, contains all of 1 .. N.                                  *)
LEMMA UpTo ==
  ASSUME NEW N \in Nat, NEW S, 1 \in S, \A n \in 1 .. N - 1 : n \in S => n + 1 \in S
  PROVE  \A n \in 1 .. N : n \in S
  <1> SUFFICES ASSUME NEW n \in 1 .. N, n \notin S PROVE FALSE
    OBVIOUS
  <1> DEFINE T == {m \in 1 .. N : m \notin S}
  <1>1. T \subseteq Nat /\ T # {}
    OBVIOUS
  <1>2. PICK x \in T : \A y \in T : x <= y
    <2> HIDE DEF T
    <2> QED
      BY <1>1, LeastOf
  <1>3. x \in 1 .. N /\ x \notin S /\ x # 1
    OBVIOUS
  <1>4. x - 1 \in 1 .. N - 1 /\ ~(x <= x - 1) /\ (x - 1) + 1 = x
    BY <1>3
  <1>5. x - 1 \notin T
    BY <1>2, <1>4
  <1> QED
    BY <1>3, <1>4, <1>5

LEMMA Blocks ==
  ASSUME NEW n \in Nat
  PROVE  BlocksOf(n) \in Nat /\ (n > 0 => BlocksOf(n) > 0)
  <1> DEFINE B == BlockSize
  <1>1. B \in Nat \ {0}
    BY FilesAssumption
  <1>2. (n + B - 1) \div B \in Nat /\ (n > 0 => (n + B - 1) \div B > 0)
    <2> HIDE DEF B
    <2>1. n + B - 1 \in Nat /\ (n > 0 => n + B - 1 >= B)
      BY <1>1
    <2> QED
      BY <1>1, <2>1
  <1> QED
    BY <1>2 DEF BlocksOf

(* A function on 1 .. n is a sequence of length n.                          *)
LEMMA FcnIsSeq ==
  ASSUME NEW n \in Nat, NEW S, NEW f \in [1 .. n -> S]
  PROVE  f \in Seq(S) /\ Len(f) = n /\ (n > 0 => f # <<>>)
  OBVIOUS

(* The recursive definition of FirstBlock defines a function.               *)
LEMMA FirstBlockDef ==
  ASSUME NEW fs \in Seq(File)
  PROVE  FirstBlock(fs) = [i \in 1 .. Len(fs) + 1 |->
            IF i = 1 THEN 4 ELSE FirstBlock(fs)[i - 1] + BlocksOf(Len(fs[i - 1].data))]
  <1> DEFINE N == Len(fs) + 1
             Def(g, i) == IF i = 1 THEN 4 ELSE g[i - 1] + BlocksOf(Len(fs[i - 1].data))
             S == {n \in 1 .. N : \E g : g = [i \in 1 .. n |-> Def(g, i)]}
  <1>1. N \in Nat /\ N >= 1
    OBVIOUS
  <1>2. 1 \in S
    <2> DEFINE g == [i \in 1 .. 1 |-> 4]
    <2>1. g = [i \in 1 .. 1 |-> Def(g, i)]
      OBVIOUS
    <2> HIDE DEF g
    <2>2. \E f : f = [i \in 1 .. 1 |-> Def(f, i)]
      BY <2>1
    <2>3. 1 \in 1 .. N
      BY <1>1
    <2> QED
      BY <2>2, <2>3
  <1>3. ASSUME NEW n \in 1 .. N - 1, n \in S PROVE n + 1 \in S
    <2>1. PICK g : g = [i \in 1 .. n |-> Def(g, i)]
      BY <1>3
    <2> DEFINE h == [i \in 1 .. n + 1 |-> IF i = n + 1 THEN Def(g, n + 1) ELSE g[i]]
    <2>2. ASSUME NEW i \in 1 .. n + 1 PROVE h[i] = Def(h, i)
      <3>1. CASE i = 1
        BY <1>3, <2>1, <3>1
      <3>2. CASE i # 1
        <4>1. i - 1 \in 1 .. n + 1 /\ i - 1 # n + 1
          BY <1>3, <3>2
        <4>2. h[i - 1] = g[i - 1]
          BY <4>1
        <4>3. CASE i = n + 1
          BY <3>2, <4>2, <4>3
        <4>4. CASE i # n + 1
          <5>1. i \in 1 .. n
            BY <1>3, <4>4
          <5>2. g[i] = Def(g, i)
            BY <2>1, <5>1
          <5> QED
            BY <3>2, <4>2, <4>4, <5>2
        <4> QED
          BY <4>3, <4>4
      <3> QED
        BY <3>1, <3>2
    <2>3. h = [i \in 1 .. n + 1 |-> Def(h, i)]
      BY <2>2
    <2> HIDE DEF h
    <2>4. \E f : f = [i \in 1 .. n + 1 |-> Def(f, i)]
      BY <2>3
    <2>5. n + 1 \in 1 .. N
      BY <1>1, <1>3
    <2> QED
      BY <2>4, <2>5
  <1>4. N \in S
    <2> HIDE DEF S
    <2> QED
      BY <1>1, <1>2, <1>3, UpTo
  <1>5. \E g : g = [i \in 1 .. N |-> Def(g, i)]
    BY <1>4
  <1>6. FirstBlock(fs) = CHOOSE g : g = [i \in 1 .. N |-> Def(g, i)]
    BY DEF FirstBlock
  <1> QED
    BY <1>5, <1>6

LEMMA FileData ==
  ASSUME NEW fs \in Seq(File), NEW i \in 1 .. Len(fs)
  PROVE  fs[i].name \in Names /\ fs[i].data \in Seq(Nat) /\ Len(fs[i].data) \in Nat
  <1>1. fs[i] \in File
    OBVIOUS
  <1>2. fs[i].name \in Names /\ fs[i].data \in Seq(Nat)
    BY <1>1 DEF File
  <1> QED
    BY <1>2, LenProperties

(* Files lie one behind the other: their block ranges do not meet.          *)
LEMMA FilesApart ==
  ASSUME NEW fs \in Seq(File)
  PROVE  LET F == FirstBlock(fs)
         IN /\ \A i \in 1 .. Len(fs) + 1 : F[i] \in Nat /\ 4 <= F[i] /\ F[i] <= F[Len(fs) + 1]
            /\ \A i \in 1 .. Len(fs) : F[i + 1] = F[i] + BlocksOf(Len(fs[i].data))
            /\ \A i, m \in 1 .. Len(fs) : \A n \in Nat :
                 F[i] <= n /\ n < F[i + 1] /\ F[m] <= n /\ n < F[m + 1] => i = m
  <1> DEFINE F == FirstBlock(fs)
             N == Len(fs) + 1
  <1>0. N \in Nat /\ N >= 1 /\ Len(fs) = N - 1 /\ Len(fs) \in Nat
    OBVIOUS
  <1>1. F[1] = 4
    BY <1>0, FirstBlockDef
  <1>2. ASSUME NEW i \in 1 .. N - 1
        PROVE  F[i + 1] = F[i] + BlocksOf(Len(fs[i].data)) /\ BlocksOf(Len(fs[i].data)) \in Nat
    <2>1. i + 1 \in 1 .. N /\ i + 1 # 1 /\ (i + 1) - 1 = i
      BY <1>0
    <2>2. F[i + 1] = F[(i + 1) - 1] + BlocksOf(Len(fs[(i + 1) - 1].data))
      BY <2>1, FirstBlockDef
    <2>3. Len(fs[i].data) \in Nat
      BY <1>0, FileData
    <2> QED
      BY <2>1, <2>2, <2>3, Blocks
  <1> HIDE DEF F, N
  <1>3. \A i \in 1 .. N : F[i] \in Nat
    <2> DEFINE S == {i \in 1 .. N : F[i] \in Nat}
    <2>1. 1 \in S
      BY <1>0, <1>1
    <2>2. ASSUME NEW n \in 1 .. N - 1, n \in S PROVE n + 1 \in S
      BY <1>0, <1>2, <2>2
    <2> HIDE DEF S
    <2>3. \A n \in 1 .. N : n \in S
      BY <1>0, <2>1, <2>2, UpTo
    <2> QED
      BY <2>3 DEF S
  <1>4. \A i, m \in 1 .. N : i <= m => F[i] <= F[m]
    <2> SUFFICES ASSUME NEW i \in 1 .. N PROVE \A m \in 1 .. N : i <= m => F[i] <= F[m]
      OBVIOUS
    <2> DEFINE S == {m \in 1 .. N : i <= m => F[i] <= F[m]}
    <2>1. 1 \in S
      <3>1. i <= 1 => i = 1
        BY <1>0
      <3>2. F[1] \in Nat /\ 1 \in 1 .. N
        BY <1>0, <1>3
      <3> QED
        BY <3>1, <3>2
    <2>2. ASSUME NEW n \in 1 .. N - 1, n \in S PROVE n + 1 \in S
      <3>1. n + 1 \in 1 .. N /\ n \in 1 .. N
        BY <1>0
      <3>2. F[n] \in Nat /\ F[n + 1] \in Nat /\ F[i] \in Nat /\ F[n] <= F[n + 1]
        BY <1>2, <1>3, <3>1
      <3>3. ASSUME i <= n + 1 PROVE F[i] <= F[n + 1]
        <4>1. i = n + 1 \/ i <= n
          BY <3>3, <1>0
        <4> QED
          BY <2>2, <3>2, <4>1
      <3> QED
        BY <3>1, <3>3
    <2> HIDE DEF S
    <2>3. \A n \in 1 .. N : n \in S
      BY <1>0, <2>1, <2>2, UpTo
    <2> QED
      BY <2>3 DEF S
  <1>5. ASSUME NEW i \in 1 .. N - 1, NEW m \in 1 .. N - 1, NEW n \in Nat,
               F[i] <= n, n < F[i + 1], F[m] <= n, n < F[m + 1]
        PROVE  i = m
    <2>1. /\ i \in 1 .. N /\ m \in 1 .. N /\ i + 1 \in 1 .. N /\ m + 1 \in 1 .. N
          /\ i \in Nat /\ m \in Nat
      BY <1>0
    <2>2. F[i] \in Nat /\ F[m] \in Nat /\ F[i + 1] \in Nat /\ F[m + 1] \in Nat
      BY <1>3, <2>1
    <2>3. ~(i + 1 <= m)
      BY <1>4, <1>5, <2>1, <2>2
    <2>4. ~(m + 1 <= i)
      BY <1>4, <1>5, <2>1, <2>2
    <2> QED
      BY <2>1, <2>3, <2>4
  <1>6. \A i \in 1 .. N : F[i] \in Nat /\ 4 <= F[i] /\ F[i] <= F[N]
    BY <1>0, <1>1, <1>3, <1>4
  <1> QED
    BY <1>0, <1>2, <1>5, <1>6 DEF F, N

(* The block that holds the bytes from m * BlockSize on of file i.          *)
LEMMA BlockContents ==
  ASSUME NEW fs \in Seq(File), NEW i \in 1 .. Len(fs),
         NEW m \in Nat, m < BlocksOf(Len(fs[i].data))
  PROVE  LET blk == Image(fs).block[FirstBlock(fs)[i] + m]
         IN \A o \in 1 .. BlockSize :
              /\ blk[o] \in Nat
              /\ m * BlockSize + o <= Len(fs[i].data) => blk[o] = fs[i].data[m * BlockSize + o]
  <1> DEFINE F == FirstBlock(fs)
             n == F[i] + m
             At(q) == (n - F[q]) * BlockSize
             excess == (Len(fs) - DirSlots) * (BlockSize \div DirSlots)
             own == CHOOSE q \in DOMAIN fs : F[q] <= n /\ n < F[q + 1]
             Val(q, o) == CASE At(q) + o <= Len(fs[q].data) -> fs[q].data[At(q) + o]
                            [] At(q) + o > Len(fs[q].data) /\ (n - 4) * BlockSize + o <= excess -> EntryByte
                            [] OTHER -> 0
  <1>1. DOMAIN fs = 1 .. Len(fs)
    OBVIOUS
  <1>2. /\ F[i] \in Nat /\ 4 <= F[i] /\ F[i + 1] = F[i] + BlocksOf(Len(fs[i].data))
        /\ F[i + 1] \in Nat /\ F[i + 1] <= F[Len(fs) + 1] /\ F[Len(fs) + 1] \in Nat
    <2>1. i + 1 \in 1 .. Len(fs) + 1 /\ i \in 1 .. Len(fs) + 1 /\ Len(fs) + 1 \in 1 .. Len(fs) + 1
      OBVIOUS
    <2> QED
      BY <2>1, FilesApart
  <1>3. BlocksOf(Len(fs[i].data)) \in Nat
    BY FileData, Blocks
  <1>4. n \in Nat /\ F[i] <= n /\ n < F[i + 1] /\ n \in 4 .. F[Len(fs) + 1] - 1
    <2> DEFINE blocks == BlocksOf(Len(fs[i].data))
    <2>1. F[i] \in Nat /\ 4 <= F[i] /\ blocks \in Nat /\ m < blocks /\ F[i + 1] = F[i] + blocks
      BY <1>2, <1>3
    <2>2. F[i + 1] \in Nat /\ F[i + 1] <= F[Len(fs) + 1] /\ F[Len(fs) + 1] \in Nat
      BY <1>2
    <2>3. \A p, r, z \in Nat : 4 <= p /\ m < r /\ p + r <= z
                              => p + m \in Nat /\ p <= p + m /\ p + m < p + r /\ p + m \in 4 .. z - 1
      OBVIOUS
    <2> HIDE DEF F, blocks
    <2> QED
      BY <2>1, <2>2, <2>3
  <1>5. own = i
    <2>1. \A q \in DOMAIN fs : F[q] <= n /\ n < F[q + 1] => q = i
      BY <1>1, <1>4, FilesApart
    <2> QED
      BY <1>1, <1>4, <2>1
  <1>6. Image(fs).block[n] = [o \in 1 .. BlockSize |-> Val(own, o)]
    BY <1>4 DEF Image
  <1>7. At(i) = m * BlockSize
    <2>1. n - F[i] = m
      BY <1>2
    <2> QED
      BY <2>1
  <1> HIDE DEF n, own, At, excess
  <1> SUFFICES ASSUME NEW o \in 1 .. BlockSize
               PROVE  /\ Val(i, o) \in Nat
                      /\ m * BlockSize + o <= Len(fs[i].data) =>
                           Val(i, o) = fs[i].data[m * BlockSize + o]
    BY <1>5, <1>6 DEF n
  <1>8. m * BlockSize \in Nat /\ o \in Nat /\ m * BlockSize + o > 0
    BY FilesAssumption
  <1>9. CASE m * BlockSize + o <= Len(fs[i].data)
    <2>1. m * BlockSize + o \in 1 .. Len(fs[i].data)
      BY <1>8, <1>9, FileData
    <2>2. fs[i].data[m * BlockSize + o] \in Nat
      BY <2>1, FileData
    <2>3. Val(i, o) = fs[i].data[m * BlockSize + o]
      BY <1>7, <1>8, <1>9, FileData
    <2> QED
      BY <2>2, <2>3
  <1>10. CASE ~(m * BlockSize + o <= Len(fs[i].data))
    <2>1. Val(i, o) = EntryByte \/ Val(i, o) = 0
      BY <1>7, <1>10
    <2> QED
      BY <1>10, <2>1 DEF EntryByte
  <1> QED
    BY <1>9, <1>10

----------------------------------------------------------------------------
(* The driver's view of the image                                           *)

LEMMA Entries ==
  ASSUME ImageKept, NEW i \in DOMAIN disk.dir
  PROVE  /\ files \in Seq(File) /\ i \in 1 .. Len(files) /\ i \in DOMAIN files /\ i \in Nat
         /\ disk.dir[i].name = files[i].name /\ disk.dir[i].size = Len(files[i].data)
         /\ disk.dir[i].first_block = FirstBlock(files)[i]
         /\ disk.dir[i].block_count = BlocksOf(Len(files[i].data))
         /\ disk.block = Image(files).block
         /\ files[i].data \in Seq(Nat) /\ Len(files[i].data) \in Nat
  <1>1. files \in Seq(File) /\ files \in Staged
    BY FilesAssumption DEF ImageKept
  <1>2. i \in {q \in DOMAIN files : q <= DirSlots}
    BY DEF ImageKept, Image
  <1>3. i \in 1 .. Len(files) /\ i \in DOMAIN files
    BY <1>1, <1>2
  <1>4. Key[files[i].name] = files[i].name
    BY <1>1, <1>3, FilesAssumption
  <1> QED
    BY <1>1, <1>2, <1>3, <1>4, FileData DEF ImageKept, Image

(* The file staged under a name is the only one of that name.               *)
LEMMA StagedUnique ==
  ASSUME ImageKept, NEW n \in Names, NEW q \in DOMAIN files, files[q].name = Key[n]
  PROVE  StagedAs(n) = files[q].data
  <1>1. \A r \in DOMAIN files : files[r].name = Key[n] => r = q
    BY FilesAssumption DEF ImageKept
  <1> QED
    BY <1>1 DEF StagedAs

LEMMA StagedIsSeq ==
  ASSUME ImageKept, NEW n \in Names, \E q \in DOMAIN files : files[q].name = Key[n]
  PROVE  StagedAs(n) \in Seq(Nat) /\ Len(StagedAs(n)) \in Nat
  <1>1. PICK q \in DOMAIN files : files[q].name = Key[n]
    OBVIOUS
  <1>2. files \in Seq(File) /\ q \in 1 .. Len(files)
    BY FilesAssumption DEF ImageKept
  <1> QED
    BY <1>1, <1>2, StagedUnique, FileData

(* A whole block was copied, or the rest of the file.                       *)
LEMMA BlockArithmetic ==
  ASSUME NEW L \in Nat, NEW n \in Nat, n < BlocksOf(L), n * BlockSize < L,
         NEW tc, tc = IF n * BlockSize + BlockSize > L THEN L - n * BlockSize ELSE BlockSize
  PROVE  /\ tc \in 1 .. BlockSize /\ n * BlockSize \in Nat
         /\ n * BlockSize + tc <= L
         /\ n * BlockSize + tc >= L \/ n + 1 = BlocksOf(L) => n * BlockSize + tc = L
         /\ n * BlockSize + tc < L => /\ n * BlockSize + tc = (n + 1) * BlockSize
                                      /\ n + 1 <= BlocksOf(L)
  <1> DEFINE B == BlockSize
  <1>1. B \in Nat \ {0} /\ n * B \in Nat /\ (n + 1) * B = n * B + B
    BY FilesAssumption
  <1>2. BlocksOf(L) = (L + B - 1) \div B /\ BlocksOf(L) \in Nat
    BY Blocks DEF BlocksOf
  <1>3. n + 1 = BlocksOf(L) => (n + 1) * B >= L
    <2> SUFFICES ASSUME n + 1 = (L + B - 1) \div B PROVE (n + 1) * B >= L
      BY <1>2
    <2>1. L + B - 1 < (n + 1) * B + B
      BY <1>1
    <2> QED
      BY <1>1, <2>1
  <1> HIDE DEF B
  <1>4. tc = IF n * B + B > L THEN L - n * B ELSE B
    BY DEF B
  <1>5. tc \in 1 .. B /\ n * B + tc <= L
    BY <1>1, <1>4 DEF B
  <1> QED
    BY <1>1, <1>2, <1>3, <1>4, <1>5 DEF B

----------------------------------------------------------------------------
(* The descriptor in slot s is as before, and so is its buffer.             *)
SameSlot(s) ==
  /\ g_fd_table'[s] = g_fd_table[s] /\ origin'[s] = origin[s] /\ got'[s] = got[s]
  /\ g_fd_table[s].in_use => heap'[g_fd_table[s].data] = heap[g_fd_table[s].data]

(* What the two properties of the table ask of one slot.                    *)
SlotOk(s) ==
  IF g_fd_table[s].in_use
  THEN /\ g_fd_table[s].data \in Buffers
       /\ origin[s] \in Names
       /\ \E q \in DOMAIN files : files[q].name = Key[origin[s]]
       /\ heap[g_fd_table[s].data] = StagedAs(origin[s])
       /\ g_fd_table[s].size = Len(StagedAs(origin[s]))
       /\ g_fd_table[s].offset <= Len(StagedAs(origin[s]))
       /\ got[s] = SubSeq(StagedAs(origin[s]), 1, g_fd_table[s].offset)
  ELSE got[s] = <<>>

LEMMA SlotsOk == SlotInv /\ ReadsStagedBytes <=> \A s \in Slots : SlotOk(s)
  BY DEF SlotInv, ReadsStagedBytes, SlotOk

LEMMA SlotsOkNext == (\A s \in Slots : SlotOk(s)') => SlotInv' /\ ReadsStagedBytes'
  BY DEF SlotInv, ReadsStagedBytes, SlotOk

LEMMA SameSlotOk ==
  ASSUME NEW s \in Slots, SlotOk(s), SameSlot(s), files' = files
  PROVE  SlotOk(s)'
  <1>1. StagedAs(origin[s])' = StagedAs(origin[s])
    BY DEF SameSlot, StagedAs
  <1> QED
    BY <1>1 DEF SlotOk, SameSlot

(* A call gets a buffer nobody has, or ends at once.                        *)
LEMMA FsReadInv ==
  ASSUME FilesInv, pc = "idle", NEW who \in {"open", "cat", "runelf"},
         NEW path \in Paths, fs_read(who, path),
         UNCHANGED <<files, disk, g_fs_initialized, g_fd_table, running, origin, got>>
  PROVE  FilesInv'
  <1> USE DEF FilesInv
  <1> DEFINE i == CHOOSE q \in Matches(path.name) : \A m \in Matches(path.name) : q <= m
             size == disk.dir[i].size
             Ok == Found(path) /\ size # 0 /\ \E x \in Buffers : heap[x] = Free
  <1>0. ImageKept'
    BY DEF ImageKept
  <1>1. CASE ~Ok
    <2>1. Idle /\ heap' = heap
      BY <1>1 DEF fs_read
    <2>2. FilesTypeOK'
      BY <2>1 DEF Idle, FilesTypeOK
    <2>3. \A s \in Slots : SlotOk(s)'
      BY <2>1, SlotsOk, SameSlotOk DEF SameSlot
    <2>4. pc' = "idle" /\ g_fd_table' = g_fd_table
      BY <2>1 DEF Idle
    <2>5. CopyInv' /\ Owners'
      BY <2>1, <2>4 DEF CopyInv, Owners
    <2> QED
      BY <1>0, <2>2, <2>3, <2>5, SlotsOkNext
  <1>2. CASE Ok
    <2>1. PICK x \in Buffers :
            /\ heap[x] = Free /\ buf' = x
            /\ heap' = [heap EXCEPT ![x] = [o \in 1 .. size |-> Junk]]
            /\ ent' = i /\ b' = 0 /\ bytes_copied' = 0
            /\ by' = who /\ name' = path.name /\ pc' = "copy"
      BY <1>2 DEF fs_read
    <2>2. path.name \in Names
      BY <1>2 DEF Paths, Found
    <2>3. i \in Matches(path.name)
      <3>1. Matches(path.name) \subseteq DOMAIN disk.dir /\ Matches(path.name) # {}
        BY <1>2 DEF Matches, Found
      <3>2. Matches(path.name) \subseteq Nat
        BY <3>1, Entries
      <3>3. \E q \in Matches(path.name) : \A m \in Matches(path.name) : q <= m
        BY <3>1, <3>2, LeastOf
      <3> QED
        BY <3>3
    <2>4. i \in DOMAIN disk.dir /\ disk.dir[i].name = Key[path.name]
      BY <2>3 DEF Matches
    <2> HIDE DEF i
    <2>5. /\ i \in Nat /\ files[i].name = Key[path.name]
          /\ size = Len(files[i].data) /\ size \in Nat /\ size > 0
      BY <1>2, <2>4, Entries
    <2>6. BlocksOf(size) > 0
      BY <2>5, Blocks
    <2> HIDE DEF size
    <2> DEFINE new == [o \in 1 .. size |-> Junk]
    <2>7. new \in Seq(Nat \cup {Junk}) /\ Len(new) = size /\ new # <<>>
      <3>1. new \in [1 .. size -> Nat \cup {Junk}]
        OBVIOUS
      <3> HIDE DEF new
      <3> QED
        BY <2>5, <3>1, FcnIsSeq
    <2> HIDE DEF new
    <2>8. /\ heap' \in [Buffers -> Seq(Nat \cup {Junk})]
          /\ heap'[x] = new /\ \A y \in Buffers \ {x} : heap'[y] = heap[y]
      BY <2>1, <2>7 DEF FilesTypeOK, new
    <2>9. FilesTypeOK'
      BY <2>1, <2>2, <2>5, <2>8 DEF FilesTypeOK
    <2>10. CopyInv'
      <3>1. 0 * BlockSize = 0
        BY FilesAssumption
      <3>2. (1 .. 0) = {}
        OBVIOUS
      <3> QED
        BY <2>1, <2>2, <2>4, <2>5, <2>6, <2>7, <2>8, <3>1, <3>2 DEF CopyInv
    <2>11. \A s \in Slots : g_fd_table[s].in_use => g_fd_table[s].data \in Buffers \ {x}
      <3> SUFFICES ASSUME NEW s \in Slots, g_fd_table[s].in_use
                   PROVE  g_fd_table[s].data \in Buffers /\ g_fd_table[s].data # x
        OBVIOUS
      <3>1. g_fd_table[s].data \in Buffers
        BY DEF SlotInv
      <3>2. heap[g_fd_table[s].data] # Free
        BY <3>1 DEF Owners
      <3> QED
        BY <2>1, <3>1, <3>2
    <2>12. \A s \in Slots : SlotOk(s)'
      BY <2>8, <2>11, SlotsOk, SameSlotOk DEF SameSlot
    <2>13. Owners'
      <3>1. g_fd_table' = g_fd_table /\ pc' # "idle" /\ buf' = x /\ heap'[x] # Free
        BY <2>1, <2>7, <2>8 DEF Free
      <3>2. ASSUME NEW y \in Buffers
            PROVE  heap'[y] # Free <=> \/ \E s \in Slots : g_fd_table[s].in_use /\ g_fd_table[s].data = y
                                       \/ x = y
        <4>1. CASE y = x
          BY <3>1, <4>1
        <4>2. CASE y # x
          BY <2>8, <4>2 DEF Owners
        <4> QED
          BY <4>1, <4>2
      <3> QED
        BY <2>11, <3>1, <3>2 DEF Owners
    <2> QED
      BY <1>0, <2>9, <2>10, <2>12, <2>13, SlotsOkNext
  <1> QED
    BY <1>1, <1>2

(* One iteration: the part copied grows by the part of the block that       *)
(* belongs to the file, and the last iteration completes the file.          *)
LEMMA CopyBlockInv ==
  ASSUME FilesInv, CopyBlock
  PROVE  FilesInv'
  <1> USE DEF FilesInv
  <1> DEFINE data == files[ent].data
             L == Len(data)
             at == b * BlockSize
             tc == IF at + BlockSize > L THEN L - at ELSE BlockSize
             blk == disk.block[disk.dir[ent].first_block + b]
             old == heap[buf]
             new == Write(old, at, blk, tc)
             V == Nat \cup {Junk}
  <1>1. pc = "copy"
    BY DEF CopyBlock
  <1>2. /\ buf \in Buffers /\ ent \in DOMAIN disk.dir /\ name \in Names
        /\ files[ent].name = Key[name] /\ L > 0 /\ Len(old) = L
        /\ b < BlocksOf(L) /\ bytes_copied = at /\ at < L
        /\ \A o \in 1 .. at : old[o] = data[o]
    BY <1>1 DEF CopyInv
  <1>3. /\ files \in Seq(File) /\ ent \in 1 .. Len(files) /\ disk.dir[ent].size = L
        /\ disk.dir[ent].first_block = FirstBlock(files)[ent]
        /\ disk.dir[ent].block_count = BlocksOf(L)
        /\ disk.block = Image(files).block
        /\ data \in Seq(Nat) /\ L \in Nat
    BY <1>2, Entries
  <1>4. b \in Nat /\ old \in Seq(V)
    BY <1>2 DEF FilesTypeOK
  <1>5. \A o \in 1 .. BlockSize : blk[o] \in Nat /\ (at + o <= L => blk[o] = data[at + o])
    <2>1. blk = Image(files).block[FirstBlock(files)[ent] + b]
      BY <1>3
    <2>2. b < BlocksOf(Len(files[ent].data))
      BY <1>2
    <2> HIDE DEF blk
    <2> QED
      BY <1>3, <1>4, <2>1, <2>2, BlockContents
  <1>6. /\ tc \in 1 .. BlockSize /\ at \in Nat /\ at + tc <= L
        /\ at + tc >= L \/ b + 1 = BlocksOf(L) => at + tc = L
        /\ at + tc < L => at + tc = (b + 1) * BlockSize /\ b + 1 <= BlocksOf(L)
    <2>1. tc = IF b * BlockSize + BlockSize > L THEN L - b * BlockSize ELSE BlockSize
      OBVIOUS
    <2>2. L \in Nat /\ b \in Nat /\ b < BlocksOf(L) /\ b * BlockSize < L
      BY <1>2, <1>3, <1>4
    <2> HIDE DEF tc, L
    <2> QED
      BY <2>1, <2>2, BlockArithmetic
  <1>7. /\ heap' = [heap EXCEPT ![buf] = new]
        /\ bytes_copied' = at + tc /\ b' = b + 1
        /\ pc' = IF at + tc >= L \/ b + 1 = BlocksOf(L) THEN "copied" ELSE "copy"
        /\ UNCHANGED <<files, disk, g_fs_initialized, g_fd_table, running, by, name, ent, buf,
                       origin, got>>
    BY <1>2, <1>3 DEF CopyBlock
  <1> HIDE DEF L, at, tc, blk, old
  <1>8. new \in [1 .. L -> V] /\ \A o \in 1 .. at + tc : new[o] = data[o]
    <2>0. BlockSize \in Nat /\ tc \in Nat /\ tc <= BlockSize
      BY <1>6, FilesAssumption
    <2>1. new = [o \in 1 .. L |-> IF at < o /\ o <= at + tc THEN blk[o - at] ELSE old[o]]
      BY <1>2, <1>3, <1>6, <2>0 DEF Write
    <2>2. ASSUME NEW o \in 1 .. L, at < o, o <= at + tc
          PROVE  new[o] = data[o] /\ new[o] \in Nat
      <3>1. o - at \in 1 .. BlockSize /\ at + (o - at) = o /\ at + (o - at) <= L
        BY <1>3, <1>6, <2>0, <2>2
      <3>2. new[o] = blk[o - at]
        BY <2>1, <2>2
      <3> QED
        BY <1>5, <3>1, <3>2
    <2>3. ASSUME NEW o \in 1 .. L, ~(at < o /\ o <= at + tc)
          PROVE  new[o] = old[o] /\ new[o] \in V /\ (o <= at + tc => new[o] = data[o])
      <3>1. new[o] = old[o]
        BY <2>1, <2>3
      <3>2. old[o] \in V
        BY <1>2, <1>4
      <3>3. o <= at + tc => o \in 1 .. at
        BY <1>3, <1>6, <2>0, <2>3
      <3> QED
        BY <1>2, <3>1, <3>2, <3>3
    <2>4. \A o \in 1 .. at + tc : o \in 1 .. L /\ o <= at + tc
      BY <1>3, <1>6, <2>0
    <2>5. \A o \in 1 .. L : new[o] \in V
      BY <2>2, <2>3
    <2> QED
      BY <2>1, <2>2, <2>3, <2>4, <2>5
  <1> HIDE DEF new
  <1>9. new \in Seq(V) /\ Len(new) = L /\ new # <<>>
    BY <1>2, <1>3, <1>8, FcnIsSeq
  <1>10. /\ heap' \in [Buffers -> Seq(V)] /\ heap'[buf] = new
         /\ \A y \in Buffers \ {buf} : heap'[y] = heap[y]
    BY <1>2, <1>7, <1>9 DEF FilesTypeOK
  <1>11. bytes_copied' \in Nat /\ b' \in Nat /\ pc' \in {"copy", "copied"}
    BY <1>4, <1>6, <1>7, FilesAssumption
  <1>12. FilesTypeOK' /\ ImageKept'
    BY <1>7, <1>10, <1>11 DEF FilesTypeOK, ImageKept
  <1>13. CopyInv'
    <2>1. L' = L /\ data' = data
      BY <1>7 DEF L
    <2>2. pc' = "copied" => bytes_copied' = L
      BY <1>6, <1>7
    <2>3. ASSUME pc' = "copy"
          PROVE  bytes_copied' = b' * BlockSize /\ bytes_copied' < L /\ b' < BlocksOf(L)
      <3>1. ~(at + tc >= L) /\ b + 1 # BlocksOf(L)
        BY <1>7, <2>3
      <3>2. at + tc < L /\ at + tc \in Nat
        BY <1>3, <1>6, <3>1, FilesAssumption
      <3>3. BlocksOf(L) \in Nat
        BY <1>3, Blocks
      <3> QED
        BY <1>4, <1>6, <1>7, <3>1, <3>2, <3>3
    <2> QED
      BY <1>2, <1>7, <1>8, <1>9, <1>10, <2>1, <2>2, <2>3 DEF CopyInv, L
  <1>14. \A s \in Slots : g_fd_table[s].in_use => g_fd_table[s].data \in Buffers \ {buf}
    BY <1>1 DEF Owners, SlotInv
  <1>15. \A s \in Slots : SlotOk(s)'
    BY <1>7, <1>10, <1>14, SlotsOk, SameSlotOk DEF SameSlot
  <1>16. Owners'
    <2>1. g_fd_table' = g_fd_table /\ buf' = buf /\ pc' # "idle" /\ pc # "idle"
      BY <1>1, <1>7, <1>11
    <2>2. heap[buf] # Free /\ heap'[buf] # Free
      BY <1>1, <1>2, <1>9, <1>10 DEF Owners, Free
    <2>3. \A y \in Buffers : heap'[y] # Free <=> heap[y] # Free
      BY <1>10, <2>2
    <2> QED
      BY <2>1, <2>3 DEF Owners
  <1> QED
    BY <1>12, <1>13, <1>15, <1>16, SlotsOkNext

(* The call is over and gives its buffer back.                              *)
LEMMA ReleaseInv ==
  ASSUME FilesInv, pc = "copied", kfree(buf), Idle,
         running' \in BOOLEAN,
         UNCHANGED <<files, disk, g_fs_initialized, g_fd_table, origin, got>>
  PROVE  FilesInv'
  <1> USE DEF FilesInv
  <1>1. buf \in Buffers
    BY DEF CopyInv
  <1>2. <<>> \in Seq(Nat \cup {Junk})
    OBVIOUS
  <1>3. /\ heap' \in [Buffers -> Seq(Nat \cup {Junk})] /\ heap'[buf] = Free
        /\ \A y \in Buffers \ {buf} : heap'[y] = heap[y]
    BY <1>1, <1>2 DEF kfree, Free, FilesTypeOK
  <1>4. FilesTypeOK' /\ ImageKept' /\ CopyInv'
    BY <1>3 DEF Idle, FilesTypeOK, ImageKept, CopyInv
  <1>5. \A s \in Slots : g_fd_table[s].in_use => g_fd_table[s].data \in Buffers \ {buf}
    BY DEF Owners, SlotInv
  <1>6. \A s \in Slots : SlotOk(s)'
    BY <1>3, <1>5, SlotsOk, SameSlotOk DEF SameSlot
  <1>7. Owners'
    <2>1. g_fd_table' = g_fd_table /\ pc' = "idle" /\ pc # "idle"
      BY DEF Idle
    <2>2. ASSUME NEW y \in Buffers
          PROVE  heap'[y] # Free <=> \E s \in Slots : g_fd_table[s].in_use /\ g_fd_table[s].data = y
      <3>1. CASE y = buf
        BY <1>3, <1>5, <3>1
      <3>2. CASE y # buf
        BY <1>3, <2>1, <3>2 DEF Owners
      <3> QED
        BY <3>1, <3>2
    <2> QED
      BY <2>1, <2>2 DEF Owners
  <1> QED
    BY <1>4, <1>6, <1>7, SlotsOkNext

FdEntry == [in_use : BOOLEAN, size : Nat, offset : Nat, data : Buffers \cup {NoBuf}]

(* The descriptor takes the buffer over from the call.                      *)
LEMMA OpenSlotInv ==
  ASSUME FilesInv, NEW i \in Slots, OpenSlot(i)
  PROVE  FilesInv'
  <1> USE DEF FilesInv
  <1> DEFINE data == files[ent].data
             new == [in_use |-> TRUE, size |-> disk.dir[ent].size, offset |-> 0, data |-> buf]
  <1>1. /\ pc = "copied" /\ ~g_fd_table[i].in_use
        /\ g_fd_table' = [g_fd_table EXCEPT ![i] = new]
        /\ origin' = [origin EXCEPT ![i] = name]
        /\ Idle
        /\ UNCHANGED <<files, disk, g_fs_initialized, heap, running, got>>
    BY DEF OpenSlot, FreeSlots
  <1>2. /\ buf \in Buffers /\ ent \in DOMAIN disk.dir /\ name \in Names
        /\ files[ent].name = Key[name] /\ Len(heap[buf]) = Len(data)
        /\ \A o \in 1 .. Len(data) : heap[buf][o] = data[o]
    BY <1>1 DEF CopyInv
  <1>3. ent \in DOMAIN files /\ disk.dir[ent].size = Len(data) /\ data \in Seq(Nat) /\ Len(data) \in Nat
    BY <1>2, Entries
  <1>4. heap[buf] = data
    <2>1. heap[buf] \in Seq(Nat \cup {Junk})
      BY <1>2 DEF FilesTypeOK
    <2>2. data \in Seq(Nat \cup {Junk})
      <3> HIDE DEF data
      <3> QED
        BY <1>3, SeqMonotonic, Zenon
    <2> HIDE DEF data
    <2>3. \A o \in 1 .. Len(heap[buf]) : heap[buf][o] = data[o]
      BY <1>2
    <2> QED
      BY <1>2, <2>1, <2>2, <2>3, SeqEqual, Zenon
  <1>5. StagedAs(name) = data
    BY <1>2, <1>3, StagedUnique
  <1>6. /\ g_fd_table \in [Slots -> FdEntry] /\ new \in FdEntry
        /\ origin \in [Slots -> Names \cup {""}]
    BY <1>2, <1>3 DEF FilesTypeOK, FdEntry
  <1> HIDE DEF new
  <1>7. /\ g_fd_table'[i] = new /\ origin'[i] = name
        /\ \A s \in Slots \ {i} : g_fd_table'[s] = g_fd_table[s] /\ origin'[s] = origin[s]
        /\ g_fd_table' \in [Slots -> FdEntry] /\ origin' \in [Slots -> Names \cup {""}]
    BY <1>1, <1>2, <1>6
  <1>8. new.in_use /\ new.data = buf /\ new.size = Len(data) /\ new.offset = 0
    BY <1>3 DEF new
  <1>10. FilesTypeOK' /\ ImageKept' /\ CopyInv'
    BY <1>1, <1>7 DEF Idle, FilesTypeOK, FdEntry, ImageKept, CopyInv
  <1>11. SlotOk(i)'
    <2>1. got[i] = <<>> /\ got' = got
      BY <1>1 DEF SlotInv
    <2>2. SubSeq(data, 1, 0) = <<>>
      BY <1>3, SubSeqEmpty
    <2>3. StagedAs(origin[i])' = data
      BY <1>1, <1>5, <1>7 DEF StagedAs
    <2>4. g_fd_table'[i].in_use /\ g_fd_table'[i].data = buf /\ g_fd_table'[i].size = Len(data)
          /\ g_fd_table'[i].offset = 0
      BY <1>7, <1>8
    <2>5. heap' = heap /\ files' = files
      BY <1>1
    <2>6. (\E q \in DOMAIN files : files[q].name = Key[origin[i]])'
      BY <1>2, <1>3, <1>7, <2>5
    <2> HIDE DEF data
    <2>7. 0 <= Len(data)
      BY <1>3
    <2> QED
      BY <1>2, <1>4, <1>7, <2>1, <2>2, <2>3, <2>4, <2>5, <2>6, <2>7 DEF SlotOk
  <1>12. \A s \in Slots : SlotOk(s)'
    <2> SUFFICES ASSUME NEW s \in Slots, s # i PROVE SlotOk(s)'
      BY <1>11
    <2> QED
      BY <1>1, <1>7, SlotsOk, SameSlotOk DEF SameSlot
  <1>13. Owners'
    <2>1. pc' = "idle" /\ heap' = heap /\ pc # "idle"
      BY <1>1 DEF Idle
    <2>2. ASSUME NEW y \in Buffers
          PROVE  heap[y] # Free <=> \E s \in Slots : g_fd_table'[s].in_use /\ g_fd_table'[s].data = y
      <3>1. CASE y = buf
        BY <1>2, <1>7, <1>8, <2>1, <3>1 DEF Owners
      <3>2. CASE y # buf
        <4>1. \A s \in Slots : g_fd_table'[s].in_use /\ g_fd_table'[s].data = y
                               <=> g_fd_table[s].in_use /\ g_fd_table[s].data = y
          BY <1>1, <1>7, <1>8, <3>2
        <4>2. heap[y] # Free <=> \E s \in Slots : g_fd_table[s].in_use /\ g_fd_table[s].data = y
          BY <3>2 DEF Owners
        <4> QED
          BY <4>1, <4>2
      <3> QED
        BY <3>1, <3>2
    <2>3. \A s \in Slots \ {i} : g_fd_table[s].in_use => g_fd_table[s].data # buf
      BY <2>1 DEF Owners
    <2>4. \A s, t \in Slots : /\ g_fd_table'[s].in_use /\ g_fd_table'[t].in_use
                              /\ g_fd_table'[s].data = g_fd_table'[t].data
                              => s = t
      <3> SUFFICES ASSUME NEW s \in Slots, NEW t \in Slots, g_fd_table'[s].in_use, g_fd_table'[t].in_use,
                          g_fd_table'[s].data = g_fd_table'[t].data, s # t
                   PROVE  FALSE
        OBVIOUS
      <3>1. CASE s = i
        <4>1. g_fd_table'[s].data = buf /\ g_fd_table'[t] = g_fd_table[t] /\ t \in Slots \ {i}
          BY <1>7, <1>8, <3>1
        <4> QED
          BY <2>3, <4>1
      <3>2. CASE t = i
        <4>1. g_fd_table'[t].data = buf /\ g_fd_table'[s] = g_fd_table[s] /\ s \in Slots \ {i}
          BY <1>7, <1>8, <3>2
        <4> QED
          BY <2>3, <4>1
      <3>3. CASE s # i /\ t # i
        BY <1>7, <3>3 DEF Owners
      <3> QED
        BY <3>1, <3>2, <3>3
    <2> QED
      BY <2>1, <2>2, <2>4 DEF Owners
  <1> QED
    BY <1>10, <1>12, <1>13, SlotsOkNext

LEMMA CloseInv ==
  ASSUME FilesInv, NEW fd \in 0 .. NFds + 3, fd_close(fd)
  PROVE  FilesInv'
  <1> USE DEF FilesInv
  <1> DEFINE i == fd - 3
             x == g_fd_table[i].data
  <1>0. fd >= 3 /\ fd < 3 + NFds
    BY DEF fd_close, ValidFd
  <1>1. i \in Slots
    BY <1>0, FilesAssumption DEF Slots
  <1> HIDE DEF i
  <1>2. /\ pc = "idle" /\ g_fd_table[i].in_use
        /\ heap' = [heap EXCEPT ![x] = Free]
        /\ g_fd_table' = [g_fd_table EXCEPT ![i] = ClosedFd]
        /\ origin' = [origin EXCEPT ![i] = ""]
        /\ got' = [got EXCEPT ![i] = <<>>]
        /\ UNCHANGED <<files, disk, g_fs_initialized, running, callVars>>
    BY DEF fd_close, ValidFd, kfree, i
  <1>3. x \in Buffers
    BY <1>1, <1>2 DEF SlotInv
  <1> HIDE DEF x
  <1>4. /\ g_fd_table \in [Slots -> FdEntry] /\ ClosedFd \in FdEntry /\ ~ClosedFd.in_use
        /\ origin \in [Slots -> Names \cup {""}]
        /\ heap \in [Buffers -> Seq(Nat \cup {Junk})] /\ Free \in Seq(Nat \cup {Junk})
        /\ got \in [Slots -> Seq(Nat \cup {Junk})] /\ <<>> \in Seq(Nat \cup {Junk})
    <2>1. ClosedFd \in FdEntry /\ ~ClosedFd.in_use
      BY DEF FdEntry, ClosedFd
    <2>2. <<>> \in Seq(Nat \cup {Junk})
      OBVIOUS
    <2>3. g_fd_table \in [Slots -> FdEntry]
      BY DEF FilesTypeOK, FdEntry
    <2> QED
      BY <2>1, <2>2, <2>3 DEF FilesTypeOK, Free
  <1>5. /\ g_fd_table'[i] = ClosedFd /\ got'[i] = <<>>
        /\ \A s \in Slots \ {i} : /\ g_fd_table'[s] = g_fd_table[s] /\ origin'[s] = origin[s]
                                  /\ got'[s] = got[s]
        /\ heap'[x] = Free /\ \A y \in Buffers \ {x} : heap'[y] = heap[y]
        /\ g_fd_table' \in [Slots -> FdEntry] /\ origin' \in [Slots -> Names \cup {""}]
        /\ heap' \in [Buffers -> Seq(Nat \cup {Junk})] /\ got' \in [Slots -> Seq(Nat \cup {Junk})]
    BY <1>1, <1>2, <1>3, <1>4
  <1>6. FilesTypeOK' /\ ImageKept' /\ CopyInv'
    BY <1>2, <1>5 DEF callVars, FilesTypeOK, FdEntry, ImageKept, CopyInv
  <1>7. \A s \in Slots \ {i} : g_fd_table[s].in_use => g_fd_table[s].data \in Buffers \ {x}
    BY <1>1, <1>2 DEF Owners, SlotInv, x
  <1>8. \A s \in Slots : SlotOk(s)'
    <2>1. SlotOk(i)'
      BY <1>4, <1>5 DEF SlotOk
    <2>2. ASSUME NEW s \in Slots, s # i PROVE SlotOk(s)'
      BY <1>2, <1>5, <1>7, <2>2, SlotsOk, SameSlotOk DEF SameSlot
    <2> QED
      BY <2>1, <2>2
  <1>9. Owners'
    <2>1. pc' = "idle"
      BY <1>2 DEF callVars
    <2>2. ASSUME NEW y \in Buffers
          PROVE  heap'[y] # Free <=> \E s \in Slots : g_fd_table'[s].in_use /\ g_fd_table'[s].data = y
      <3>1. CASE y = x
        BY <1>4, <1>5, <1>7, <3>1
      <3>2. CASE y # x
        <4>1. \A s \in Slots : g_fd_table'[s].in_use /\ g_fd_table'[s].data = y
                               <=> g_fd_table[s].in_use /\ g_fd_table[s].data = y
          BY <1>4, <1>5, <3>2 DEF x
        <4>2. heap[y] # Free <=> \E s \in Slots : g_fd_table[s].in_use /\ g_fd_table[s].data = y
          BY <1>2 DEF Owners
        <4> QED
          BY <1>5, <3>2, <4>1, <4>2
      <3> QED
        BY <3>1, <3>2
    <2>3. \A s, t \in Slots : /\ g_fd_table'[s].in_use /\ g_fd_table'[t].in_use
                              /\ g_fd_table'[s].data = g_fd_table'[t].data
                              => s = t
      BY <1>4, <1>5 DEF Owners
    <2> QED
      BY <2>1, <2>2, <2>3 DEF Owners
  <1> QED
    BY <1>6, <1>8, <1>9, SlotsOkNext

(* A read hands out the bytes behind the ones already read.                 *)
LEMMA ReadInv ==
  ASSUME FilesInv, NEW fd \in 0 .. NFds + 3, NEW len \in Lengths, fd_read(fd, len)
  PROVE  FilesInv'
  <1> USE DEF FilesInv
  <1> DEFINE i == fd - 3
             f == g_fd_table[i]
             avail == f.size - f.offset
             to_read == IF len < avail THEN len ELSE avail
             data == StagedAs(origin[i])
             new == [f EXCEPT !.offset = f.offset + to_read]
             V == Nat \cup {Junk}
  <1>0. fd >= 3 /\ fd < 3 + NFds
    BY DEF fd_read, ValidFd
  <1>1. i \in Slots
    BY <1>0, FilesAssumption DEF Slots
  <1>2. /\ pc = "idle" /\ f.in_use /\ f.offset < f.size
        /\ got' = [got EXCEPT ![i] = got[i] \o SubSeq(heap[f.data], f.offset + 1, f.offset + to_read)]
        /\ g_fd_table' = [g_fd_table EXCEPT ![i].offset = f.offset + to_read]
        /\ UNCHANGED <<files, disk, g_fs_initialized, heap, running, callVars, origin>>
    BY DEF fd_read, ValidFd
  <1> HIDE DEF i
  <1>3. f \in FdEntry /\ g_fd_table \in [Slots -> FdEntry]
    BY <1>1 DEF FilesTypeOK, FdEntry
  <1>4. f.size \in Nat /\ f.offset \in Nat
    BY <1>3 DEF FdEntry
  <1>5. SlotOk(i)
    BY <1>1, SlotsOk
  <1>6. /\ f.data \in Buffers /\ origin[i] \in Names
        /\ \E q \in DOMAIN files : files[q].name = Key[origin[i]]
        /\ heap[f.data] = data /\ f.size = Len(data) /\ got[i] = SubSeq(data, 1, f.offset)
    BY <1>2, <1>5 DEF SlotOk
  <1>7. data \in Seq(Nat) /\ Len(data) \in Nat
    BY <1>6, StagedIsSeq
  <1>8. to_read \in Nat /\ f.offset + to_read <= Len(data)
    <2>1. len \in Nat
      BY FilesAssumption
    <2> QED
      BY <2>1, <1>2, <1>4, <1>6
  <1>9. new \in FdEntry /\ new.in_use /\ new.data = f.data /\ new.size = f.size
        /\ new.offset = f.offset + to_read
    <2>1. f \in FdEntry /\ f.in_use /\ f.offset + to_read \in Nat
      BY <1>2, <1>3, <1>4, <1>8
    <2> HIDE DEF f, to_read
    <2> QED
      BY ONLY <2>1 DEF FdEntry
  <1>10. g_fd_table' = [g_fd_table EXCEPT ![i] = new]
    BY <1>2
  <1> HIDE DEF f, to_read, data, new
  <1>11. got[i] \o SubSeq(heap[f.data], f.offset + 1, f.offset + to_read)
           = SubSeq(data, 1, f.offset + to_read)
    <2>1. /\ 1 \in 1 .. Len(data) + 1 /\ f.offset \in 1 - 1 .. Len(data)
          /\ f.offset + to_read \in f.offset .. Len(data)
      <3> DEFINE o == f.offset
                 n == Len(data)
      <3>1. o \in Nat /\ n \in Nat /\ to_read \in Nat /\ o + to_read <= n
        BY <1>4, <1>7, <1>8
      <3> HIDE DEF o, n
      <3>2. 1 \in 1 .. n + 1 /\ o \in 1 - 1 .. n /\ o + to_read \in o .. n
        BY <3>1
      <3> QED
        BY <3>2 DEF o, n
    <2> QED
      BY <1>6, <1>7, <2>1, ConcatAdjacentSubSeq
  <1>12. SubSeq(data, 1, f.offset + to_read) \in Seq(V)
    <2>1. \A o \in 1 .. f.offset + to_read : o \in 1 .. Len(data)
      BY <1>4, <1>7, <1>8
    <2>2. \A o \in 1 .. f.offset + to_read : data[o] \in V
      BY <1>7, <2>1
    <2>3. f.offset + to_read \in Int /\ 1 \in Int
      BY <1>4, <1>8
    <2> HIDE DEF V
    <2> QED
      BY <2>2, <2>3, SubSeqProperties
  <1>13. got \in [Slots -> Seq(V)]
    BY DEF FilesTypeOK
  <1>14. /\ g_fd_table'[i] = new /\ got'[i] = SubSeq(data, 1, f.offset + to_read)
         /\ \A s \in Slots \ {i} : g_fd_table'[s] = g_fd_table[s] /\ got'[s] = got[s]
         /\ g_fd_table' \in [Slots -> FdEntry] /\ got' \in [Slots -> Seq(V)]
    BY <1>1, <1>2, <1>3, <1>9, <1>10, <1>11, <1>12, <1>13
  <1>15. FilesTypeOK' /\ ImageKept' /\ CopyInv'
    BY <1>2, <1>14 DEF callVars, FilesTypeOK, FdEntry, ImageKept, CopyInv
  <1>16. \A s \in Slots : SlotOk(s)'
    <2>1. SlotOk(i)'
      <3>1. StagedAs(origin[i])' = data
        BY <1>2 DEF StagedAs, data
      <3>2. heap' = heap /\ files' = files /\ origin' = origin
        BY <1>2
      <3> QED
        BY <1>6, <1>8, <1>9, <1>14, <3>1, <3>2 DEF SlotOk
    <2>2. ASSUME NEW s \in Slots, s # i PROVE SlotOk(s)'
      BY <1>2, <1>14, <2>2, SlotsOk, SameSlotOk DEF SameSlot
    <2> QED
      BY <2>1, <2>2
  <1>17. Owners'
    <2>1. pc' = pc /\ buf' = buf /\ heap' = heap
      BY <1>2 DEF callVars
    <2>2. \A s \in Slots : /\ g_fd_table'[s].in_use <=> g_fd_table[s].in_use
                           /\ g_fd_table'[s].data = g_fd_table[s].data
      BY <1>1, <1>2, <1>9, <1>14 DEF f
    <2> QED
      BY <2>1, <2>2 DEF Owners
  <1> QED
    BY <1>15, <1>16, <1>17, SlotsOkNext

(* Steps that start or end a program touch neither table nor buffers.       *)
LEMMA ProgramInv ==
  ASSUME FilesInv, running' \in BOOLEAN,
         UNCHANGED <<files, disk, g_fs_initialized, g_fd_table, heap, callVars, origin, got>>
  PROVE  FilesInv'
  <1> USE DEF FilesInv
  <1>1. FilesTypeOK' /\ ImageKept' /\ CopyInv' /\ Owners'
    BY DEF callVars, FilesTypeOK, ImageKept, CopyInv, Owners
  <1>2. \A s \in Slots : SlotOk(s)'
    BY SlotsOk, SameSlotOk DEF SameSlot
  <1> QED
    BY <1>1, <1>2, SlotsOkNext

LEMMA InitFilesInv == Init => FilesInv
  <1> SUFFICES ASSUME Init PROVE FilesInv
    OBVIOUS
  <1>1. FilesTypeOK
    <2>1. ClosedFd \in FdEntry
      BY DEF ClosedFd, FdEntry
    <2>2. <<>> \in Seq(Nat \cup {Junk})
      OBVIOUS
    <2>3. /\ g_fd_table \in [Slots -> FdEntry] /\ heap \in [Buffers -> Seq(Nat \cup {Junk})]
          /\ got \in [Slots -> Seq(Nat \cup {Junk})] /\ origin \in [Slots -> Names \cup {""}]
      BY <2>1, <2>2 DEF Init, Free
    <2> QED
      BY <2>3 DEF Init, fs_init, FilesTypeOK, FdEntry
  <1>2. ImageKept /\ CopyInv
    BY DEF Init, fs_init, ImageKept, CopyInv
  <1>3. \A s \in Slots : ~g_fd_table[s].in_use /\ got[s] = <<>>
    BY DEF Init, ClosedFd
  <1>4. SlotInv /\ Owners /\ ReadsStagedBytes
    BY <1>3 DEF SlotInv, Owners, ReadsStagedBytes, Init
  <1> QED
    BY <1>1, <1>2, <1>4 DEF FilesInv

LEMMA NextFilesInv == FilesInv /\ [Next]_vars => FilesInv'
  <1> SUFFICES ASSUME FilesInv, [Next]_vars PROVE FilesInv'
    OBVIOUS
  <1>1. CASE \E path \in Paths : Open(path)
    <2>1. PICK path \in Paths : Open(path)
      BY <1>1
    <2>2. [path EXCEPT !.slash = FALSE] \in Paths
      BY DEF Paths
    <2> QED
      BY <2>1, <2>2, FsReadInv DEF Open
  <1>2. CASE CopyBlock
    BY <1>2, CopyBlockInv
  <1>3. CASE OpenNoSlot
    <2>1. running \in BOOLEAN
      BY DEF FilesInv, FilesTypeOK
    <2> QED
      BY <1>3, <2>1, ReleaseInv DEF OpenNoSlot
  <1>4. CASE \E i \in Slots : OpenSlot(i)
    BY <1>4, OpenSlotInv
  <1>5. CASE \E fd \in 0 .. NFds + 3 : fd_close(fd)
    BY <1>5, CloseInv
  <1>6. CASE \E fd \in 0 .. NFds + 3, len \in Lengths : fd_read(fd, len)
    BY <1>6, ReadInv
  <1>7. CASE \E who \in {"cat", "runelf"}, path \in Paths : ReadCommand(who, path)
    BY <1>7, FsReadInv DEF ReadCommand
  <1>8. CASE CatDone
    <2>1. running \in BOOLEAN
      BY DEF FilesInv, FilesTypeOK
    <2> QED
      BY <1>8, <2>1, ReleaseInv DEF CatDone
  <1>9. CASE \E loaded \in BOOLEAN : RunelfDone(loaded)
    BY <1>9, ReleaseInv DEF RunelfDone
  <1>10. CASE Run
    BY <1>10, ProgramInv DEF Run
  <1>11. CASE Terminate
    BY <1>11, ProgramInv DEF Terminate
  <1>12. CASE UNCHANGED vars
    <2>1. running \in BOOLEAN
      BY DEF FilesInv, FilesTypeOK
    <2> QED
      BY <1>12, <2>1, ProgramInv DEF vars
  <1> QED
    BY <1>1, <1>2, <1>3, <1>4, <1>5, <1>6, <1>7, <1>8, <1>9, <1>10, <1>11, <1>12 DEF Next

LEMMA FilesInvHolds == Spec => []FilesInv
  <1> QED
    BY InitFilesInv, NextFilesInv, PTL DEF Spec

LEMMA OwnersAsSets ==
  ASSUME CopyInv, SlotInv, Owners
  PROVE  OneOwnerPerBuffer
  <1> DEFINE open == {s \in Slots : g_fd_table[s].in_use}
             owned == {g_fd_table[s].data : s \in open}
  <1>1. {x \in Buffers : heap[x] # Free} = owned \cup InHand
    <2>1. \A s \in open : g_fd_table[s].data \in Buffers
      BY DEF SlotInv
    <2>2. pc # "idle" => buf \in Buffers
      BY DEF CopyInv
    <2> QED
      BY <2>1, <2>2 DEF Owners, InHand
  <1>2. owned \cap InHand = {}
    BY DEF Owners, InHand
  <1>3. \A s, t \in open : g_fd_table[s].data = g_fd_table[t].data => s = t
    BY DEF Owners
  <1> QED
    BY <1>1, <1>2, <1>3 DEF OneOwnerPerBuffer

----------------------------------------------------------------------------
(* For every staging directory with names of at most 16 bytes, every block  *)
(* size and every number of descriptors: each buffer in use belongs to      *)
(* exactly one open descriptor or to the call in progress, on every error   *)
(* path of fd_open, cat and runelf.                                         *)
THEOREM BuffersHaveOneOwner == Spec => [](FilesTypeOK /\ OneOwnerPerBuffer)
  <1>1. FilesInv => FilesTypeOK /\ OneOwnerPerBuffer
    BY OwnersAsSets DEF FilesInv
  <1> QED
    BY <1>1, FilesInvHolds, PTL

(* Whatever is opened, read and closed in between, the bytes a program has  *)
(* read through a descriptor are the first bytes of the file staged under   *)
(* the name it opened, for every layout buildfs.py can produce.             *)
THEOREM ProgramsReadStagedBytes == Spec => []ReadsStagedBytes
  <1>1. FilesInv => ReadsStagedBytes
    BY DEF FilesInv
  <1> QED
    BY <1>1, FilesInvHolds, PTL

=============================================================================
