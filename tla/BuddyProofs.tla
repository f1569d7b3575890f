---------------------------- MODULE BuddyProofs ----------------------------
(***************************************************************************)
(* The kernel heap for every memory size, largest order, request and E820   *)
(* table: no page has two owners, no page is lost, headers stay truthful,   *)
(* the heap keeps to the pages it pulled, what its clients see is HeapSpec, *)
(* heap_stats tells the truth, splits are undone and every call ends.  Then *)
(* the same heap with heaptest as its client, and what heaptest's verdict   *)
(* is worth.                                                                *)
(***************************************************************************)
EXTENDS HeapTest, PmmProofs, SequenceTheorems, NaturalsInduction, WellFoundedInduction

(* The bases of the blocks on the list of order k.                          *)
Listed(k) == Range(free_lists[k])

(* The parts of NoOverlap, list by list.                                    *)
Apart ==
  /\ \A k \in Orders : IsInjective(free_lists[k])
  /\ \A j, k \in Orders : \A a \in Listed(j), b \in Listed(k) :
       j # k \/ a # b => Extent(a, j) \cap Extent(b, k) = {}
  /\ \A l, m \in live : l # m => Extent(l.base, l.order) \cap Extent(m.base, m.order) = {}
  /\ \A k \in Orders : \A a \in Listed(k), l \in live :
       Extent(a, k) \cap Extent(l.base, l.order) = {}
  /\ \A k \in Orders : \A a \in Listed(k) : Extent(a, k) \cap InFlight = {}
  /\ \A l \in live : Extent(l.base, l.order) \cap InFlight = {}

Truthful ==
  /\ \A k \in Orders : \A a \in Listed(k) : hdr[a] = FREE(k)
  /\ \A l \in live : hdr[l.base] = [magic |-> "ALLOC", order |-> l.order]

(* The pages the heap has are exactly the pages it pulled.                  *)
Within ==
  /\ \A k \in Orders : \A a \in Listed(k) : Extent(a, k) \subseteq PulledPages
  /\ \A l \in live : Extent(l.base, l.order) \subseteq PulledPages
  /\ InFlight \subseteq PulledPages

Accounted ==
  \A q \in PulledPages :
    \/ \E k \in Orders : \E a \in Listed(k) : q \in Extent(a, k)
    \/ \E l \in live : q \in Extent(l.base, l.order)
    \/ q \in InFlight

HeapOk == Apart /\ Truthful /\ Within /\ Accounted

(* The pmm has given the heap and the page tables what they use.            *)
Held ==
  /\ PulledPages \subseteq held
  /\ Range(tables) \subseteq held \cup {0}
  /\ Range(tables) \cap PulledPages = {}
  /\ TablesNullOnlyWhenFull

(* The locals of the call in progress: the order wanted is enough for the   *)
(* request, the slack left to lay out is less than the bits left to look at *)
(* can count, and the cursor stays outside the aligned block.               *)
CallInv ==
  /\ pc \in {"get", "split", "head", "tail"} =>
       size \in Requests /\ Fits(size, order)
  /\ pc = "split" => level >= order
  /\ pc = "head" => /\ level = order /\ p <= block /\ p >= rem
                    /\ rem < Size[bit] /\ tail < Size[MaxOrder]
  /\ pc = "tail" => /\ level = order /\ p >= block + Size[order]
                    /\ rem < Size[bit]

BuddyInv ==
  /\ TypeOK
  /\ PmmInv
  /\ HeapOk
  /\ Held
  /\ CallInv
  /\ BlockFits

----------------------------------------------------------------------------
(* Lists                                                                    *)

LEMMA PushList ==
  ASSUME NEW S, NEW s \in Seq(S), NEW b \in S
  PROVE  LET t == <<b>> \o s
         IN /\ t \in Seq(S) /\ Range(t) = Range(s) \cup {b}
            /\ IsInjective(s) /\ b \notin Range(s) => IsInjective(t)
  <1> DEFINE t == <<b>> \o s
             n == Len(s)
  <1>0. <<b>> \in Seq(S) /\ Len(<<b>>) = 1 /\ <<b>>[1] = b /\ n \in Nat /\ DOMAIN s = 1 .. n
    OBVIOUS
  <1>1. /\ t \in Seq(S) /\ Len(t) = 1 + n
        /\ \A i \in 1 .. 1 + n : t[i] = IF i <= 1 THEN <<b>>[i] ELSE s[i - 1]
    BY <1>0, ConcatProperties
  <1> HIDE DEF t, n
  <1>2. t[1] = b /\ \A i \in 1 .. n : t[i + 1] = s[i] /\ i + 1 \in 1 .. 1 + n
    <2>1. 1 \in 1 .. 1 + n /\ \A i \in 1 .. n : i + 1 \in 1 .. 1 + n /\ ~(i + 1 <= 1) /\ (i + 1) - 1 = i
      BY <1>0
    <2> QED
      BY <1>0, <1>1, <2>1
  <1>3. DOMAIN t = 1 .. 1 + n /\ \A i \in 1 .. 1 + n : i = 1 \/ (i - 1 \in 1 .. n /\ (i - 1) + 1 = i)
    BY <1>0, <1>1
  <1>4. \A x : x \in Range(t) <=> x \in Range(s) \/ x = b
    <2>1. ASSUME NEW x, x \in Range(t) PROVE x \in Range(s) \/ x = b
      <3>1. PICK i \in 1 .. 1 + n : t[i] = x
        BY <1>3, <2>1 DEF Range
      <3>2. i = 1 \/ (i - 1 \in 1 .. n /\ t[i] = s[i - 1])
        BY <1>2, <1>3
      <3> QED
        BY <1>0, <1>2, <3>1, <3>2 DEF Range
    <2>2. ASSUME NEW x, x \in Range(s) PROVE x \in Range(t)
      BY <1>0, <1>2, <1>3, <2>2 DEF Range
    <2>3. b \in Range(t)
      BY <1>0, <1>2, <1>3 DEF Range
    <2> QED
      BY <2>1, <2>2, <2>3
  <1>5. ASSUME IsInjective(s), b \notin Range(s) PROVE IsInjective(t)
    <2> SUFFICES ASSUME NEW i \in 1 .. 1 + n, NEW j \in 1 .. 1 + n, t[i] = t[j] PROVE i = j
      BY <1>3 DEF IsInjective
    <2>1. \A m \in 1 .. n : s[m] # b
      BY <1>0, <1>5 DEF Range
    <2>2. \A m, r \in 1 .. n : s[m] = s[r] => m = r
      BY <1>0, <1>5 DEF IsInjective
    <2>3. i = 1 \/ (i - 1 \in 1 .. n /\ t[i] = s[i - 1])
      BY <1>2, <1>3
    <2>4. j = 1 \/ (j - 1 \in 1 .. n /\ t[j] = s[j - 1])
      BY <1>2, <1>3
    <2>5. CASE i = 1 /\ j = 1
      BY <2>5
    <2>6. CASE i # 1 /\ j # 1
      <3>1. i - 1 = j - 1
        BY <2>2, <2>3, <2>4, <2>6
      <3> QED
        BY <3>1, <1>0
    <2>7. CASE (i = 1 /\ j # 1) \/ (i # 1 /\ j = 1)
      BY <1>2, <2>1, <2>3, <2>4, <2>7
    <2> QED
      BY <2>5, <2>6, <2>7
  <1> QED
    BY <1>1, <1>4, <1>5 DEF t

(* A list without its i-th element; the head is the first.                  *)
LEMMA DropList ==
  ASSUME NEW S, NEW s \in Seq(S), NEW i \in 1 .. Len(s), NEW t \in Seq(S), Len(t) = Len(s) - 1,
         \A m \in 1 .. Len(s) - 1 : t[m] = IF m < i THEN s[m] ELSE s[m + 1],
         IsInjective(s)
  PROVE  Range(t) = Range(s) \ {s[i]} /\ IsInjective(t)
  <1> DEFINE n == Len(s)
  <1>0. n \in Nat /\ DOMAIN s = 1 .. n /\ DOMAIN t = 1 .. n - 1 /\ i \in 1 .. n
    OBVIOUS
  <1>1. \A m, r \in 1 .. n : s[m] = s[r] => m = r
    BY <1>0 DEF IsInjective
  <1>2. \A m \in 1 .. n - 1 : t[m] = IF m < i THEN s[m] ELSE s[m + 1]
    OBVIOUS
  <1> HIDE DEF n
  <1>3. ASSUME NEW x, x \in Range(t) PROVE x \in Range(s) /\ x # s[i]
    <2>1. PICK m \in 1 .. n - 1 : t[m] = x
      BY <1>0, <1>3 DEF Range
    <2>2. m \in 1 .. n /\ m + 1 \in 1 .. n /\ (m < i => m # i) /\ (~(m < i) => m + 1 # i)
      BY <1>0
    <2>3. CASE m < i
      <3>1. x = s[m]
        BY <1>2, <2>1, <2>3
      <3> QED
        BY <1>0, <1>1, <2>2, <2>3, <3>1 DEF Range
    <2>4. CASE ~(m < i)
      <3>1. x = s[m + 1]
        BY <1>2, <2>1, <2>4
      <3> QED
        BY <1>0, <1>1, <2>2, <2>4, <3>1 DEF Range
    <2> QED
      BY <2>3, <2>4
  <1>4. ASSUME NEW x, x \in Range(s), x # s[i] PROVE x \in Range(t)
    <2>1. PICK m \in 1 .. n : s[m] = x
      BY <1>0, <1>4 DEF Range
    <2>2. m # i
      BY <1>4, <2>1
    <2>3. CASE m < i
      <3>1. m \in 1 .. n - 1
        BY <1>0, <2>3
      <3>2. t[m] = x
        BY <1>2, <2>1, <2>3, <3>1
      <3> QED
        BY <1>0, <3>1, <3>2 DEF Range
    <2>4. CASE ~(m < i)
      <3>1. m - 1 \in 1 .. n - 1 /\ ~(m - 1 < i) /\ (m - 1) + 1 = m
        BY <1>0, <2>2, <2>4
      <3>2. t[m - 1] = x
        BY <1>2, <2>1, <3>1
      <3> QED
        BY <1>0, <3>1, <3>2 DEF Range
    <2> QED
      BY <2>3, <2>4
  <1>5. IsInjective(t)
    <2> SUFFICES ASSUME NEW m \in 1 .. n - 1, NEW r \in 1 .. n - 1, t[m] = t[r] PROVE m = r
      BY <1>0 DEF IsInjective
    <2> DEFINE At(q) == IF q < i THEN q ELSE q + 1
    <2>1. At(m) \in 1 .. n /\ At(r) \in 1 .. n /\ (At(m) = At(r) => m = r)
      BY <1>0
    <2>2. t[m] = s[At(m)] /\ t[r] = s[At(r)]
      BY <1>2
    <2> HIDE DEF At
    <2> QED
      BY <1>1, <2>1, <2>2
  <1> QED
    BY <1>3, <1>4, <1>5

LEMMA PopList ==
  ASSUME NEW S, NEW s \in Seq(S), s # <<>>, IsInjective(s)
  PROVE  /\ Tail(s) \in Seq(S) /\ Head(s) \in Range(s)
         /\ Range(Tail(s)) = Range(s) \ {Head(s)} /\ IsInjective(Tail(s))
  <1> DEFINE t == Tail(s)
  <1>1. /\ t \in Seq(S) /\ Len(s) \in Nat /\ Len(t) = Len(s) - 1 /\ 1 \in 1 .. Len(s)
        /\ Head(s) = s[1] /\ DOMAIN s = 1 .. Len(s)
        /\ \A m \in 1 .. Len(s) - 1 : t[m] = s[m + 1]
    BY HeadTailProperties
  <1> HIDE DEF t
  <1>2. \A m \in 1 .. Len(s) - 1 : t[m] = IF m < 1 THEN s[m] ELSE s[m + 1]
    BY <1>1
  <1>3. Range(t) = Range(s) \ {s[1]} /\ IsInjective(t)
    BY <1>1, <1>2, DropList
  <1> QED
    BY <1>1, <1>3 DEF t, Range

LEMMA UnlinkList ==
  ASSUME NEW S, NEW s \in Seq(S), NEW i \in 1 .. Len(s), IsInjective(s)
  PROVE  LET t == SubSeq(s, 1, i - 1) \o SubSeq(s, i + 1, Len(s))
         IN t \in Seq(S) /\ Range(t) = Range(s) \ {s[i]} /\ IsInjective(t)
  <1> DEFINE n == Len(s)
             u == SubSeq(s, 1, i - 1)
             v == SubSeq(s, i + 1, n)
             t == u \o v
  <1>0. n \in Nat /\ i \in 1 .. n /\ i \in Nat /\ i >= 1 /\ i <= n
    OBVIOUS
  <1>1. \A m \in 1 .. n : s[m] \in S
    BY <1>0, ElementOfSeq
  <1>2. u \in Seq(S) /\ Len(u) = i - 1 /\ \A m \in 1 .. i - 1 : u[m] = s[m]
    <2>1. \A m \in 1 .. i - 1 : s[m] \in S
      BY <1>0, <1>1
    <2>2. 1 \in Int /\ i - 1 \in Int
      BY <1>0
    <2>3. /\ u \in Seq(S) /\ Len(u) = IF 1 <= i - 1 THEN (i - 1) - 1 + 1 ELSE 0
          /\ \A m \in 1 .. (i - 1) - 1 + 1 : u[m] = s[1 + m - 1]
      BY <2>1, <2>2, SubSeqProperties
    <2> HIDE DEF u
    <2> QED
      BY <1>0, <2>3
  <1>3. v \in Seq(S) /\ Len(v) = n - i /\ \A m \in 1 .. n - i : v[m] = s[i + m]
    <2>1. \A m \in i + 1 .. n : s[m] \in S
      BY <1>0, <1>1
    <2>2. i + 1 \in Int /\ n \in Int
      BY <1>0
    <2>3. /\ v \in Seq(S) /\ Len(v) = IF i + 1 <= n THEN n - (i + 1) + 1 ELSE 0
          /\ \A m \in 1 .. n - (i + 1) + 1 : v[m] = s[(i + 1) + m - 1]
      BY <2>1, <2>2, SubSeqProperties
    <2>4. \A m \in 1 .. n - i : m \in 1 .. n - (i + 1) + 1 /\ (i + 1) + m - 1 = i + m
      BY <1>0
    <2> HIDE DEF v
    <2> QED
      BY <1>0, <2>3, <2>4
  <1> HIDE DEF u, v
  <1>4. /\ t \in Seq(S) /\ Len(t) = (i - 1) + (n - i)
        /\ \A m \in 1 .. (i - 1) + (n - i) : t[m] = IF m <= i - 1 THEN u[m] ELSE v[m - (i - 1)]
    <2>1. /\ t \in Seq(S) /\ Len(t) = Len(u) + Len(v)
          /\ \A m \in 1 .. Len(u) + Len(v) : t[m] = IF m <= Len(u) THEN u[m] ELSE v[m - Len(u)]
      BY <1>2, <1>3, ConcatProperties
    <2> HIDE DEF t
    <2> QED
      BY <1>2, <1>3, <2>1
  <1> HIDE DEF t
  <1>5. Len(t) = n - 1
    BY <1>0, <1>4
  <1>6. ASSUME NEW m \in 1 .. n - 1
        PROVE  t[m] = IF m < i THEN s[m] ELSE s[m + 1]
    <2>1. m \in 1 .. (i - 1) + (n - i)
      BY <1>0
    <2>2. CASE m < i
      <3>1. m \in 1 .. i - 1 /\ m <= i - 1
        BY <1>0, <2>2
      <3> QED
        BY <1>2, <1>4, <2>1, <2>2, <3>1
    <2>3. CASE ~(m < i)
      <3>1. m - (i - 1) \in 1 .. n - i /\ ~(m <= i - 1) /\ i + (m - (i - 1)) = m + 1
        BY <1>0, <2>3
      <3>2. t[m] = v[m - (i - 1)]
        BY <1>4, <2>1, <3>1
      <3>3. v[m - (i - 1)] = s[i + (m - (i - 1))]
        BY <1>3, <3>1
      <3> QED
        BY <2>3, <3>1, <3>2, <3>3
    <2> QED
      BY <2>2, <2>3
  <1>7. Range(t) = Range(s) \ {s[i]} /\ IsInjective(t)
    BY <1>4, <1>5, <1>6, DropList DEF n
  <1> QED
    BY <1>4, <1>7 DEF t, u, v, n

----------------------------------------------------------------------------
(* Blocks                                                                   *)

LEMMA Sizes ==
  /\ MaxOrder \in Nat /\ MaxOrder \in Orders /\ 0 \in Orders
  /\ \A k \in Orders : k \in Nat /\ Size[k] \in Nat /\ Size[k] >= 1 /\ Size[k] <= Size[MaxOrder]
  /\ \A k \in Orders : k > 0 => k - 1 \in Orders /\ Size[k] = Size[k - 1] + Size[k - 1]
  <1>1. MaxOrder \in Nat /\ MaxOrder \in Orders /\ 0 \in Orders /\ \A k \in Orders : k \in Nat
    BY BuddyAssumption DEF Orders
  <1>2. ASSUME NEW k \in Orders PROVE Size[k] \in Nat /\ Size[k] >= 1 /\ Size[k] <= Size[MaxOrder]
    <2>1. 0 <= k /\ k <= MaxOrder
      BY <1>1 DEF Orders
    <2>2. Size[0] <= Size[k] /\ Size[k] <= Size[MaxOrder] /\ Size[0] = 1 /\ Size[k] \in Nat
      BY <1>1, <2>1, BuddyAssumption
    <2> QED
      BY <2>2
  <1>3. ASSUME NEW k \in Orders, k > 0
        PROVE  k - 1 \in Orders /\ Size[k] = Size[k - 1] + Size[k - 1]
    <2>1. k - 1 \in Orders /\ k # 0
      BY <1>1, <1>3 DEF Orders
    <2>2. Size[k] = 2 * Size[k - 1]
      BY <2>1, BuddyAssumption
    <2> QED
      BY <1>2, <2>1, <2>2
  <1> QED
    BY <1>1, <1>2, <1>3

LEMMA ExtentHasBase ==
  ASSUME NEW b \in Nat, NEW k \in Orders
  PROVE  b \in Extent(b, k)
  <1>1. Size[k] \in Nat /\ Size[k] >= 1
    BY Sizes
  <1> QED
    BY <1>1 DEF Extent, Run

(* A block is its two halves.                                               *)
LEMMA Halves ==
  ASSUME NEW b \in Nat, NEW k \in Orders, k > 0
  PROVE  /\ Extent(b, k) = Extent(b, k - 1) \cup Extent(b + Size[k - 1], k - 1)
         /\ Extent(b, k - 1) \cap Extent(b + Size[k - 1], k - 1) = {}
  <1> DEFINE s == Size[k - 1]
  <1>1. s \in Nat /\ s >= 1 /\ Size[k] = s + s
    BY Sizes
  <1> HIDE DEF s
  <1> QED
    BY <1>1 DEF Extent, Run, s

(* Bases of blocks are in their blocks, and every block has one.            *)
LEMMA Bases ==
  ASSUME TypeOK
  PROVE  /\ \A k \in Orders : \A a \in Listed(k) : a \in Pages /\ a \in Nat /\ a \in Extent(a, k)
         /\ \A l \in live : /\ l.base \in Pages /\ l.base \in Nat /\ l.order \in Orders
                            /\ l.base \in Extent(l.base, l.order)
         /\ Pages \subseteq Nat
  <1>1. Pages \subseteq Nat
    BY PmmAssumption DEF Pages
  <1>2. ASSUME NEW k \in Orders, NEW a \in Listed(k) PROVE a \in Pages
    <2>1. free_lists[k] \in Seq(Pages)
      BY DEF TypeOK
    <2> QED
      BY <2>1 DEF Listed, Range
  <1>3. \A l \in live : l.base \in Pages /\ l.order \in Orders
    BY DEF TypeOK
  <1> QED
    BY <1>1, <1>2, <1>3, ExtentHasBase

LEMMA PulledStays ==
  ASSUME UNCHANGED pulls
  PROVE  PulledPages' = PulledPages
  BY DEF PulledPages

(* A block that the call in progress has is put on its list.                *)
LEMMA ListBlock ==
  ASSUME TypeOK, HeapOk, NEW b \in Pages, NEW k \in Orders,
         Extent(b, k) \subseteq InFlight, InFlight' = InFlight \ Extent(b, k),
         buddy_list_push(k, b), UNCHANGED <<live, pulls>>
  PROVE  HeapOk' /\ free_lists' \in [Orders -> Seq(Pages)] /\ hdr' \in [Pages -> Header]
  <1> USE DEF HeapOk
  <1> DEFINE s == free_lists[k]
             t == <<b>> \o s
  <1>1. /\ free_lists \in [Orders -> Seq(Pages)] /\ hdr \in [Pages -> Header] /\ s \in Seq(Pages)
    BY DEF TypeOK
  <1>2. b \in Extent(b, k) /\ b \in Nat
    BY Bases, ExtentHasBase
  <1>3. b \notin Range(s) /\ IsInjective(s)
    BY <1>2 DEF Apart, Listed
  <1>4. t \in Seq(Pages) /\ Range(t) = Range(s) \cup {b} /\ IsInjective(t)
    BY <1>1, <1>3, PushList
  <1>5. free_lists' = [free_lists EXCEPT ![k] = t] /\ hdr' = [hdr EXCEPT ![b] = FREE(k)]
    BY DEF buddy_list_push
  <1> HIDE DEF t
  <1>6. /\ free_lists' \in [Orders -> Seq(Pages)] /\ free_lists'[k] = t
        /\ \A j \in Orders \ {k} : free_lists'[j] = free_lists[j]
    BY <1>1, <1>4, <1>5
  <1>7. FREE(k) \in Header
    BY DEF FREE, Header
  <1>8. /\ hdr' \in [Pages -> Header] /\ hdr'[b] = FREE(k)
        /\ \A q \in Pages \ {b} : hdr'[q] = hdr[q]
    BY <1>1, <1>5, <1>7
  <1>9. /\ Listed(k)' = Listed(k) \cup {b}
        /\ \A j \in Orders \ {k} : Listed(j)' = Listed(j)
    BY <1>4, <1>6 DEF Listed
  <1>10. \A j \in Orders : IsInjective(free_lists[j])'
    BY <1>4, <1>6 DEF Apart
  <1>11. \A j \in Orders : \A a \in Listed(j)' : a \in Listed(j) \/ (j = k /\ a = b)
    BY <1>9
  <1> HIDE DEF s
  <1>12. \A j \in Orders : \A a \in Listed(j) : Extent(a, j) \cap Extent(b, k) = {} /\ a # b
    BY <1>2, Bases DEF Apart
  <1>13. \A l \in live : Extent(l.base, l.order) \cap Extent(b, k) = {} /\ l.base # b
    BY <1>2, Bases DEF Apart
  <1>14. Apart'
    <2>1. \A i, j \in Orders : \A a \in Listed(i)', c \in Listed(j)' :
            i # j \/ a # c => Extent(a, i) \cap Extent(c, j) = {}
      <3> SUFFICES ASSUME NEW i \in Orders, NEW j \in Orders, NEW a \in Listed(i)', NEW c \in Listed(j)',
                          i # j \/ a # c
                   PROVE  Extent(a, i) \cap Extent(c, j) = {}
        OBVIOUS
      <3>1. CASE a \in Listed(i) /\ c \in Listed(j)
        BY <3>1 DEF Apart
      <3>2. CASE a \in Listed(i) /\ j = k /\ c = b
        BY <1>12, <3>2
      <3>3. CASE i = k /\ a = b /\ c \in Listed(j)
        BY <1>12, <3>3
      <3> QED
        BY <1>11, <3>1, <3>2, <3>3
    <2>2. \A l, m \in live' : l # m => Extent(l.base, l.order) \cap Extent(m.base, m.order) = {}
      BY DEF Apart
    <2>3. \A j \in Orders : \A a \in Listed(j)', l \in live' :
            Extent(a, j) \cap Extent(l.base, l.order) = {}
      BY <1>11, <1>13 DEF Apart
    <2>4. \A j \in Orders : \A a \in Listed(j)' : Extent(a, j) \cap InFlight' = {}
      BY <1>11 DEF Apart
    <2>5. \A l \in live' : Extent(l.base, l.order) \cap InFlight' = {}
      BY DEF Apart
    <2> QED
      BY <1>10, <2>1, <2>2, <2>3, <2>4, <2>5 DEF Apart
  <1>15. Truthful'
    <2>1. \A j \in Orders : \A a \in Listed(j)' : hdr'[a] = FREE(j)
      <3> SUFFICES ASSUME NEW j \in Orders, NEW a \in Listed(j)' PROVE hdr'[a] = FREE(j)
        OBVIOUS
      <3>1. CASE a \in Listed(j)
        BY <1>8, <1>12, <3>1, Bases DEF Truthful
      <3>2. CASE j = k /\ a = b
        BY <1>8, <3>2
      <3> QED
        BY <1>11, <3>1, <3>2
    <2>2. \A l \in live' : hdr'[l.base] = [magic |-> "ALLOC", order |-> l.order]
      BY <1>8, <1>13, Bases DEF Truthful
    <2> QED
      BY <2>1, <2>2 DEF Truthful, FREE
  <1>16. Within'
    BY <1>11, PulledStays DEF Within
  <1>17. Accounted'
    <2> SUFFICES ASSUME NEW q \in PulledPages
                 PROVE  \/ \E j \in Orders : \E a \in Listed(j)' : q \in Extent(a, j)
                        \/ \E l \in live : q \in Extent(l.base, l.order)
                        \/ q \in InFlight'
      BY PulledStays DEF Accounted
    <2>1. \A j \in Orders : Listed(j) \subseteq Listed(j)'
      BY <1>9
    <2>2. b \in Listed(k)'
      BY <1>9
    <2> QED
      BY <2>1, <2>2 DEF Accounted
  <1> QED
    BY <1>6, <1>8, <1>14, <1>15, <1>16, <1>17

(* A block leaves its list for the hands of the call in progress.           *)
LEMMA UnlistBlock ==
  ASSUME TypeOK, HeapOk, NEW k \in Orders, NEW b \in Listed(k),
         NEW t \in Seq(Pages), free_lists' = [free_lists EXCEPT ![k] = t],
         Range(t) = Range(free_lists[k]) \ {b}, IsInjective(t),
         InFlight' = InFlight \cup Extent(b, k),
         UNCHANGED <<hdr, live, pulls>>
  PROVE  HeapOk' /\ free_lists' \in [Orders -> Seq(Pages)]
  <1> USE DEF HeapOk
  <1>1. /\ free_lists' \in [Orders -> Seq(Pages)] /\ free_lists'[k] = t
        /\ \A j \in Orders \ {k} : free_lists'[j] = free_lists[j]
    BY DEF TypeOK
  <1>2. /\ Listed(k)' = Listed(k) \ {b}
        /\ \A j \in Orders \ {k} : Listed(j)' = Listed(j)
    BY <1>1 DEF Listed
  <1>3. \A j \in Orders : IsInjective(free_lists[j])'
    BY <1>1 DEF Apart
  <1>4. \A j \in Orders : \A a \in Listed(j)' : a \in Listed(j) /\ (j # k \/ a # b)
    BY <1>2
  <1>5. Apart'
    <2>1. \A i, j \in Orders : \A a \in Listed(i)', c \in Listed(j)' :
            i # j \/ a # c => Extent(a, i) \cap Extent(c, j) = {}
      BY <1>4 DEF Apart
    <2>2. \A l, m \in live' : l # m => Extent(l.base, l.order) \cap Extent(m.base, m.order) = {}
      BY DEF Apart
    <2>3. \A j \in Orders : \A a \in Listed(j)', l \in live' :
            Extent(a, j) \cap Extent(l.base, l.order) = {}
      BY <1>4 DEF Apart
    <2>4. \A j \in Orders : \A a \in Listed(j)' : Extent(a, j) \cap InFlight' = {}
      <3> SUFFICES ASSUME NEW j \in Orders, NEW a \in Listed(j)' PROVE Extent(a, j) \cap InFlight' = {}
        OBVIOUS
      <3>1. a \in Listed(j) /\ (j # k \/ a # b)
        BY <1>4
      <3>2. Extent(a, j) \cap Extent(b, k) = {} /\ Extent(a, j) \cap InFlight = {}
        BY <3>1 DEF Apart
      <3> QED
        BY <3>2
    <2>5. \A l \in live' : Extent(l.base, l.order) \cap InFlight' = {}
      BY DEF Apart
    <2> QED
      BY <1>3, <2>1, <2>2, <2>3, <2>4, <2>5 DEF Apart
  <1>6. Truthful'
    BY <1>4 DEF Truthful, FREE
  <1>7. Within'
    BY <1>4, PulledStays DEF Within
  <1>8. Accounted'
    <2> SUFFICES ASSUME NEW q \in PulledPages
                 PROVE  \/ \E j \in Orders : \E a \in Listed(j)' : q \in Extent(a, j)
                        \/ \E l \in live : q \in Extent(l.base, l.order)
                        \/ q \in InFlight'
      BY PulledStays DEF Accounted
    <2>1. \A j \in Orders : \A a \in Listed(j) : a \in Listed(j)' \/ (j = k /\ a = b)
      BY <1>2
    <2> QED
      BY <2>1 DEF Accounted
  <1> QED
    BY <1>1, <1>5, <1>6, <1>7, <1>8

(* Neither the lists nor what is in the call's hands changes.               *)
LEMMA SameBlocks ==
  ASSUME HeapOk, InFlight' = InFlight, UNCHANGED <<free_lists, live, pulls>>, Truthful'
  PROVE  HeapOk'
  <1>1. \A j \in Orders : Listed(j)' = Listed(j)
    BY DEF Listed
  <1>2. Apart'
    BY <1>1 DEF HeapOk, Apart
  <1>3. Within' /\ Accounted'
    BY <1>1, PulledStays DEF HeapOk, Within, Accounted
  <1> QED
    BY <1>2, <1>3 DEF HeapOk

LEMMA SameHeld ==
  ASSUME Held, UNCHANGED <<pmmVars, pulls, tables>>
  PROVE  Held'
  BY PulledStays DEF Held, TablesNullOnlyWhenFull, pmmVars

(* What is in the call's hands is memory.                                   *)
LEMMA InFlightPages ==
  ASSUME BuddyInv
  PROVE  InFlight \subseteq Pages /\ 0 \notin InFlight /\ PulledPages \subseteq Pages
  BY DEF BuddyInv, HeapOk, Within, Held, PmmInv, PmmTypeOK, HeldStaysMarked

(* The blocks keep their order, the call its request.                       *)
LEMMA SameFits ==
  ASSUME BlockFits, live' \subseteq live
  PROVE  BlockFits'
  BY DEF BlockFits

----------------------------------------------------------------------------
(* kmalloc                                                                  *)

LEMMA PopSmallestInv ==
  ASSUME BuddyInv, PopSmallest
  PROVE  BuddyInv'
  <1> USE DEF BuddyInv
  <1>1. /\ pc = "get" /\ pc' = "split"
        /\ UNCHANGED <<pmmVars, hdr, allocated_blocks, pool_base, pool_limit,
                       ghostVars, size, order, bit, rem, tail, p>>
    BY DEF PopSmallest
  <1>2. PICK j \in Orders, b \in Pages :
          /\ j >= order /\ free_lists[j] # <<>> /\ b = Head(free_lists[j])
          /\ free_lists' = [free_lists EXCEPT ![j] = Tail(free_lists[j])]
          /\ block' = b /\ level' = j
    BY DEF PopSmallest, IsFirst, buddy_list_pop
  <1>3. free_lists[j] \in Seq(Pages) /\ IsInjective(free_lists[j])
    BY DEF TypeOK, HeapOk, Apart
  <1>4. /\ Tail(free_lists[j]) \in Seq(Pages) /\ b \in Listed(j)
        /\ Range(Tail(free_lists[j])) = Range(free_lists[j]) \ {b} /\ IsInjective(Tail(free_lists[j]))
    BY <1>2, <1>3, PopList DEF Listed
  <1>5. InFlight = {} /\ InFlight' = Extent(b, j)
    BY <1>1, <1>2 DEF InFlight, Extent
  <1>6. InFlight' = InFlight \cup Extent(b, j)
    BY <1>5
  <1>7. HeapOk' /\ free_lists' \in [Orders -> Seq(Pages)]
    BY <1>1, <1>2, <1>4, <1>6, UnlistBlock DEF ghostVars
  <1>8. Held' /\ PmmInv'
    BY <1>1, SameHeld, StutterPmmInv DEF ghostVars
  <1>9. TypeOK'
    BY <1>1, <1>2, <1>7 DEF TypeOK, PmmTypeOK, pmmVars, ghostVars
  <1>10. CallInv' /\ BlockFits'
    BY <1>1, <1>2, SameFits DEF CallInv, ghostVars
  <1> QED
    BY <1>7, <1>8, <1>9, <1>10

LEMMA SplitDownInv ==
  ASSUME BuddyInv, SplitDown
  PROVE  BuddyInv'
  <1> USE DEF BuddyInv
  <1> DEFINE k == level - 1
             up == block + Size[level - 1]
  <1>1. /\ pc = "split" /\ level > order /\ level' = level - 1
        /\ buddy_list_push(k, up)
        /\ UNCHANGED <<pmmVars, allocated_blocks, pool_base, pool_limit, ghostVars,
                       pc, size, order, block, bit, rem, tail, p>>
    BY DEF SplitDown
  <1>2. level \in Orders /\ order \in Orders /\ level \in Nat /\ order \in Nat /\ block \in Nat
    BY Sizes, Bases DEF TypeOK
  <1>3. level > 0 /\ k \in Orders /\ Size[k] \in Nat /\ k >= order
    <2>1. level > 0 /\ level - 1 >= order
      BY <1>1, <1>2
    <2> QED
      BY <1>2, <2>1, Sizes
  <1>4. /\ Extent(block, level) = Extent(block, k) \cup Extent(up, k)
        /\ Extent(block, k) \cap Extent(up, k) = {}
    BY <1>2, <1>3, Halves
  <1>5. InFlight = Extent(block, level) /\ InFlight' = Extent(block, k)
    BY <1>1 DEF InFlight, Extent
  <1>6. up \in Nat /\ up \in Extent(up, k)
    BY <1>2, <1>3, ExtentHasBase
  <1>7. up \in Pages
    BY <1>4, <1>5, <1>6, InFlightPages
  <1> HIDE DEF up, k
  <1>8. HeapOk' /\ free_lists' \in [Orders -> Seq(Pages)] /\ hdr' \in [Pages -> Header]
    <2>1. Extent(up, k) \subseteq InFlight /\ InFlight' = InFlight \ Extent(up, k)
      BY <1>4, <1>5
    <2> QED
      BY <1>1, <1>3, <1>7, <2>1, ListBlock DEF ghostVars
  <1>9. Held' /\ PmmInv'
    BY <1>1, SameHeld, StutterPmmInv DEF ghostVars
  <1>10. TypeOK'
    BY <1>1, <1>3, <1>8 DEF TypeOK, PmmTypeOK, pmmVars, ghostVars, k
  <1>11. CallInv' /\ BlockFits'
    BY <1>1, <1>3, SameFits DEF CallInv, ghostVars, k
  <1> QED
    BY <1>8, <1>9, <1>10, <1>11

LEMMA OutOfMemoryInv ==
  ASSUME BuddyInv, OutOfMemory
  PROVE  BuddyInv'
  <1> USE DEF BuddyInv
  <1>1. pc = "get" /\ pc' = "idle" /\ Return /\ UNCHANGED <<heapVars, ghostVars, pmmVars>>
    BY DEF OutOfMemory, Return, pmm_alloc_contiguous
  <1>2. InFlight' = InFlight
    BY <1>1 DEF InFlight
  <1>3. Truthful'
    BY <1>1 DEF HeapOk, Truthful, Listed, heapVars, ghostVars, FREE
  <1>4. HeapOk'
    BY <1>1, <1>2, <1>3, SameBlocks DEF heapVars, ghostVars
  <1>5. Held' /\ PmmInv'
    BY <1>1, SameHeld, StutterPmmInv DEF ghostVars
  <1>6. 0 \in Pages /\ 0 \in Orders /\ 0 \in 0 .. MaxOrder
    BY PmmAssumption, BuddyAssumption DEF Pages, Orders
  <1>7. TypeOK'
    BY <1>1, <1>6 DEF Return, TypeOK, PmmTypeOK, pmmVars, heapVars, ghostVars
  <1>8. CallInv' /\ BlockFits'
    BY <1>1, SameFits DEF CallInv, ghostVars
  <1> QED
    BY <1>4, <1>5, <1>7, <1>8

LEMMA GrantInv ==
  ASSUME BuddyInv, Grant
  PROVE  BuddyInv'
  <1> USE DEF BuddyInv
  <1> DEFINE new == [base |-> block, order |-> order, size |-> size]
             h == [magic |-> "ALLOC", order |-> order]
  <1>1. /\ pc = "split" /\ level = order /\ hdr' = [hdr EXCEPT ![block] = h]
        /\ allocated_blocks' = allocated_blocks + 1
        /\ live' = live \cup {new} /\ Return
        /\ UNCHANGED <<pmmVars, free_lists, pool_base, pool_limit, pulls, tables>>
    BY DEF Grant
  <1>2. /\ block \in Pages /\ block \in Nat /\ order \in Orders /\ hdr \in [Pages -> Header]
        /\ allocated_blocks \in Int
    BY Bases DEF TypeOK
  <1>3. size \in Requests /\ Fits(size, order)
    BY <1>1 DEF CallInv
  <1>4. new.base = block /\ new.order = order /\ new.size = size
    OBVIOUS
  <1>5. new \in [base : Pages, order : Orders, size : Requests] /\ h \in Header
    BY <1>2, <1>3 DEF Header
  <1> HIDE DEF new
  <1>6. /\ hdr' \in [Pages -> Header] /\ hdr'[block] = h
        /\ \A q \in Pages \ {block} : hdr'[q] = hdr[q]
    BY <1>1, <1>2, <1>5
  <1>7. InFlight = Extent(block, order) /\ InFlight' = {} /\ block \in InFlight
    <2>1. pc' = "idle"
      BY <1>1 DEF Return
    <2> QED
      BY <1>1, <1>2, <2>1, ExtentHasBase DEF InFlight
  <1>8. /\ \A j \in Orders : \A a \in Listed(j) : Extent(a, j) \cap InFlight = {} /\ a # block /\ a \in Pages
        /\ \A l \in live : Extent(l.base, l.order) \cap InFlight = {} /\ l.base # block /\ l.base \in Pages
    BY <1>7, Bases DEF HeapOk, Apart
  <1>9. \A j \in Orders : Listed(j)' = Listed(j)
    BY <1>1 DEF Listed
  <1>10. Apart'
    <2>1. \A l, m \in live' : l # m => Extent(l.base, l.order) \cap Extent(m.base, m.order) = {}
      BY <1>1, <1>4, <1>7, <1>8 DEF HeapOk, Apart
    <2>2. \A j \in Orders : \A a \in Listed(j), l \in live' :
            Extent(a, j) \cap Extent(l.base, l.order) = {}
      BY <1>1, <1>4, <1>7, <1>8 DEF HeapOk, Apart
    <2>3. \A j \in Orders : IsInjective(free_lists[j])'
      BY <1>1 DEF HeapOk, Apart
    <2>4. \A i, j \in Orders : \A a \in Listed(i)', c \in Listed(j)' :
            i # j \/ a # c => Extent(a, i) \cap Extent(c, j) = {}
      BY <1>9 DEF HeapOk, Apart
    <2> QED
      BY <1>7, <1>9, <2>1, <2>2, <2>3, <2>4 DEF Apart
  <1>11. Truthful'
    <2>1. \A l \in live' : hdr'[l.base] = [magic |-> "ALLOC", order |-> l.order]
      BY <1>1, <1>4, <1>6, <1>8 DEF HeapOk, Truthful
    <2>2. \A j \in Orders : \A a \in Listed(j)' : hdr'[a] = FREE(j)
      BY <1>6, <1>8, <1>9 DEF HeapOk, Truthful
    <2> QED
      BY <2>1, <2>2 DEF Truthful, FREE
  <1>12. Within' /\ Accounted'
    <2>1. PulledPages' = PulledPages
      BY <1>1, PulledStays
    <2> QED
      BY <1>1, <1>4, <1>7, <1>9, <2>1 DEF HeapOk, Within, Accounted
  <1>13. Held' /\ PmmInv'
    BY <1>1, SameHeld, StutterPmmInv
  <1>14. TypeOK'
    <2>1. 0 \in Pages /\ 0 \in Orders /\ 0 \in 0 .. MaxOrder
      BY PmmAssumption, BuddyAssumption DEF Pages, Orders
    <2>2. live' \subseteq [base : Pages, order : Orders, size : Requests]
      BY <1>1, <1>5 DEF TypeOK
    <2>3. allocated_blocks' \in Int
      BY <1>1, <1>2
    <2> QED
      BY <1>1, <1>6, <2>1, <2>2, <2>3 DEF Return, TypeOK, PmmTypeOK, pmmVars
  <1>15. CallInv'
    BY <1>1 DEF Return, CallInv
  <1>16. BlockFits'
    BY <1>1, <1>3, <1>4 DEF BlockFits
  <1> QED
    BY <1>10, <1>11, <1>12, <1>13, <1>14, <1>15, <1>16 DEF HeapOk

----------------------------------------------------------------------------
(* The slack loops                                                          *)

LEMMA RunParts ==
  ASSUME NEW a \in Nat, NEW m \in Nat, NEW n \in Nat,
         NEW c, c = a + m, NEW t, t = m + n
  PROVE  Run(a, t) = Run(a, m) \cup Run(c, n) /\ Run(a, m) \cap Run(c, n) = {}
  BY DEF Run

(* The heap takes a run that nobody had.                                    *)
LEMMA PullInv ==
  ASSUME BuddyInv, Pull
  PROVE  BuddyInv'
  <1> USE DEF BuddyInv
  <1> DEFINE S == Size[order]
             n == 2 * S - 1
  <1>1. /\ pc = "get" /\ FreeRuns(n) # {} /\ pc' = "head" /\ level' = order /\ bit' = MaxOrder
        /\ UNCHANGED <<heapVars, live, tables, size, order>>
    BY DEF Pull
  <1>2a. PICK i \in Pages : \E b \in i .. i + S - 1 :
          /\ pmm_alloc_contiguous(n, i)
          /\ block' = b /\ p' = b /\ rem' = b - i /\ tail' = S - 1 - (b - i)
          /\ pulls' = pulls \cup {[run |-> i, base |-> b, order |-> order]}
    BY DEF Pull
  <1>2. PICK b \in i .. i + S - 1 :
          /\ pmm_alloc_contiguous(n, i)
          /\ block' = b /\ p' = b /\ rem' = b - i /\ tail' = S - 1 - (b - i)
          /\ pulls' = pulls \cup {[run |-> i, base |-> b, order |-> order]}
    BY <1>2a
  <1>3. S \in Nat /\ S >= 1 /\ S <= Size[MaxOrder] /\ Size[MaxOrder] \in Nat /\ order \in Orders
        /\ MaxOrder \in Orders
    BY Sizes DEF TypeOK
  <1>4. i \in Nat /\ NPages \in Nat
    BY PmmAssumption DEF Pages
  <1> HIDE DEF S
  <1>5. n \in Nat /\ n # 0
    BY <1>3
  <1>6. i + n <= NPages /\ Run(i, n) \cap pmm_bitmap = {} /\ TakeRun(i, n)
    <2>1. ~(n > NPages)
      <3>1. PICK k \in Pages : k + n <= NPages
        BY <1>1 DEF FreeRuns
      <3> QED
        BY <1>4, <1>5, <3>1 DEF Pages
    <2> QED
      BY <1>1, <1>2, <1>5, <2>1 DEF pmm_alloc_contiguous, IsFirst, FreeRuns
  <1>7. PmmInv'
    BY <1>2, <1>5, AllocContiguousInv
  <1>8. Run(i, n) \subseteq Pages
    BY <1>4, <1>5, <1>6 DEF Run, Pages
  <1>9. /\ b \in Nat /\ b - i \in Nat /\ b - i < S /\ b \in Run(i, n)
        /\ S - 1 - (b - i) \in Nat /\ S - 1 - (b - i) < Size[MaxOrder] /\ b - i < Size[MaxOrder]
    BY <1>3, <1>4 DEF Run
  <1>10. InFlight = {} /\ InFlight' = Run(i, n)
    <2>1. pc' = "head" /\ p' - rem' = i /\ Size[order]' + tail' = n - (b - i)
      BY <1>1, <1>2, <1>3, <1>4, <1>9 DEF S
    <2>2. InFlight' = Run(i, b - i) \cup Run(b, n - (b - i))
      BY <1>2, <2>1 DEF InFlight
    <2>3. i + (b - i) = b /\ (b - i) + (n - (b - i)) = n /\ n - (b - i) \in Nat
      BY <1>3, <1>4, <1>9
    <2>4. Run(i, n) = Run(i, b - i) \cup Run(b, n - (b - i))
      <3> DEFINE m == b - i
                 r == n - m
      <3>1. m \in Nat /\ r \in Nat /\ b = i + m /\ n = m + r /\ i \in Nat /\ b \in Nat
        BY <1>4, <1>5, <1>9, <2>3
      <3> HIDE DEF m, r, n
      <3>2. Run(i, n) = Run(i, m) \cup Run(b, r)
        BY ONLY <3>1, RunParts
      <3> QED
        BY <3>2 DEF m, r
    <2> QED
      BY <1>1, <2>2, <2>4 DEF InFlight
  <1>11. PulledPages' = PulledPages \cup Run(i, n)
    <2> DEFINE r == [run |-> i, base |-> b, order |-> order]
    <2>1. r.run = i /\ Size[r.order] = S
      BY DEF S
    <2> HIDE DEF r
    <2>2. \A q : q \in PulledPages' <=> q \in PulledPages \/ q \in Run(i, n)
      BY <1>2, <2>1 DEF PulledPages, r
    <2> QED
      BY <2>2
  <1>12. Run(i, n) \cap PulledPages = {} /\ Run(i, n) \cap Range(tables) = {} /\ Run(i, n) \subseteq held'
    <2>1. 0 \in pmm_bitmap /\ held \subseteq pmm_bitmap
      BY ZeroReserved DEF PmmInv, Circulation, HeldStaysMarked
    <2> QED
      BY <1>6, <2>1 DEF Held, TakeRun
  <1>13. UNCHANGED <<free_lists, hdr, live>> /\ \A j \in Orders : Listed(j)' = Listed(j)
    BY <1>1 DEF heapVars, Listed
  <1>14. Apart'
    <2>1. /\ \A j \in Orders : \A a \in Listed(j) : Extent(a, j) \cap Run(i, n) = {}
          /\ \A l \in live : Extent(l.base, l.order) \cap Run(i, n) = {}
      BY <1>12 DEF HeapOk, Within
    <2> QED
      BY <1>10, <1>13, <2>1 DEF HeapOk, Apart
  <1>15. Truthful'
    BY <1>13 DEF HeapOk, Truthful, FREE
  <1>16. Within' /\ Accounted'
    BY <1>10, <1>11, <1>13 DEF HeapOk, Within, Accounted
  <1>17. Held'
    <2>1. pmm_bitmap \subseteq pmm_bitmap' /\ held \subseteq held' /\ tables' = tables
      BY <1>1, <1>6 DEF TakeRun
    <2> QED
      BY <1>11, <1>12, <2>1 DEF Held, TablesNullOnlyWhenFull
  <1>18. TypeOK'
    <2>1. b \in Pages
      BY <1>8, <1>9
    <2>2. pulls' \subseteq [run : Pages, base : Pages, order : Orders]
      BY <1>2, <1>3, <2>1 DEF TypeOK
    <2>3. MaxOrder \in 0 .. MaxOrder
      BY Sizes
    <2>4. PmmTypeOK'
      BY <1>7 DEF PmmInv
    <2> QED
      BY <1>1, <1>2, <1>3, <1>9, <2>1, <2>2, <2>3, <2>4 DEF TypeOK, heapVars
  <1>19. CallInv'
    <2>1. size \in Requests /\ Fits(size, order)
      BY <1>1 DEF CallInv
    <2>2. p' <= block' /\ p' >= rem' /\ rem' < Size[bit'] /\ tail' < Size[MaxOrder]
      BY <1>1, <1>2, <1>4, <1>9
    <2> QED
      BY <1>1, <2>1, <2>2 DEF CallInv
  <1>20. BlockFits'
    BY <1>13, SameFits
  <1> QED
    BY <1>7, <1>14, <1>15, <1>16, <1>17, <1>18, <1>19, <1>20 DEF HeapOk

(* The bit tells whether its weight is in what remains; then what remains   *)
(* without it is less than the next bit's double.                           *)
LEMMA SlackBits ==
  ASSUME BuddyInv, pc \in {"head", "tail"}, bit > 0
  PROVE  LET k == bit - 1 IN
         /\ k \in Orders /\ k \in 0 .. MaxOrder /\ Size[k] \in Nat /\ Size[k] >= 1
         /\ rem \in Nat /\ p \in Nat
         /\ rem >= Size[k] => rem - Size[k] \in Nat /\ rem - Size[k] < Size[k]
  <1> DEFINE k == bit - 1
  <1>1. bit \in 0 .. MaxOrder /\ rem \in Nat /\ p \in Nat /\ rem < Size[bit]
    BY DEF BuddyInv, TypeOK, CallInv
  <1>2. bit \in Orders /\ MaxOrder \in Nat
    BY <1>1, Sizes DEF Orders
  <1>3. k \in Orders /\ Size[k] \in Nat /\ Size[k] >= 1 /\ Size[bit] = Size[k] + Size[k]
    BY <1>2, Sizes
  <1>4. k \in 0 .. MaxOrder
    BY <1>3 DEF Orders
  <1> HIDE DEF k
  <1> QED
    BY <1>1, <1>3, <1>4 DEF k

LEMMA HeadSlackInv ==
  ASSUME BuddyInv, HeadSlack
  PROVE  BuddyInv'
  <1> USE DEF BuddyInv
  <1> DEFINE k == bit - 1
             s == Size[k]
             q == p - s
  <1>1. /\ pc = "head" /\ bit > 0 /\ bit' = k
        /\ \/ /\ rem >= s /\ rem' = rem - s /\ p' = q /\ buddy_list_push(k, q)
           \/ /\ ~(rem >= s) /\ UNCHANGED <<rem, p, free_lists, hdr>>
        /\ UNCHANGED <<pmmVars, allocated_blocks, pool_base, pool_limit, ghostVars,
                       pc, size, order, block, level, tail>>
    BY DEF HeadSlack
  <1>2. /\ k \in Orders /\ k \in 0 .. MaxOrder /\ s \in Nat /\ s >= 1 /\ rem \in Nat /\ p \in Nat
        /\ rem >= s => rem - s \in Nat /\ rem - s < s
    BY <1>1, SlackBits
  <1>3. /\ level = order /\ p <= block /\ p >= rem /\ tail < Size[MaxOrder]
        /\ block \in Nat /\ size \in Requests /\ Fits(size, order)
    BY <1>1, Bases DEF CallInv, TypeOK
  <1> HIDE DEF s, k
  <1>4. Held' /\ PmmInv' /\ BlockFits'
    BY <1>1, SameHeld, StutterPmmInv, SameFits DEF ghostVars
  <1>5. CASE ~(rem >= s)
    <2>1. UNCHANGED <<rem, p, free_lists, hdr>>
      BY <1>1, <1>5
    <2>2. InFlight' = InFlight
      BY <1>1, <2>1 DEF InFlight
    <2>3. Truthful'
      BY <1>1, <2>1 DEF HeapOk, Truthful, Listed, FREE, ghostVars
    <2>4. HeapOk'
      BY <1>1, <2>1, <2>2, <2>3, SameBlocks DEF ghostVars
    <2>5. TypeOK'
      BY <1>1, <1>2, <2>1 DEF TypeOK, PmmTypeOK, pmmVars, ghostVars
    <2>6. rem < Size[k]
      BY <1>2, <1>5 DEF s
    <2>7. CallInv'
      BY <1>1, <1>3, <2>1, <2>6 DEF CallInv
    <2> QED
      BY <1>4, <2>4, <2>5, <2>7
  <1>6. CASE rem >= s
    <2>1. rem' = rem - s /\ p' = q /\ buddy_list_push(k, q)
      BY <1>1, <1>6
    <2>2. q \in Nat /\ rem - s \in Nat /\ q <= block /\ q >= rem - s /\ q - (rem - s) = p - rem /\ p - rem \in Nat
      BY <1>2, <1>3, <1>6
    <2> HIDE DEF q
    <2> DEFINE A == Run(p - rem, rem - s)
               B == Run(block, Size[order] + tail)
    <2>3. InFlight = Run(p - rem, rem) \cup B /\ InFlight' = A \cup B
      <3>1. p' - rem' = p - rem
        BY <2>1, <2>2
      <3> QED
        BY <1>1, <2>1, <3>1 DEF InFlight
    <2>4. Run(p - rem, rem) = A \cup Extent(q, k) /\ A \cap Extent(q, k) = {}
      <3> DEFINE a == p - rem
                 m == rem - s
      <3>1. a \in Nat /\ m \in Nat /\ rem = m + s /\ q = a + m
        BY <1>2, <2>2 DEF q
      <3> HIDE DEF a, m
      <3>2. Run(a, rem) = Run(a, m) \cup Run(q, s) /\ Run(a, m) \cap Run(q, s) = {}
        BY <1>2, <3>1, RunParts
      <3> QED
        BY <3>2 DEF Extent, s, a, m
    <2>5. B \cap Extent(q, k) = {}
      <3>1. q + s = p
        BY <1>2, <2>2 DEF q
      <3> QED
        BY <1>2, <1>3, <2>2, <3>1 DEF Extent, Run, s
    <2>6. q \in Extent(q, k)
      BY <1>2, <2>2, ExtentHasBase
    <2> HIDE DEF A, B
    <2>7. Extent(q, k) \subseteq InFlight /\ InFlight' = InFlight \ Extent(q, k)
      BY <2>3, <2>4, <2>5
    <2>8. q \in Pages
      BY <2>6, <2>7, InFlightPages
    <2>9. HeapOk' /\ free_lists' \in [Orders -> Seq(Pages)] /\ hdr' \in [Pages -> Header]
      BY <1>1, <1>2, <2>1, <2>7, <2>8, ListBlock DEF ghostVars
    <2>10. TypeOK'
      BY <1>1, <1>2, <2>1, <2>2, <2>9 DEF TypeOK, PmmTypeOK, pmmVars, ghostVars
    <2>11. rem - s < Size[k]
      BY <1>2, <1>6 DEF s
    <2>12. CallInv'
      BY <1>1, <1>3, <2>1, <2>2, <2>11 DEF CallInv
    <2> QED
      BY <1>4, <2>9, <2>10, <2>12
  <1> QED
    BY <1>5, <1>6

LEMMA HeadDoneInv ==
  ASSUME BuddyInv, HeadDone
  PROVE  BuddyInv'
  <1> USE DEF BuddyInv
  <1>1. /\ pc = "head" /\ bit = 0 /\ pc' = "tail" /\ bit' = MaxOrder /\ rem' = tail
        /\ p' = block + Size[order]
        /\ UNCHANGED <<pmmVars, heapVars, ghostVars, size, order, block, level, tail>>
    BY DEF HeadDone
  <1>2. /\ level = order /\ rem < Size[0] /\ tail < Size[MaxOrder] /\ p \in Nat /\ p >= rem
        /\ rem \in Nat /\ tail \in Nat /\ block \in Nat /\ order \in Orders
        /\ size \in Requests /\ Fits(size, order)
    BY <1>1, Bases DEF CallInv, TypeOK
  <1>3. Size[order] \in Nat /\ Size[0] = 1 /\ MaxOrder \in 0 .. MaxOrder
    BY <1>2, Sizes, BuddyAssumption
  <1>4. rem = 0
    BY <1>2, <1>3
  <1>5. InFlight' = InFlight
    <2>1. InFlight = Run(p - rem, rem) \cup Run(block, Size[order] + tail)
      BY <1>1 DEF InFlight
    <2>2. InFlight' = Run(block, Size[order]) \cup Run(block + Size[order], tail)
      BY <1>1 DEF InFlight, Extent
    <2>3. Run(p - rem, rem) = {}
      BY <1>2, <1>4 DEF Run
    <2> DEFINE S == Size[order]
               c == block + S
               t == S + tail
    <2>4. S \in Nat /\ c = block + S /\ t = S + tail
      BY <1>3
    <2> HIDE DEF S, c, t
    <2>5. Run(block, t) = Run(block, S) \cup Run(c, tail)
      <3>1. block \in Nat /\ tail \in Nat
        BY <1>2
      <3> QED
        BY ONLY <2>4, <3>1 DEF Run
    <2> QED
      BY <2>1, <2>2, <2>3, <2>5 DEF S, c, t
  <1>6. Truthful'
    BY <1>1 DEF HeapOk, Truthful, Listed, FREE, heapVars, ghostVars
  <1>7. HeapOk'
    BY <1>1, <1>5, <1>6, SameBlocks DEF heapVars, ghostVars
  <1>8. Held' /\ PmmInv' /\ BlockFits'
    BY <1>1, SameHeld, StutterPmmInv, SameFits DEF ghostVars
  <1>9. TypeOK'
    BY <1>1, <1>2, <1>3 DEF TypeOK, PmmTypeOK, pmmVars, heapVars, ghostVars
  <1>10. CallInv'
    <2>1. block + Size[order] >= block + Size[order]
      BY <1>2, <1>3
    <2> QED
      BY <1>1, <1>2, <2>1 DEF CallInv
  <1> QED
    BY <1>7, <1>8, <1>9, <1>10

LEMMA TailSlackInv ==
  ASSUME BuddyInv, TailSlack
  PROVE  BuddyInv'
  <1> USE DEF BuddyInv
  <1> DEFINE k == bit - 1
             s == Size[k]
  <1>1. /\ pc = "tail" /\ bit > 0 /\ bit' = k
        /\ \/ /\ rem >= s /\ rem' = rem - s /\ p' = p + s /\ buddy_list_push(k, p)
           \/ /\ ~(rem >= s) /\ UNCHANGED <<rem, p, free_lists, hdr>>
        /\ UNCHANGED <<pmmVars, allocated_blocks, pool_base, pool_limit, ghostVars,
                       pc, size, order, block, level, tail>>
    BY DEF TailSlack
  <1>2. /\ k \in Orders /\ k \in 0 .. MaxOrder /\ s \in Nat /\ s >= 1 /\ rem \in Nat /\ p \in Nat
        /\ rem >= s => rem - s \in Nat /\ rem - s < s
    BY <1>1, SlackBits
  <1>3. /\ level = order /\ p >= block + Size[order] /\ order \in Orders
        /\ block \in Nat /\ size \in Requests /\ Fits(size, order)
    BY <1>1, Bases DEF CallInv, TypeOK
  <1>4. Size[order] \in Nat
    BY <1>3, Sizes
  <1> HIDE DEF s, k
  <1>5. Held' /\ PmmInv' /\ BlockFits'
    BY <1>1, SameHeld, StutterPmmInv, SameFits DEF ghostVars
  <1>6. CASE ~(rem >= s)
    <2>1. UNCHANGED <<rem, p, free_lists, hdr>>
      BY <1>1, <1>6
    <2>2. InFlight' = InFlight
      BY <1>1, <2>1 DEF InFlight
    <2>3. Truthful'
      BY <1>1, <2>1 DEF HeapOk, Truthful, Listed, FREE, ghostVars
    <2>4. HeapOk'
      BY <1>1, <2>1, <2>2, <2>3, SameBlocks DEF ghostVars
    <2>5. TypeOK'
      BY <1>1, <1>2, <2>1 DEF TypeOK, PmmTypeOK, pmmVars, ghostVars
    <2>6. rem < Size[k]
      BY <1>2, <1>6 DEF s
    <2>7. CallInv'
      BY <1>1, <1>3, <2>1, <2>6 DEF CallInv
    <2> QED
      BY <1>5, <2>4, <2>5, <2>7
  <1>7. CASE rem >= s
    <2>1. rem' = rem - s /\ p' = p + s /\ buddy_list_push(k, p)
      BY <1>1, <1>7
    <2>2. rem - s \in Nat /\ p + s \in Nat /\ p + s >= block + Size[order]
      BY <1>2, <1>3, <1>4, <1>7
    <2> DEFINE A == Run(p + s, rem - s)
               B == Extent(block, order)
    <2>3. InFlight = B \cup Run(p, rem) /\ InFlight' = B \cup A
      BY <1>1, <2>1 DEF InFlight, Extent
    <2>4. Run(p, rem) = Extent(p, k) \cup A /\ Extent(p, k) \cap A = {}
      <3> DEFINE c == p + s
                 m == rem - s
      <3>1. c = p + s /\ m \in Nat /\ rem = s + m
        BY <1>2, <2>2
      <3> HIDE DEF c, m
      <3>2. Run(p, rem) = Run(p, s) \cup Run(c, m) /\ Run(p, s) \cap Run(c, m) = {}
        BY <1>2, <3>1, RunParts
      <3> QED
        BY <3>2 DEF Extent, s, c, m
    <2>5. B \cap Extent(p, k) = {}
      BY <1>2, <1>3, <1>4 DEF Extent, Run, s
    <2>6. p \in Extent(p, k)
      BY <1>2, ExtentHasBase
    <2> HIDE DEF A, B
    <2>7. Extent(p, k) \subseteq InFlight /\ InFlight' = InFlight \ Extent(p, k)
      BY <2>3, <2>4, <2>5
    <2>8. p \in Pages
      BY <2>6, <2>7, InFlightPages
    <2>9. HeapOk' /\ free_lists' \in [Orders -> Seq(Pages)] /\ hdr' \in [Pages -> Header]
      BY <1>1, <1>2, <2>1, <2>7, <2>8, ListBlock DEF ghostVars
    <2>10. TypeOK'
      BY <1>1, <1>2, <2>1, <2>2, <2>9 DEF TypeOK, PmmTypeOK, pmmVars, ghostVars
    <2>11. rem - s < Size[k]
      BY <1>2, <1>7 DEF s
    <2>12. CallInv'
      BY <1>1, <1>3, <2>1, <2>2, <2>11 DEF CallInv
    <2> QED
      BY <1>5, <2>9, <2>10, <2>12
  <1> QED
    BY <1>6, <1>7

LEMMA TailDoneInv ==
  ASSUME BuddyInv, TailDone
  PROVE  BuddyInv'
  <1> USE DEF BuddyInv
  <1>1. /\ pc = "tail" /\ bit = 0 /\ pc' = "split" /\ hdr' = [hdr EXCEPT ![block] = FREE(order)]
        /\ pool_base' \in {block, pool_base} /\ pool_limit' \in {block + Size[order], pool_limit}
        /\ UNCHANGED <<pmmVars, free_lists, allocated_blocks, ghostVars,
                       size, order, block, level, bit, rem, tail, p>>
    BY DEF TailDone
  <1>2. /\ level = order /\ rem < Size[0] /\ p \in Nat /\ rem \in Nat
        /\ block \in Nat /\ block \in Pages /\ order \in Orders /\ order \in Nat
        /\ hdr \in [Pages -> Header] /\ pool_base \in Nat /\ pool_limit \in Nat
        /\ size \in Requests /\ Fits(size, order)
    BY <1>1, Bases, Sizes DEF CallInv, TypeOK
  <1>3. Size[order] \in Nat /\ Size[0] = 1
    BY <1>2, Sizes, BuddyAssumption
  <1>4. rem = 0
    BY <1>2, <1>3
  <1>5. InFlight' = InFlight /\ block \in InFlight
    <2>1. Run(p, rem) = {}
      BY <1>2, <1>4 DEF Run
    <2>2. InFlight = Extent(block, order) /\ InFlight' = Extent(block, order)
      BY <1>1, <1>2, <2>1 DEF InFlight, Extent
    <2> QED
      BY <1>2, <2>2, ExtentHasBase
  <1>6. FREE(order) \in Header
    BY <1>2 DEF FREE, Header
  <1>7. hdr' \in [Pages -> Header] /\ \A q \in Pages \ {block} : hdr'[q] = hdr[q]
    BY <1>1, <1>2, <1>6
  <1>8. Truthful'
    <2>1. \A k \in Orders : \A a \in Listed(k) : a \in Pages /\ a # block
      BY <1>5, Bases DEF HeapOk, Apart
    <2>2. \A l \in live : l.base \in Pages /\ l.base # block
      BY <1>5, Bases DEF HeapOk, Apart
    <2>3. live' = live /\ \A k \in Orders : Listed(k)' = Listed(k)
      BY <1>1 DEF Listed, ghostVars
    <2>4. \A k \in Orders : \A a \in Listed(k) : hdr'[a] = FREE(k)
      BY <1>7, <2>1 DEF HeapOk, Truthful
    <2>5. \A l \in live : hdr'[l.base] = [magic |-> "ALLOC", order |-> l.order]
      BY <1>7, <2>2 DEF HeapOk, Truthful
    <2> QED
      BY <2>3, <2>4, <2>5 DEF Truthful, FREE
  <1>9. HeapOk'
    BY <1>1, <1>5, <1>8, SameBlocks DEF ghostVars
  <1>10. Held' /\ PmmInv' /\ BlockFits'
    BY <1>1, SameHeld, StutterPmmInv, SameFits DEF ghostVars
  <1>11. TypeOK'
    <2>1. pool_base' \in Nat /\ pool_limit' \in Nat
      BY <1>1, <1>2, <1>3
    <2> QED
      BY <1>1, <1>7, <2>1 DEF TypeOK, PmmTypeOK, pmmVars, ghostVars
  <1>12. CallInv'
    <2>1. order >= order
      BY <1>2
    <2> QED
      BY <1>1, <1>2, <2>1 DEF CallInv
  <1> QED
    BY <1>9, <1>10, <1>11, <1>12

----------------------------------------------------------------------------
(* kfree                                                                    *)

LEMMA kfreeInv ==
  ASSUME BuddyInv, NEW l \in live, kfree(l)
  PROVE  BuddyInv'
  <1> USE DEF BuddyInv
  <1>1. hdr[l.base] = [magic |-> "ALLOC", order |-> l.order]
    BY DEF HeapOk, Truthful
  <1>2. hdr[l.base].magic = "ALLOC" /\ hdr[l.base].order = l.order
    BY <1>1
  <1>3. /\ pc = "idle" /\ live' = live \ {l} /\ allocated_blocks' = allocated_blocks - 1
        /\ block' = l.base /\ level' = l.order /\ pc' = "merge"
        /\ UNCHANGED <<pmmVars, free_lists, hdr, pool_base, pool_limit, pulls, tables,
                       size, order, bit, rem, tail, p>>
    BY <1>2 DEF kfree
  <1>4. InFlight = {} /\ InFlight' = Extent(l.base, l.order)
    BY <1>3 DEF InFlight, Extent
  <1>5. \A j \in Orders : Listed(j)' = Listed(j)
    BY <1>3 DEF Listed
  <1>6. Apart'
    BY <1>3, <1>4, <1>5 DEF HeapOk, Apart
  <1>7. Truthful'
    BY <1>3, <1>5 DEF HeapOk, Truthful, FREE
  <1>8. Within' /\ Accounted'
    <2>1. PulledPages' = PulledPages
      BY <1>3, PulledStays
    <2> QED
      BY <1>3, <1>4, <1>5, <2>1 DEF HeapOk, Within, Accounted
  <1>9. Held' /\ PmmInv' /\ BlockFits'
    BY <1>3, SameHeld, StutterPmmInv, SameFits
  <1>10. TypeOK'
    <2>1. l.base \in Pages /\ l.order \in Orders
      BY Bases
    <2>2. allocated_blocks - 1 \in Int
      BY DEF TypeOK
    <2> QED
      BY <1>3, <2>1, <2>2 DEF TypeOK, PmmTypeOK, pmmVars
  <1>11. CallInv'
    BY <1>3 DEF CallInv
  <1> QED
    BY <1>6, <1>7, <1>8, <1>9, <1>10, <1>11 DEF HeapOk

LEMMA MergeUpInv ==
  ASSUME BuddyInv, MergeUp
  PROVE  BuddyInv'
  <1> USE DEF BuddyInv
  <1> DEFINE c == BuddyOf(block, level)
             s == free_lists[level]
             k == level + 1
             S == Size[level]
  <1>1. /\ pc = "merge" /\ level < MaxOrder /\ level' = k
        /\ block' = IF c < block THEN c ELSE block
        /\ UNCHANGED <<pmmVars, hdr, allocated_blocks, pool_base, pool_limit, ghostVars,
                       pc, size, order, bit, rem, tail, p>>
    BY DEF MergeUp
  <1>2. PICK i \in DOMAIN s :
          /\ s[i] = c
          /\ free_lists' = [free_lists EXCEPT ![level] = SubSeq(s, 1, i - 1) \o SubSeq(s, i + 1, Len(s))]
    BY DEF MergeUp, Mergeable, IsFirst, buddy_list_unlink
  <1>3. /\ level \in Orders /\ level \in Nat /\ block \in Nat /\ s \in Seq(Pages) /\ IsInjective(s)
        /\ S \in Nat /\ S >= 1
    BY Bases, Sizes DEF TypeOK, HeapOk, Apart
  <1>4. k \in Orders /\ k > 0 /\ k - 1 = level
    BY <1>1, <1>3, Sizes DEF Orders
  <1> DEFINE t == SubSeq(s, 1, i - 1) \o SubSeq(s, i + 1, Len(s))
  <1>5. i \in 1 .. Len(s)
    BY <1>3
  <1>6. t \in Seq(Pages) /\ Range(t) = Range(s) \ {c} /\ IsInjective(t)
    BY <1>2, <1>3, <1>5, UnlinkList
  <1> HIDE DEF t
  <1>7. c \in Listed(level) /\ c \in Pages /\ c \in Nat
    <2>1. c \in Listed(level)
      BY <1>2 DEF Listed, Range
    <2> QED
      BY <1>3, <2>1, Bases
  <1>8. /\ block' \in Pages
        /\ Extent(block', k) = Extent(block, level) \cup Extent(c, level)
    <2>1. CASE c = block + S
      <3>1. block' = block
        BY <1>1, <1>3, <2>1
      <3>2. Extent(block, k) = Extent(block, level) \cup Extent(c, level)
        BY <1>3, <1>4, <2>1, Halves
      <3> QED
        BY <3>1, <3>2 DEF TypeOK
    <2>2. CASE c = block - S
      <3>1. block' = c /\ block = c + S
        BY <1>1, <1>3, <1>7, <2>2
      <3> HIDE DEF c
      <3>2. Extent(c, k) = Extent(c, level) \cup Extent(block, level)
        BY <1>3, <1>4, <1>7, <3>1, Halves
      <3> QED
        BY <1>7, <3>1, <3>2
    <2> QED
      BY <2>1, <2>2 DEF BuddyOf
  <1>9. InFlight = Extent(block, level) /\ InFlight' = Extent(block', k)
    BY <1>1 DEF InFlight, Extent
  <1> HIDE DEF c, k
  <1>10. HeapOk' /\ free_lists' \in [Orders -> Seq(Pages)]
    <2>1. free_lists' = [free_lists EXCEPT ![level] = t] /\ InFlight' = InFlight \cup Extent(c, level)
      BY <1>2, <1>8, <1>9 DEF t
    <2> QED
      BY <1>1, <1>3, <1>6, <1>7, <2>1, UnlistBlock DEF ghostVars
  <1>11. Held' /\ PmmInv' /\ BlockFits'
    BY <1>1, SameHeld, StutterPmmInv, SameFits DEF ghostVars
  <1>12. TypeOK'
    BY <1>1, <1>4, <1>8, <1>10 DEF TypeOK, PmmTypeOK, pmmVars, ghostVars
  <1>13. CallInv'
    BY <1>1 DEF CallInv
  <1> QED
    BY <1>10, <1>11, <1>12, <1>13

LEMMA MergeDoneInv ==
  ASSUME BuddyInv, MergeDone
  PROVE  BuddyInv'
  <1> USE DEF BuddyInv
  <1>1. /\ pc = "merge" /\ buddy_list_push(level, block) /\ Return
        /\ UNCHANGED <<pmmVars, allocated_blocks, pool_base, pool_limit, ghostVars>>
    BY DEF MergeDone
  <1>2. pc' = "idle"
    BY <1>1 DEF Return
  <1>3. InFlight = Extent(block, level) /\ InFlight' = {}
    BY <1>1, <1>2 DEF InFlight
  <1>4. block \in Pages /\ level \in Orders
    BY DEF TypeOK
  <1>5. HeapOk' /\ free_lists' \in [Orders -> Seq(Pages)] /\ hdr' \in [Pages -> Header]
    <2>1. Extent(block, level) \subseteq InFlight /\ InFlight' = InFlight \ Extent(block, level)
      BY <1>3
    <2> QED
      BY <1>1, <1>4, <2>1, ListBlock DEF ghostVars
  <1>6. Held' /\ PmmInv' /\ BlockFits'
    BY <1>1, SameHeld, StutterPmmInv, SameFits DEF ghostVars
  <1>7. 0 \in Pages /\ 0 \in Orders /\ 0 \in 0 .. MaxOrder
    BY PmmAssumption, BuddyAssumption DEF Pages, Orders
  <1>8. TypeOK'
    BY <1>1, <1>5, <1>7 DEF Return, TypeOK, PmmTypeOK, pmmVars, ghostVars
  <1>9. CallInv'
    BY <1>2 DEF CallInv
  <1> QED
    BY <1>5, <1>6, <1>8, <1>9

----------------------------------------------------------------------------
(* The rest of the machine                                                  *)

(* Headers of other pages than the bases of blocks may change.              *)
LEMMA OtherPagesTruthful ==
  ASSUME TypeOK, Truthful, UNCHANGED <<free_lists, live>>, NEW q,
         \A a \in Pages \ {q} : hdr'[a] = hdr[a],
         \A k \in Orders : q \notin Listed(k), \A l \in live : l.base # q
  PROVE  Truthful'
  <1>1. \A k \in Orders : Listed(k)' = Listed(k)
    BY DEF Listed
  <1>2. \A k \in Orders : \A a \in Listed(k) : hdr'[a] = FREE(k)
    BY Bases DEF Truthful
  <1>3. \A l \in live : hdr'[l.base] = [magic |-> "ALLOC", order |-> l.order]
    BY Bases DEF Truthful
  <1> QED
    BY <1>1, <1>2, <1>3 DEF Truthful, FREE

LEMMA ClientWritesInv ==
  ASSUME BuddyInv, NEW l \in live, NEW q \in Pages, NEW h \in ClientData, ClientWrites(l, q, h)
  PROVE  BuddyInv'
  <1> USE DEF BuddyInv
  <1>1. /\ q \in Extent(l.base, l.order) /\ q # l.base /\ hdr' = [hdr EXCEPT ![q] = h]
        /\ UNCHANGED <<pmmVars, free_lists, allocated_blocks, pool_base, pool_limit,
                       ghostVars, callVars>>
    BY DEF ClientWrites
  <1>2. h \in Header /\ hdr \in [Pages -> Header]
    BY BuddyAssumption DEF TypeOK
  <1>3. hdr' \in [Pages -> Header] /\ \A a \in Pages \ {q} : hdr'[a] = hdr[a]
    BY <1>1, <1>2
  <1>4. \A k \in Orders : q \notin Listed(k)
    BY <1>1, Bases DEF HeapOk, Apart
  <1>5. \A m \in live : m.base # q
    BY <1>1, Bases DEF HeapOk, Apart
  <1>6. Truthful'
    BY <1>1, <1>3, <1>4, <1>5, OtherPagesTruthful DEF HeapOk, ghostVars
  <1>7. InFlight' = InFlight
    BY <1>1 DEF InFlight, callVars
  <1>8. HeapOk'
    BY <1>1, <1>6, <1>7, SameBlocks DEF ghostVars
  <1>9. Held' /\ PmmInv' /\ BlockFits'
    BY <1>1, SameHeld, StutterPmmInv, SameFits DEF ghostVars
  <1>10. TypeOK'
    BY <1>1, <1>3 DEF TypeOK, PmmTypeOK, pmmVars, ghostVars, callVars
  <1>11. CallInv'
    BY <1>1 DEF CallInv, callVars
  <1> QED
    BY <1>8, <1>9, <1>10, <1>11

(* Appending to a sequence.                                                 *)
LEMMA AppendRange ==
  ASSUME NEW S, NEW s \in Seq(S), NEW x \in S
  PROVE  LET t == Append(s, x)
         IN /\ t \in Seq(S) /\ Range(t) = Range(s) \cup {x} /\ DOMAIN s = 1 .. Len(s)
            /\ DOMAIN t = 1 .. Len(s) + 1 /\ t[Len(s) + 1] = x
            /\ \A i \in 1 .. Len(s) : t[i] = s[i]
  <1> DEFINE t == Append(s, x)
             n == Len(s)
  <1>1. /\ t \in Seq(S) /\ n \in Nat /\ DOMAIN s = 1 .. n /\ DOMAIN t = 1 .. n + 1
        /\ t[n + 1] = x /\ \A i \in 1 .. n : t[i] = s[i]
    BY AppendProperties
  <1> HIDE DEF t, n
  <1>2. 1 .. n + 1 = 1 .. n \cup {n + 1}
    BY <1>1
  <1>3. Range(t) = Range(s) \cup {x}
    BY <1>1, <1>2 DEF Range
  <1> QED
    BY <1>1, <1>3 DEF t, n

LEMMA BuildInv ==
  ASSUME BuddyInv, proc_build_address_space
  PROVE  BuddyInv'
  <1> USE DEF BuddyInv
  <1> DEFINE none == [magic |-> "NONE", order |-> 0]
  <1>1. PICK i \in Pages : /\ pmm_alloc_page(i) /\ tables' = Append(tables, i)
                           /\ hdr' = [hdr EXCEPT ![i] = none]
    BY DEF proc_build_address_space
  <1>2. /\ pc \in {"idle", "build"} /\ pc' \in {"idle", "build"}
        /\ UNCHANGED <<free_lists, allocated_blocks, pool_base, pool_limit, live, pulls,
                       size, order, block, level, bit, rem, tail, p>>
    BY DEF proc_build_address_space
  <1>3. PmmInv'
    BY <1>1, AllocPageInv
  <1>4. held \subseteq pmm_bitmap /\ 0 \notin held
    BY DEF PmmInv, HeldStaysMarked
  <1>5. /\ \/ i = 0 /\ Pages \subseteq pmm_bitmap /\ UNCHANGED pmmVars
           \/ i \notin pmm_bitmap /\ i \in held' /\ i \notin held
        /\ held \subseteq held' /\ pmm_bitmap \subseteq pmm_bitmap'
    <2>1. i \in Nat
      BY PmmAssumption DEF Pages
    <2>2. i \in Run(i, 1)
      BY <2>1 DEF Run
    <2>3. CASE Pages \subseteq pmm_bitmap
      BY <1>1, <2>3 DEF pmm_alloc_page, pmmVars
    <2>4. CASE ~(Pages \subseteq pmm_bitmap)
      BY <1>1, <1>4, <2>2, <2>4 DEF pmm_alloc_page, TakeRun, IsFirst
    <2> QED
      BY <2>3, <2>4
  <1>6. i \notin PulledPages
    BY <1>4, <1>5 DEF Held
  <1>7. none \in Header /\ hdr \in [Pages -> Header]
    BY Sizes DEF TypeOK, Header
  <1>8. hdr' \in [Pages -> Header] /\ \A a \in Pages \ {i} : hdr'[a] = hdr[a]
    BY <1>1, <1>7
  <1>9. \A k \in Orders : i \notin Listed(k)
    BY <1>6, Bases DEF HeapOk, Within
  <1>10. \A l \in live : l.base # i
    BY <1>6, Bases DEF HeapOk, Within
  <1>11. Truthful'
    BY <1>2, <1>8, <1>9, <1>10, OtherPagesTruthful DEF HeapOk
  <1>12. InFlight' = InFlight
    BY <1>2 DEF InFlight
  <1>13. HeapOk'
    BY <1>2, <1>11, <1>12, SameBlocks
  <1> DEFINE n == Len(tables)
             t == Append(tables, i)
  <1>14. /\ t \in Seq(Pages) /\ Range(t) = Range(tables) \cup {i} /\ DOMAIN tables = 1 .. n
         /\ DOMAIN t = 1 .. n + 1 /\ t[n + 1] = i /\ n \in Nat
         /\ \A m \in 1 .. n : t[m] = tables[m]
    <2>1. tables \in Seq(Pages)
      BY DEF TypeOK
    <2> QED
      BY <2>1, AppendRange
  <1> HIDE DEF t, n
  <1>15. tables' = t
    BY <1>1 DEF t
  <1>16. TablesNullOnlyWhenFull'
    <2>1. ASSUME NEW m \in 1 .. n, tables[m] = i PROVE i = 0
      BY <1>4, <1>5, <1>14, <2>1 DEF Held, Range
    <2>2. ASSUME NEW m \in 1 .. n + 1, NEW r \in 1 .. n + 1, m # r, t[m] = t[r] PROVE t[m] = 0
      <3>1. (m \in 1 .. n \/ m = n + 1) /\ (r \in 1 .. n \/ r = n + 1)
        BY <1>14
      <3>2. CASE m \in 1 .. n /\ r \in 1 .. n
        BY <1>14, <2>2, <3>2 DEF Held, TablesNullOnlyWhenFull
      <3>3. CASE m \in 1 .. n /\ r = n + 1
        BY <1>14, <2>1, <2>2, <3>3
      <3>4. CASE m = n + 1 /\ r \in 1 .. n
        BY <1>14, <2>1, <2>2, <3>4
      <3> QED
        BY <2>2, <3>1, <3>2, <3>3, <3>4
    <2>3. 0 \in Range(t) => Pages \subseteq pmm_bitmap'
      <3>1. 0 \in pmm_bitmap
        BY ZeroReserved DEF PmmInv, Circulation
      <3> QED
        BY <1>5, <1>14, <3>1 DEF Held, TablesNullOnlyWhenFull
    <2> QED
      BY <1>14, <1>15, <2>2, <2>3 DEF TablesNullOnlyWhenFull
  <1>17. Held'
    <2>1. PulledPages' = PulledPages
      BY <1>2, PulledStays
    <2> QED
      BY <1>5, <1>6, <1>14, <1>15, <1>16, <2>1 DEF Held
  <1>18. BlockFits'
    BY <1>2, SameFits
  <1>19. TypeOK'
    <2>1. PmmTypeOK'
      BY <1>3 DEF PmmInv
    <2> QED
      BY <1>2, <1>8, <1>14, <1>15, <2>1 DEF TypeOK
  <1>20. CallInv'
    BY <1>2 DEF CallInv
  <1> QED
    BY <1>3, <1>13, <1>17, <1>18, <1>19, <1>20

----------------------------------------------------------------------------
(* The order kmalloc asks for                                               *)

LEMMA LeastNat ==
  ASSUME NEW T, T \subseteq Nat, T # {}
  PROVE  \E x \in T : \A y \in Nat : y < x => y \notin T
  <1> DEFINE R == OpToRel(<, Nat)
  <1>1. IsWellFoundedOn(R, Nat)
    BY NatLessThanWellFounded
  <1>2. \A x, y \in Nat : y < x => <<y, x>> \in R
    BY DEF OpToRel
  <1> HIDE DEF R
  <1>3. PICK x \in T : \A y \in T : ~ (<<y, x>> \in R)
    BY <1>1, WFMin
  <1> QED
    BY <1>2, <1>3

LEMMA Half ==
  ASSUME NEW v \in Nat, v # 0
  PROVE  v \div 2 \in Nat /\ v \div 2 < v /\ v <= 2 * (v \div 2) + 1
  OBVIOUS

(* The recursive definition of BitLength defines a function.  The functions *)
(* that satisfy it on 0 .. n exist and agree, so their union satisfies it.  *)
LEMMA BitLengthDef ==
  BitLength = [v \in Nat |-> IF v = 0 THEN 0 ELSE 1 + BitLength[v \div 2]]
  <1> DEFINE Def(f, v) == IF v = 0 THEN 0 ELSE 1 + f[v \div 2]
             Upto(f, n) == f = [v \in 0 .. n |-> Def(f, v)]
  <1>1. ASSUME NEW n \in Nat PROVE \E f : Upto(f, n)
    <2> DEFINE T == {m \in Nat : ~ \E f : Upto(f, m)}
    <2> SUFFICES ASSUME n \in T PROVE FALSE
      OBVIOUS
    <2>1. PICK x \in T : \A y \in Nat : y < x => y \notin T
      <3>1. T \subseteq Nat /\ T # {}
        OBVIOUS
      <3> HIDE DEF T
      <3> QED
        BY <3>1, LeastNat
    <2>2. x \in Nat /\ ~ \E f : Upto(f, x)
      OBVIOUS
    <2>3. CASE x = 0
      <3> DEFINE g == [v \in 0 .. 0 |-> 0]
      <3>1. g = [v \in 0 .. 0 |-> Def(g, v)]
        OBVIOUS
      <3> HIDE DEF g
      <3> QED
        BY <2>2, <2>3, <3>1
    <2>4. CASE x # 0
      <3>1. x - 1 \in Nat /\ x - 1 < x
        BY <2>2, <2>4
      <3>2. PICK f : Upto(f, x - 1)
        BY <2>1, <3>1
      <3> DEFINE h == [v \in 0 .. x |-> IF v = x THEN Def(f, x) ELSE f[v]]
      <3>3. ASSUME NEW v \in 0 .. x PROVE h[v] = Def(h, v)
        <4>1. CASE v = 0
          <5>1. 0 \in 0 .. x - 1 /\ v # x
            BY <3>1, <4>1, <2>4
          <5>2. h[v] = f[0] /\ f[0] = 0
            BY <3>2, <4>1, <5>1
          <5> QED
            BY <4>1, <5>2
        <4>2. CASE v # 0
          <5>1. v \in Nat /\ v \div 2 \in Nat /\ v \div 2 < v
            BY <2>2, <4>2, Half
          <5>2. v \div 2 \in 0 .. x /\ v \div 2 # x
            BY <2>2, <5>1
          <5>3. h[v \div 2] = f[v \div 2]
            BY <5>2
          <5>4. CASE v = x
            BY <4>2, <5>3, <5>4
          <5>5. CASE v # x
            <6>1. v \in 0 .. x - 1
              BY <2>2, <5>5
            <6>2. f[v] = Def(f, v)
              BY <3>2, <6>1
            <6> QED
              BY <4>2, <5>3, <5>5, <6>2
          <5> QED
            BY <5>4, <5>5
        <4> QED
          BY <4>1, <4>2
      <3>4. h = [v \in 0 .. x |-> Def(h, v)]
        BY <3>3
      <3> HIDE DEF h
      <3> QED
        BY <2>2, <3>4
    <2> QED
      BY <2>3, <2>4
  <1>2. ASSUME NEW m \in Nat, NEW n \in Nat, NEW f, NEW g, Upto(f, m), Upto(g, n),
               NEW v \in Nat, v <= m, v <= n
        PROVE  f[v] = g[v]
    <2> DEFINE T == {u \in Nat : u <= m /\ u <= n /\ f[u] # g[u]}
    <2> SUFFICES ASSUME v \in T PROVE FALSE
      BY <1>2
    <2>1. PICK x \in T : \A y \in Nat : y < x => y \notin T
      <3>1. T \subseteq Nat /\ T # {}
        OBVIOUS
      <3> HIDE DEF T
      <3> QED
        BY <3>1, LeastNat
    <2>2. x \in Nat /\ x \in 0 .. m /\ x \in 0 .. n /\ f[x] # g[x]
      OBVIOUS
    <2>3. f[x] = Def(f, x) /\ g[x] = Def(g, x)
      BY <1>2, <2>2
    <2>4. x # 0
      BY <2>2, <2>3
    <2>5. x \div 2 \in Nat /\ x \div 2 < x
      BY <2>2, <2>4, Half
    <2>6. f[x \div 2] = g[x \div 2]
      BY <2>1, <2>2, <2>5
    <2> QED
      BY <2>2, <2>3, <2>6
  <1> DEFINE F(n) == CHOOSE f : Upto(f, n)
             g == [v \in Nat |-> F(v)[v]]
  <1>3. \A n \in Nat : Upto(F(n), n)
    <2> HIDE DEF Upto
    <2> QED
      BY <1>1
  <1> HIDE DEF F
  <1>4. ASSUME NEW v \in Nat PROVE g[v] = Def(g, v)
    <2>1. F(v)[v] = Def(F(v), v)
      <3>1. v \in 0 .. v
        OBVIOUS
      <3> QED
        BY <1>3, <3>1
    <2>2. CASE v = 0
      BY <2>1, <2>2
    <2>3. CASE v # 0
      <3> DEFINE w == v \div 2
      <3>1. w \in Nat /\ w <= v /\ w <= w
        BY <2>3, Half
      <3>2. F(v)[w] = F(w)[w]
        <4> HIDE DEF w, Upto
        <4> QED
          BY <1>2, <1>3, <3>1
      <3> QED
        BY <2>1, <2>3, <3>1, <3>2
    <2> QED
      BY <2>2, <2>3
  <1>5. g = [v \in Nat |-> Def(g, v)]
    BY <1>4
  <1> HIDE DEF g
  <1>6. \E f : f = [v \in Nat |-> Def(f, v)]
    BY <1>5
  <1>7. BitLength = CHOOSE f : f = [v \in Nat |-> Def(f, v)]
    BY DEF BitLength
  <1> QED
    BY <1>6, <1>7

(* A number is less than two to its number of bits.                         *)
LEMMA BitLengthFits ==
  ASSUME NEW n \in Nat
  PROVE  BitLength[n] \in Nat /\ (BitLength[n] <= MaxOrder => n + 1 <= Size[BitLength[n]])
  <1> DEFINE Ok(m) == BitLength[m] \in Nat /\ (BitLength[m] <= MaxOrder => m + 1 <= Size[BitLength[m]])
             T == {m \in Nat : ~Ok(m)}
  <1> SUFFICES ASSUME n \in T PROVE FALSE
    OBVIOUS
  <1>1. PICK x \in T : \A y \in Nat : y < x => y \notin T
    <2>1. T \subseteq Nat /\ T # {}
      OBVIOUS
    <2> HIDE DEF T
    <2> QED
      BY <2>1, LeastNat
  <1>2. x \in Nat /\ ~Ok(x) /\ \A y \in Nat : y < x => Ok(y)
    BY <1>1
  <1>3. BitLength[x] = IF x = 0 THEN 0 ELSE 1 + BitLength[x \div 2]
    BY <1>2, BitLengthDef
  <1>4. CASE x = 0
    <2>1. BitLength[x] = 0 /\ Size[0] = 1
      BY <1>3, <1>4, BuddyAssumption
    <2> QED
      BY <1>2, <1>4, <2>1
  <1>5. CASE x # 0
    <2> DEFINE w == x \div 2
               k == BitLength[w]
    <2>1. w \in Nat /\ w < x /\ x <= 2 * w + 1
      BY <1>2, <1>5, Half
    <2>2. BitLength[x] = 1 + k
      BY <1>3, <1>5
    <2>3. Ok(w)
      BY <1>2, <2>1
    <2>4. k \in Nat /\ (k <= MaxOrder => w + 1 <= Size[k])
      BY <2>3
    <2> HIDE DEF k, w
    <2>5. ASSUME 1 + k <= MaxOrder PROVE x + 1 <= Size[1 + k]
      <3>1. MaxOrder \in Nat /\ k <= MaxOrder /\ k \in Orders /\ 1 + k \in Orders /\ 1 + k > 0 /\ (1 + k) - 1 = k
        BY <2>4, <2>5, Sizes DEF Orders
      <3>2. Size[1 + k] = Size[k] + Size[k] /\ Size[k] \in Nat
        BY <3>1, Sizes
      <3> QED
        BY <1>2, <2>1, <2>4, <3>1, <3>2
    <2>6. 1 + k \in Nat
      BY <2>4
    <2>7. Ok(x)
      BY <2>2, <2>5, <2>6
    <2> QED
      BY <1>2, <2>7
  <1> QED
    BY <1>4, <1>5

LEMMA OrderForFits ==
  ASSUME NEW n \in Nat, n <= Size[MaxOrder]
  PROVE  OrderFor(n) \in Orders /\ n <= Size[OrderFor(n)]
  <1> DEFINE k == IF n > 1 THEN BitLength[n - 1] ELSE 0
  <1>0. MaxOrder \in Nat /\ MaxOrder \in Orders /\ 0 \in Orders /\ Size[0] = 1
    BY Sizes, BuddyAssumption
  <1>1. k \in Nat /\ (k <= MaxOrder => n <= Size[k])
    <2>1. CASE n > 1
      <3> DEFINE m == n - 1
      <3>1. m \in Nat /\ m + 1 = n
        BY <2>1
      <3> HIDE DEF m
      <3>2. BitLength[m] \in Nat /\ (BitLength[m] <= MaxOrder => m + 1 <= Size[BitLength[m]])
        BY <3>1, BitLengthFits
      <3>3. k = BitLength[m]
        BY <2>1 DEF m
      <3> HIDE DEF k
      <3> QED
        BY <3>1, <3>2, <3>3
    <2>2. CASE ~(n > 1)
      BY <1>0, <2>2
    <2> QED
      BY <2>1, <2>2
  <1>2. OrderFor(n) = IF k > MaxOrder THEN MaxOrder ELSE k
    BY DEF OrderFor
  <1> HIDE DEF k
  <1>3. CASE k > MaxOrder
    BY <1>0, <1>2, <1>3
  <1>4. CASE ~(k > MaxOrder)
    BY <1>0, <1>1, <1>2, <1>4 DEF Orders
  <1> QED
    BY <1>3, <1>4

(* Rounding up to pages loses no byte.                                      *)
LEMMA RoundUp ==
  ASSUME NEW x \in Nat, NEW P \in Nat \ {0}
  PROVE  (x + P - 1) \div P \in Nat /\ \A s \in Nat : (x + P - 1) \div P <= s => x <= s * P
  <1>1. PICK a \in Nat : a = x + P - 1
    OBVIOUS
  <1>2. PICK q \in Nat : q = a \div P
    OBVIOUS
  <1>3. a < (q + 1) * P
    BY <1>2
  <1>4. ASSUME NEW s \in Nat, q <= s PROVE x <= s * P
    <2>1. q * P <= s * P
      BY <1>4
    <2>2. (q + 1) * P = q * P + P /\ q * P \in Nat /\ s * P \in Nat
      OBVIOUS
    <2> QED
      BY <1>1, <1>3, <2>1, <2>2
  <1> QED
    BY <1>1, <1>2, <1>4

(* Below the bound of Fits neither the sums nor the page count wrap.        *)
LEMMA NoWrap ==
  ASSUME NEW n \in Nat, n + HeaderSize <= (Uint32 - 1) * PageSize
  PROVE  PagesFor(n) = (n + HeaderSize + PageSize - 1) \div PageSize
  <1>1. /\ HeaderSize \in Nat /\ PageSize \in Nat \ {0} /\ SizeT \in Nat \ {0} /\ Uint32 \in Nat \ {0}
        /\ Uint32 * PageSize <= SizeT
    BY BuddyAssumption, PmmAssumption
  <1>2. PICK a \in Nat : a = n + HeaderSize + PageSize - 1
    BY <1>1
  <1>3. (Uint32 - 1) * PageSize + PageSize = Uint32 * PageSize /\ Uint32 * PageSize \in Nat
    BY <1>1
  <1>4. a < Uint32 * PageSize
    BY <1>1, <1>2, <1>3
  <1>5. a % SizeT = a
    BY <1>1, <1>3, <1>4
  <1>6. PICK q \in Nat : q = a \div PageSize /\ q * PageSize <= a
    BY <1>1
  <1>7. q < Uint32
    <2>1. ASSUME q >= Uint32 PROVE FALSE
      <3>1. q * PageSize >= Uint32 * PageSize
        BY <1>1, <2>1
      <3> QED
        BY <1>1, <1>3, <1>4, <1>6, <3>1
    <2> QED
      BY <1>1, <2>1
  <1>8. q % Uint32 = q
    BY <1>1, <1>7
  <1> QED
    BY <1>2, <1>5, <1>6, <1>8 DEF PagesFor

LEMMA kmallocInv ==
  ASSUME BuddyInv, NEW n \in Requests, kmalloc(n)
  PROVE  BuddyInv'
  <1> USE DEF BuddyInv
  <1>1. /\ pc = "idle" /\ PagesFor(n) <= Size[MaxOrder] /\ pc' = "get" /\ size' = n
        /\ order' = OrderFor(PagesFor(n)) /\ order' \in Orders
        /\ UNCHANGED <<pmmVars, heapVars, ghostVars, block, level, bit, rem, tail, p>>
    BY DEF kmalloc
  <1>2. n \in Nat /\ HeaderSize \in Nat /\ PageSize \in Nat \ {0} /\ n + HeaderSize \in Nat
    BY BuddyAssumption, PmmAssumption
  <1>3. Fits(n, order')
    <2> SUFFICES ASSUME n + HeaderSize <= (Uint32 - 1) * PageSize
                 PROVE  n + HeaderSize <= Size[order'] * PageSize
      BY DEF Fits
    <2> DEFINE x == n + HeaderSize
               q == PagesFor(n)
    <2>1. q = (x + PageSize - 1) \div PageSize
      BY <1>2, NoWrap DEF q, x
    <2>2. x \in Nat
      BY <1>2
    <2> HIDE DEF x, q
    <2>3. q \in Nat /\ \A s \in Nat : q <= s => x <= s * PageSize
      BY <1>2, <2>1, <2>2, RoundUp
    <2>4. q <= Size[OrderFor(q)] /\ OrderFor(q) \in Orders
      BY <1>1, <2>3, OrderForFits DEF q
    <2>5. Size[OrderFor(q)] \in Nat
      BY <2>4, Sizes
    <2>6. order' = OrderFor(q)
      BY <1>1 DEF q
    <2> QED
      BY <2>3, <2>4, <2>5, <2>6 DEF x
  <1>4. InFlight' = InFlight
    BY <1>1 DEF InFlight
  <1>5. Truthful'
    BY <1>1 DEF HeapOk, Truthful, Listed, heapVars, ghostVars, FREE
  <1>6. HeapOk'
    BY <1>1, <1>4, <1>5, SameBlocks DEF heapVars, ghostVars
  <1>7. Held' /\ PmmInv' /\ BlockFits'
    BY <1>1, SameHeld, StutterPmmInv, SameFits DEF ghostVars
  <1>8. TypeOK'
    BY <1>1, <1>2 DEF TypeOK, PmmTypeOK, pmmVars, heapVars, ghostVars
  <1>9. CallInv'
    BY <1>1, <1>3 DEF CallInv
  <1> QED
    BY <1>6, <1>7, <1>8, <1>9

----------------------------------------------------------------------------
(* The invariant                                                            *)

LEMMA InitBuddyInv == Init => BuddyInv
  <1> SUFFICES ASSUME Init PROVE BuddyInv
    OBVIOUS
  <1> USE DEF Init, buddy_init
  <1>1. PmmInv
    BY InitPmmInv
  <1>2. 0 \in Pages /\ 0 \in Orders /\ 0 \in 0 .. MaxOrder
    BY PmmAssumption, BuddyAssumption DEF Pages, Orders
  <1>3. TypeOK
    <2>1. PmmTypeOK
      BY <1>1 DEF PmmInv
    <2>2. hdr \in [Pages -> Header]
      BY BuddyAssumption
    <2> QED
      BY <1>2, <2>1, <2>2 DEF TypeOK
  <1>4. InFlight = {} /\ PulledPages = {} /\ \A k \in Orders : Listed(k) = {}
    BY DEF InFlight, PulledPages, Listed, Range
  <1>5. HeapOk
    <2>1. \A k \in Orders : IsInjective(free_lists[k])
      BY DEF IsInjective
    <2> QED
      BY <1>4, <2>1 DEF HeapOk, Apart, Truthful, Within, Accounted
  <1>6. Held
    BY <1>4 DEF Held, TablesNullOnlyWhenFull, Range
  <1>7. CallInv /\ BlockFits
    BY DEF CallInv, BlockFits
  <1> QED
    BY <1>1, <1>3, <1>5, <1>6, <1>7 DEF BuddyInv

LEMMA StutterBuddyInv ==
  ASSUME BuddyInv, UNCHANGED vars
  PROVE  BuddyInv'
  <1> USE DEF BuddyInv
  <1>1. UNCHANGED <<pmmVars, heapVars, ghostVars, callVars>>
    BY DEF vars
  <1>2. InFlight' = InFlight
    BY <1>1 DEF InFlight, callVars
  <1>3. Truthful'
    BY <1>1 DEF HeapOk, Truthful, Listed, heapVars, ghostVars, FREE
  <1>4. HeapOk'
    BY <1>1, <1>2, <1>3, SameBlocks DEF heapVars, ghostVars
  <1>5. Held' /\ PmmInv' /\ BlockFits'
    BY <1>1, SameHeld, StutterPmmInv, SameFits DEF ghostVars
  <1>6. TypeOK'
    BY <1>1 DEF TypeOK, PmmTypeOK, pmmVars, heapVars, ghostVars, callVars
  <1>7. CallInv'
    BY <1>1 DEF CallInv, callVars
  <1> QED
    BY <1>4, <1>5, <1>6, <1>7

LEMMA NextBuddyInv == BuddyInv /\ [Next]_vars => BuddyInv'
  <1> SUFFICES ASSUME BuddyInv, [Next]_vars PROVE BuddyInv'
    OBVIOUS
  <1>1. ASSUME NEW n \in Requests, kmalloc(n) PROVE BuddyInv'
    BY <1>1, kmallocInv
  <1>2. ASSUME NEW l \in live, kfree(l) PROVE BuddyInv'
    BY <1>2, kfreeInv
  <1>3. ASSUME NEW l \in live, NEW q \in Pages, NEW h \in ClientData, ClientWrites(l, q, h)
        PROVE  BuddyInv'
    BY <1>3, ClientWritesInv
  <1>4. CASE proc_build_address_space
    BY <1>4, BuildInv
  <1>5. CASE CallStep
    BY <1>5, PopSmallestInv, SplitDownInv, PullInv, OutOfMemoryInv, HeadSlackInv, HeadDoneInv,
       TailSlackInv, TailDoneInv, GrantInv, MergeUpInv, MergeDoneInv DEF CallStep
  <1>6. CASE UNCHANGED vars
    BY <1>6, StutterBuddyInv
  <1> QED
    BY <1>1, <1>2, <1>3, <1>4, <1>5, <1>6 DEF Next

LEMMA BuddyInvHolds == Spec => []BuddyInv
  BY InitBuddyInv, NextBuddyInv, PTL DEF Spec

----------------------------------------------------------------------------
(* The theorems                                                             *)

(* A free block is a member of the list of its order.                       *)
LEMMA FreeBlock ==
  ASSUME TypeOK
  PROVE  /\ \A x \in FreeBlocks : x[2] \in Orders /\ x[1] \in Listed(x[2])
         /\ \A x, y \in FreeBlocks : x # y => x[1] # y[1] \/ x[2] # y[2]
         /\ \A k \in Orders : \A a \in Listed(k) :
              \E x \in FreeBlocks : x[1] = a /\ x[2] = k
  <1>1. \A x \in FreeBlocks : x[2] \in Orders /\ x[1] \in Listed(x[2])
    BY DEF FreeBlocks, Listed
  <1>2. \A x, y \in FreeBlocks : x # y => x[1] # y[1] \/ x[2] # y[2]
    BY DEF FreeBlocks
  <1>3. ASSUME NEW k \in Orders, NEW a \in Listed(k)
        PROVE  \E x \in FreeBlocks : x[1] = a /\ x[2] = k
    <2>1. a \in Pages
      BY Bases
    <2>2. <<a, k>> \in FreeBlocks
      BY <2>1 DEF FreeBlocks, Listed
    <2> QED
      BY <2>2
  <1> QED
    BY <1>1, <1>2, <1>3

LEMMA InvGivesNoOverlap ==
  ASSUME BuddyInv
  PROVE  NoOverlap
  <1> USE DEF BuddyInv, HeapOk
  <1>1. /\ \A k \in Orders : IsInjective(free_lists[k])
        /\ \A l, m \in live : l # m => Extent(l.base, l.order) \cap Extent(m.base, m.order) = {}
        /\ \A l \in live : Extent(l.base, l.order) \cap InFlight = {}
    BY DEF Apart
  <1>2. \A x, y \in FreeBlocks : x # y => Extent(x[1], x[2]) \cap Extent(y[1], y[2]) = {}
    BY FreeBlock DEF Apart
  <1>3. \A x \in FreeBlocks, l \in live : Extent(x[1], x[2]) \cap Extent(l.base, l.order) = {}
    BY FreeBlock DEF Apart
  <1>4. \A x \in FreeBlocks : Extent(x[1], x[2]) \cap InFlight = {}
    BY FreeBlock DEF Apart
  <1> QED
    BY <1>1, <1>2, <1>3, <1>4 DEF NoOverlap

(* No page ever has two owners among the free lists, the clients and the    *)
(* call that is splitting, carving or merging, whatever the sequence of     *)
(* kmalloc and kfree and whatever memory held before (buddy.c:29-128).      *)
THEOREM NoPageHasTwoOwners == Spec => [](TypeOK /\ NoOverlap)
  <1>1. BuddyInv => TypeOK /\ NoOverlap
    BY InvGivesNoOverlap DEF BuddyInv
  <1> QED
    BY <1>1, BuddyInvHolds, PTL

(* The heap uses only pages the pmm gave it and never a page of the page    *)
(* tables, although kfree believes headers it reads from memory it may not  *)
(* own: the walk of the list is what saves it (buddy.c:199-220).            *)
THEOREM HeapKeepsToItsPages == Spec => []HeapWithinPulled
  <1>1. ASSUME BuddyInv PROVE HeapWithinPulled
    <2> USE <1>1 DEF BuddyInv, HeapOk
    <2>1. \A x \in FreeBlocks : Extent(x[1], x[2]) \subseteq PulledPages
      BY FreeBlock DEF Within
    <2> QED
      BY <2>1 DEF Within, Held, HeapWithinPulled
  <1> QED
    BY <1>1, BuddyInvHolds, PTL

(* The page tables of the process are different pages unless memory is      *)
(* exhausted, when they are NULL (proc.c:47-49).                            *)
THEOREM TablesAreDifferentPages == Spec => []TablesNullOnlyWhenFull
  <1>1. BuddyInv => TablesNullOnlyWhenFull
    BY DEF BuddyInv, Held
  <1> QED
    BY <1>1, BuddyInvHolds, PTL

(* Every page ever pulled from the pmm stays listed, with a client or in    *)
(* the hands of the call in progress: the loops over the bits of the slack  *)
(* lay out all of it (buddy.c:109-128).                                     *)
THEOREM NoPageIsLost == Spec => []NoPageLost
  <1>1. ASSUME BuddyInv PROVE NoPageLost
    <2> USE <1>1 DEF BuddyInv, HeapOk
    <2> SUFFICES ASSUME NEW q \in PulledPages
                 PROVE  \/ \E x \in FreeBlocks : q \in Extent(x[1], x[2])
                        \/ \E l \in live : q \in Extent(l.base, l.order)
                        \/ q \in InFlight
      BY DEF NoPageLost
    <2>1. ASSUME NEW k \in Orders, NEW a \in Listed(k), q \in Extent(a, k)
          PROVE  \E x \in FreeBlocks : q \in Extent(x[1], x[2])
      BY <2>1, FreeBlock
    <2> QED
      BY <2>1 DEF Accounted
  <1> QED
    BY <1>1, BuddyInvHolds, PTL

(* The header of a listed block names its list, and kfree accepts every     *)
(* block a client holds, with the order it was given (buddy.c:170, 191).    *)
THEOREM HeadersStayTruthful == Spec => []HeadersTruthful
  <1>1. ASSUME BuddyInv PROVE HeadersTruthful
    <2> USE <1>1 DEF BuddyInv, HeapOk
    <2>1. \A x \in FreeBlocks : hdr[x[1]] = FREE(x[2])
      BY FreeBlock DEF Truthful
    <2> QED
      BY <2>1 DEF Truthful, HeadersTruthful
  <1> QED
    BY <1>1, BuddyInvHolds, PTL

(* Whatever size was asked for, the block has room for it and its header:   *)
(* counting the bits of the page count, less one, never gives an order too  *)
(* small (buddy.c:148-163).                                                 *)
THEOREM BlocksAreLargeEnough == Spec => []BlockFits
  <1>1. BuddyInv => BlockFits
    BY DEF BuddyInv
  <1> QED
    BY <1>1, BuddyInvHolds, PTL

----------------------------------------------------------------------------
(* What the clients see is HeapSpec                                         *)

Owned == {Extent(l.base, l.order) : l \in live}

LEMMA InitMaps == Init => H!HInit
  <1> SUFFICES ASSUME Init PROVE Owned = {} /\ Range(tables) = {}
    BY DEF H!HInit, Owned
  <1> QED
    BY DEF Init, Owned, Range

LEMMA SameOwners ==
  ASSUME UNCHANGED <<live, tables>>
  PROVE  UNCHANGED H!hvars
  BY DEF H!hvars, Extent, Range

LEMMA GrantMaps ==
  ASSUME BuddyInv, Grant
  PROVE  H!Allocate
  <1> USE DEF BuddyInv, HeapOk
  <1> DEFINE new == [base |-> block, order |-> order, size |-> size]
             n == Size[order]
             S == block .. block + n - 1
  <1>1. pc = "split" /\ level = order /\ live' = live \cup {new} /\ tables' = tables
    BY DEF Grant
  <1>2. block \in Nat /\ order \in Orders /\ n \in Nat /\ n >= 1 /\ NPages \in Nat
    BY Bases, Sizes, PmmAssumption DEF TypeOK
  <1>3. S = Extent(block, order) /\ InFlight = S
    BY <1>1 DEF InFlight, Extent, Run
  <1>4. S \subseteq Pages /\ 0 \notin S
    BY <1>3, InFlightPages
  <1>5. block \in 1 .. NPages - 1 /\ n \in 1 .. NPages /\ block + n <= NPages
    <2>1. block \in S /\ block + n - 1 \in S
      BY <1>2
    <2>2. block \in Pages /\ block + n - 1 \in Pages /\ block # 0
      BY <1>4, <2>1
    <2> QED
      BY <1>2, <2>2 DEF Pages
  <1>6. S \cap Range(tables) = {}
    BY <1>3 DEF Within, Held
  <1>7. \A T \in Owned : S \cap T = {}
    BY <1>3 DEF Apart, Owned
  <1>8. Owned' = Owned \cup {S}
    <2>1. new.base = block /\ new.order = order
      OBVIOUS
    <2> HIDE DEF new, S, n
    <2>2. \A T : T \in Owned' <=> T \in Owned \/ T = Extent(new.base, new.order)
      BY <1>1 DEF Owned, Extent
    <2> QED
      BY <1>3, <2>1, <2>2
  <1>9. Range(tables)' = Range(tables)
    BY <1>1 DEF Range
  <1> HIDE DEF n
  <1> QED
    BY <1>5, <1>6, <1>7, <1>8, <1>9 DEF H!Allocate, Owned

LEMMA kfreeMaps ==
  ASSUME BuddyInv, NEW l \in live, kfree(l)
  PROVE  H!Free
  <1> USE DEF BuddyInv, HeapOk
  <1> DEFINE S == Extent(l.base, l.order)
  <1>1. live' = live \ {l} /\ tables' = tables
    BY DEF kfree
  <1>2. \A m \in live : m # l => Extent(m.base, m.order) # S
    BY Bases DEF Apart
  <1>3. S \in Owned
    BY DEF Owned
  <1>4. Owned' = Owned \ {S}
    <2> HIDE DEF S
    <2>1. \A T : T \in Owned' <=> T \in Owned /\ T # S
      <3>1. \A T : T \in Owned' <=> \E m \in live : m # l /\ T = Extent(m.base, m.order)
        BY <1>1 DEF Owned, Extent
      <3>2. \A T : T \in Owned /\ T # S <=> \E m \in live : m # l /\ T = Extent(m.base, m.order)
        BY <1>2 DEF Owned, S
      <3> QED
        BY <3>1, <3>2
    <2> QED
      BY <2>1
  <1>5. Range(tables)' = Range(tables)
    BY <1>1 DEF Range
  <1> QED
    BY <1>3, <1>4, <1>5 DEF H!Free, Owned

LEMMA BuildMaps ==
  ASSUME BuddyInv, proc_build_address_space
  PROVE  H!TakePage
  <1> USE DEF BuddyInv, HeapOk
  <1>1. PICK i \in Pages : pmm_alloc_page(i) /\ tables' = Append(tables, i)
    BY DEF proc_build_address_space
  <1>2. live' = live
    BY DEF proc_build_address_space
  <1>3. i \notin PulledPages
    <2>1. held \subseteq pmm_bitmap /\ 0 \notin held
      BY DEF PmmInv, HeldStaysMarked
    <2>2. i = 0 \/ i \notin pmm_bitmap
      BY <1>1 DEF pmm_alloc_page, IsFirst
    <2> QED
      BY <2>1, <2>2 DEF Held
  <1>4. \A T \in Owned : i \notin T
    BY <1>3 DEF Within, Owned
  <1>5. Range(tables)' = Range(tables) \cup {i}
    <2>1. tables \in Seq(Pages)
      BY DEF TypeOK
    <2>2. Range(Append(tables, i)) = Range(tables) \cup {i}
      BY <2>1, AppendRange
    <2> QED
      BY <1>1, <2>2
  <1>6. Owned' = Owned
    BY <1>2 DEF Owned, Extent
  <1>7. i \in 0 .. NPages - 1
    BY DEF Pages
  <1> QED
    BY <1>4, <1>5, <1>6, <1>7 DEF H!TakePage, Owned

LEMMA NextMaps == BuddyInv /\ [Next]_vars => [H!HNext]_(H!hvars)
  <1> SUFFICES ASSUME BuddyInv, [Next]_vars PROVE H!HNext \/ UNCHANGED H!hvars
    OBVIOUS
  <1>1. ASSUME NEW n \in Requests, kmalloc(n) PROVE UNCHANGED <<live, tables>>
    BY <1>1 DEF kmalloc, ghostVars
  <1>2. ASSUME NEW l \in live, kfree(l) PROVE H!HNext
    BY <1>2, kfreeMaps DEF H!HNext
  <1>3. ASSUME NEW l \in live, NEW q \in Pages, NEW h \in ClientData, ClientWrites(l, q, h)
        PROVE  UNCHANGED <<live, tables>>
    BY <1>3 DEF ClientWrites, ghostVars
  <1>4. CASE proc_build_address_space
    BY <1>4, BuildMaps DEF H!HNext
  <1>5. CASE Grant
    BY <1>5, GrantMaps DEF H!HNext
  <1>6. CASE PopSmallest \/ SplitDown \/ Pull \/ OutOfMemory \/ HeadSlack \/ HeadDone
             \/ TailSlack \/ TailDone \/ MergeUp \/ MergeDone
    <2>1. UNCHANGED <<live, tables>>
      BY <1>6 DEF PopSmallest, SplitDown, Pull, OutOfMemory, HeadSlack, HeadDone, TailSlack,
                  TailDone, MergeUp, MergeDone, ghostVars
    <2> QED
      BY <2>1, SameOwners
  <1>7. CASE UNCHANGED vars
    BY <1>7, SameOwners DEF vars, ghostVars
  <1> QED
    BY <1>1, <1>2, <1>3, <1>4, <1>5, <1>6, <1>7, SameOwners DEF Next, CallStep

(* The heap implements HeapSpec: kmalloc hands out a run of whole pages     *)
(* that nobody has and that is not page 0, kfree gives back exactly the     *)
(* block it is called for, and nothing else changes what clients hold.      *)
THEOREM HeapIsImplemented == Spec => ImplementsHeapSpec
  BY InitMaps, NextMaps, BuddyInvHolds, PTL DEF Spec, ImplementsHeapSpec, H!HSpec

----------------------------------------------------------------------------
(* heap_stats                                                               *)

LEMMA DisjointCount ==
  ASSUME NEW A, NEW B, IsFiniteSet(A), IsFiniteSet(B), A \cap B = {}
  PROVE  /\ IsFiniteSet(A \cup B) /\ Cardinality(A \cup B) = Cardinality(A) + Cardinality(B)
         /\ Cardinality(A) \in Nat /\ Cardinality(B) \in Nat
  <1>1. IsFiniteSet(A \cup B) /\ Cardinality(A \cup B) = Cardinality(A) + Cardinality(B) - Cardinality(A \cap B)
    BY FS_Union
  <1>2. Cardinality(A \cap B) = 0 /\ Cardinality(A) \in Nat /\ Cardinality(B) \in Nat
    BY FS_EmptySet, FS_CardinalityType
  <1> QED
    BY <1>1, <1>2

(* The counter is the number of blocks clients hold.                        *)
Counted == IsFiniteSet(live) /\ allocated_blocks = Cardinality(live)

LEMMA NextCounted == BuddyInv /\ Counted /\ [Next]_vars => Counted'
  <1> SUFFICES ASSUME BuddyInv, Counted, [Next]_vars PROVE Counted'
    OBVIOUS
  <1> USE DEF Counted
  <1>1. ASSUME UNCHANGED <<live, allocated_blocks>> PROVE Counted'
    BY <1>1
  <1>2. ASSUME NEW l \in live, kfree(l) PROVE Counted'
    <2>0. hdr[l.base] = [magic |-> "ALLOC", order |-> l.order]
      BY DEF BuddyInv, HeapOk, Truthful
    <2>1. hdr[l.base].magic = "ALLOC"
      BY <2>0
    <2>2. live' = live \ {l} /\ allocated_blocks' = allocated_blocks - 1
      BY <1>2, <2>1 DEF kfree
    <2> QED
      BY <2>2, FS_RemoveElement
  <1>3. CASE Grant
    <2> DEFINE new == [base |-> block, order |-> order, size |-> size]
    <2>1. live' = live \cup {new} /\ allocated_blocks' = allocated_blocks + 1 /\ pc = "split" /\ level = order
      BY <1>3 DEF Grant
    <2>2. block \in InFlight
      <3>1. block \in Nat /\ level \in Orders
        BY Bases DEF BuddyInv, TypeOK
      <3> QED
        BY <2>1, <3>1, ExtentHasBase DEF InFlight
    <2>3. \A l \in live : l.base # block
      BY <2>2, Bases DEF BuddyInv, HeapOk, Apart
    <2>4. new \notin live
      BY <2>3
    <2> HIDE DEF new
    <2> QED
      BY <2>1, <2>4, FS_AddElement
  <1>4. ASSUME NEW n \in Requests, kmalloc(n) PROVE Counted'
    BY <1>1, <1>4 DEF kmalloc, heapVars, ghostVars
  <1>5. ASSUME NEW l \in live, NEW q \in Pages, NEW h \in ClientData, ClientWrites(l, q, h)
        PROVE  Counted'
    BY <1>1, <1>5 DEF ClientWrites, ghostVars
  <1>6. CASE proc_build_address_space
    BY <1>1, <1>6 DEF proc_build_address_space
  <1>7. CASE PopSmallest \/ SplitDown \/ Pull \/ OutOfMemory \/ HeadSlack \/ HeadDone
             \/ TailSlack \/ TailDone \/ MergeUp \/ MergeDone
    <2>1. UNCHANGED <<live, allocated_blocks>>
      BY <1>7 DEF PopSmallest, SplitDown, Pull, OutOfMemory, HeadSlack, HeadDone, TailSlack,
                  TailDone, MergeUp, MergeDone, heapVars, ghostVars
    <2> QED
      BY <1>1, <2>1
  <1>8. CASE UNCHANGED vars
    BY <1>1, <1>8 DEF vars, heapVars, ghostVars
  <1> QED
    BY <1>2, <1>3, <1>4, <1>5, <1>6, <1>7, <1>8 DEF Next, CallStep

LEMMA CountedHolds == Spec => []Counted
  <1>1. Init => Counted
    BY FS_EmptySet DEF Init, buddy_init, Counted
  <1> QED
    BY <1>1, NextCounted, BuddyInvHolds, PTL DEF Spec

(* The pages on the list of order k, and on all lists below order k.        *)
PagesOn(k) == {q \in Pages : \E a \in Listed(k) : q \in Extent(a, k)}
PagesBelow(k) == {q \in Pages : \E j \in Orders : j < k /\ q \in PagesOn(j)}

(* One list: its blocks have the same size and do not overlap.              *)
LEMMA CountList ==
  ASSUME BuddyInv, NEW k \in Orders
  PROVE  IsFiniteSet(PagesOn(k)) /\ Cardinality(PagesOn(k)) = Len(free_lists[k]) * Size[k]
  <1> USE DEF BuddyInv, HeapOk
  <1> DEFINE s == free_lists[k]
             S == Size[k]
             N == Len(s)
             First(n) == {q \in Pages : \E i \in 1 .. n : q \in Extent(s[i], k)}
             Ok(n) == IsFiniteSet(First(n)) /\ Cardinality(First(n)) = n * S
             T == {n \in 0 .. N : ~Ok(n)}
  <1>1. /\ s \in Seq(Pages) /\ N \in Nat /\ DOMAIN s = 1 .. N /\ S \in Nat /\ S >= 1
        /\ Listed(k) = {s[i] : i \in 1 .. N}
    <2>1. s \in Seq(Pages)
      BY DEF TypeOK
    <2>2. N \in Nat /\ DOMAIN s = 1 .. N
      BY <2>1
    <2>3. S \in Nat /\ S >= 1
      BY Sizes
    <2> QED
      BY <2>1, <2>2, <2>3 DEF Listed, Range
  <1>2. \A i, j \in 1 .. N : i # j => s[i] # s[j] /\ Extent(s[i], k) \cap Extent(s[j], k) = {}
    <2>1. \A i, j \in 1 .. N : i # j => s[i] # s[j]
      BY <1>1 DEF Apart, IsInjective
    <2> QED
      BY <1>1, <2>1 DEF Apart
  <1>3. \A i \in 1 .. N : /\ Extent(s[i], k) \subseteq Pages /\ IsFiniteSet(Extent(s[i], k))
                          /\ Cardinality(Extent(s[i], k)) = S
    <2> SUFFICES ASSUME NEW i \in 1 .. N
                 PROVE  /\ Extent(s[i], k) \subseteq Pages /\ IsFiniteSet(Extent(s[i], k))
                        /\ Cardinality(Extent(s[i], k)) = S
      OBVIOUS
    <2>1. s[i] \in Listed(k)
      BY <1>1
    <2>2. Extent(s[i], k) \subseteq Pages
      BY <2>1, InFlightPages DEF Within
    <2> DEFINE a == s[i]
               b == a + S - 1
    <2>3. a \in Int /\ b \in Int /\ ~(a > b) /\ b - a + 1 = S
      <3>1. a \in Nat
        BY <2>1, Bases
      <3> HIDE DEF a, S
      <3> QED
        BY <1>1, <3>1
    <2>4. Extent(s[i], k) = a .. b
      BY DEF Extent, Run
    <2> HIDE DEF a, b, S
    <2>5. IsFiniteSet(a .. b) /\ Cardinality(a .. b) = S
      BY <2>3, FS_Interval
    <2> QED
      BY <2>2, <2>4, <2>5
  <1> HIDE DEF s, S, N
  <1>4. T = {}
    <2> SUFFICES ASSUME T # {} PROVE FALSE
      OBVIOUS
    <2>1. PICK x \in T : \A y \in Nat : y < x => y \notin T
      <3>1. T \subseteq Nat
        BY <1>1
      <3> HIDE DEF T
      <3> QED
        BY <3>1, LeastNat
    <2>2. x \in 0 .. N /\ x \in Nat /\ ~Ok(x)
      BY <1>1
    <2>3. CASE x = 0
      <3>1. First(0) = {}
        OBVIOUS
      <3>2. Cardinality(First(0)) = 0 /\ IsFiniteSet(First(0))
        BY <3>1, FS_EmptySet
      <3>3. 0 * S = 0
        BY <1>1
      <3> QED
        BY <2>2, <2>3, <3>2, <3>3
    <2>4. CASE x # 0
      <3> DEFINE y == x - 1
                 E == Extent(s[x], k)
      <3>1. y \in 0 .. N /\ y \in Nat /\ y < x /\ x \in 1 .. N /\ x = y + 1
        BY <1>1, <2>2, <2>4
      <3>2. Ok(y)
        BY <2>1, <3>1
      <3>3. First(x) = First(y) \cup E
        <4>1. \A i : i \in 1 .. x <=> i \in 1 .. y \/ i = x
          BY <3>1
        <4> HIDE DEF y
        <4> QED
          BY <1>3, <3>1, <4>1
      <3>4. First(y) \cap E = {}
        <4>1. \A i \in 1 .. y : i \in 1 .. N /\ i # x
          BY <1>1, <3>1
        <4> HIDE DEF y
        <4> QED
          BY <1>2, <3>1, <4>1
      <3>5. IsFiniteSet(E) /\ Cardinality(E) = S
        BY <1>3, <3>1
      <3> HIDE DEF y, E
      <3>6. IsFiniteSet(First(x)) /\ Cardinality(First(x)) = y * S + S
        <4> HIDE DEF First
        <4> QED
          BY <3>2, <3>3, <3>4, <3>5, DisjointCount
      <3>7. y * S + S = x * S
        BY <1>1, <3>1
      <3> QED
        BY <2>2, <3>6, <3>7
    <2> QED
      BY <2>3, <2>4
  <1>5. Ok(N)
    <2>1. N \in 0 .. N
      BY <1>1
    <2> QED
      BY <1>4, <2>1
  <1>6. First(N) = PagesOn(k)
    BY <1>1 DEF PagesOn
  <1> QED
    BY <1>5, <1>6 DEF s, S, N

(* All lists: blocks of different orders do not overlap either.             *)
LEMMA CountBelow ==
  ASSUME BuddyInv, NEW k \in 1 .. MaxOrder + 1, IsFiniteSet(PagesBelow(k - 1))
  PROVE  /\ IsFiniteSet(PagesBelow(k))
         /\ Cardinality(PagesBelow(k)) = Cardinality(PagesBelow(k - 1)) + Len(free_lists[k - 1]) * Size[k - 1]
  <1> DEFINE j == k - 1
  <1>1. j \in Orders /\ j \in Nat /\ \A i \in Orders : i < k <=> i < j \/ i = j
    BY Sizes DEF Orders
  <1>2. \A i \in Orders : i < j => i # j
    BY <1>1, Sizes
  <1>3. IsFiniteSet(PagesBelow(j))
    OBVIOUS
  <1> HIDE DEF j
  <1>4. PagesBelow(k) = PagesBelow(j) \cup PagesOn(j)
    BY <1>1 DEF PagesBelow, PagesOn
  <1>5. PagesBelow(j) \cap PagesOn(j) = {}
    BY <1>1, <1>2 DEF PagesBelow, PagesOn, BuddyInv, HeapOk, Apart
  <1>6. IsFiniteSet(PagesOn(j)) /\ Cardinality(PagesOn(j)) = Len(free_lists[j]) * Size[j]
    BY <1>1, CountList
  <1>7. /\ IsFiniteSet(PagesBelow(k))
        /\ Cardinality(PagesBelow(k)) = Cardinality(PagesBelow(j)) + Cardinality(PagesOn(j))
    BY <1>3, <1>4, <1>5, <1>6, DisjointCount
  <1> QED
    BY <1>6, <1>7 DEF j

(* What heap_stats adds up is the number of pages on the lists.             *)
LEMMA StatsCount ==
  ASSUME BuddyInv
  PROVE  FreePagesBelow[MaxOrder + 1] = Cardinality(PagesBelow(MaxOrder + 1))
  <1> DEFINE M == MaxOrder + 1
             Def(g, k) == IF k = 0 THEN 0 ELSE g[k - 1] + Len(free_lists[k - 1]) * Size[k - 1]
             c == [k \in 0 .. M |-> Cardinality(PagesBelow(k))]
  <1>0. M \in Nat
    BY Sizes
  <1>1. PagesBelow(0) = {}
    BY Sizes DEF PagesBelow
  <1>2. \A k \in 0 .. M : IsFiniteSet(PagesBelow(k))
    <2> SUFFICES ASSUME NEW k \in 0 .. M PROVE IsFiniteSet(PagesBelow(k))
      OBVIOUS
    <2>1. PagesBelow(k) \in SUBSET Pages
      BY DEF PagesBelow
    <2> QED
      BY <2>1, PagesFinite
  <1>3. ASSUME NEW k \in 0 .. M PROVE c[k] = Def(c, k)
    <2>1. CASE k = 0
      BY <1>1, <2>1, FS_EmptySet
    <2>2. CASE k # 0
      <3>1. k \in 1 .. MaxOrder + 1 /\ k - 1 \in 0 .. M
        BY <1>0, <2>2
      <3>2. Cardinality(PagesBelow(k)) = Cardinality(PagesBelow(k - 1)) + Len(free_lists[k - 1]) * Size[k - 1]
        BY <1>2, <3>1, CountBelow
      <3> QED
        BY <2>2, <3>1, <3>2
    <2> QED
      BY <2>1, <2>2
  <1>4. c = [k \in 0 .. M |-> Def(c, k)]
    BY <1>3
  <1> HIDE DEF c
  <1>5. \E g : g = [k \in 0 .. M |-> Def(g, k)]
    BY <1>4
  <1>6. FreePagesBelow = CHOOSE g : g = [k \in 0 .. M |-> Def(g, k)]
    BY DEF FreePagesBelow
  <1>7. FreePagesBelow = [k \in 0 .. M |-> Def(FreePagesBelow, k)]
    BY <1>5, <1>6
  <1> DEFINE f == FreePagesBelow
             T == {k \in 0 .. M : f[k] # c[k]}
  <1> HIDE DEF f
  <1>8. T = {}
    <2> SUFFICES ASSUME T # {} PROVE FALSE
      OBVIOUS
    <2>1. PICK x \in T : \A y \in Nat : y < x => y \notin T
      <3>1. T \subseteq Nat
        BY <1>0
      <3> HIDE DEF T
      <3> QED
        BY <3>1, LeastNat
    <2>2. x \in 0 .. M /\ x \in Nat /\ f[x] # c[x]
      BY <1>0
    <2>3. f[x] = Def(f, x) /\ c[x] = Def(c, x)
      BY <1>4, <1>7, <2>2 DEF f
    <2>4. x # 0
      BY <2>2, <2>3
    <2>5. x - 1 \in 0 .. M /\ x - 1 \in Nat /\ x - 1 < x
      BY <1>0, <2>2, <2>4
    <2>6. f[x - 1] = c[x - 1]
      BY <2>1, <2>5
    <2> QED
      BY <2>2, <2>3, <2>4, <2>6
  <1>9. M \in 0 .. M
    BY <1>0
  <1>10. f[M] = c[M]
    BY <1>8, <1>9
  <1> QED
    BY <1>9, <1>10 DEF f, c

(* The largest order is -1 exactly when the lists are empty.                *)
LEMMA LargestOrderEmpty ==
  ASSUME BuddyInv
  PROVE  (LargestOrder = -1) <=> (FreeBlocks = {})
  <1> DEFINE Some(k) == k \in Orders /\ free_lists[k] # <<>>
  <1>1. FreeBlocks = {} <=> \A k \in Orders : free_lists[k] = <<>>
    <2>1. ASSUME NEW k \in Orders PROVE free_lists[k] = <<>> <=> Listed(k) = {}
      <3>1. free_lists[k] \in Seq(Pages)
        BY DEF BuddyInv, TypeOK
      <3>2. free_lists[k] # <<>> => Head(free_lists[k]) \in Listed(k)
        BY <3>1, PopList DEF BuddyInv, HeapOk, Apart, Listed
      <3>3. free_lists[k] = <<>> => Listed(k) = {}
        BY DEF Listed, Range
      <3> QED
        BY <3>2, <3>3
    <2>2. FreeBlocks = {} <=> \A k \in Orders : Listed(k) = {}
      BY FreeBlock DEF BuddyInv
    <2> QED
      BY <2>1, <2>2
  <1>2. CASE \A k \in Orders : free_lists[k] = <<>>
    BY <1>1, <1>2 DEF LargestOrder
  <1>3. CASE ~ \A k \in Orders : free_lists[k] = <<>>
    <2> DEFINE Top(k) == /\ free_lists[k] # <<>>
                         /\ \A j \in Orders : j > k => free_lists[j] = <<>>
               T == {d \in Nat : Some(MaxOrder - d)}
    <2>1. PICK k \in Orders : free_lists[k] # <<>>
      BY <1>3
    <2>2. MaxOrder - k \in Nat /\ MaxOrder - (MaxOrder - k) = k
      BY Sizes DEF Orders
    <2>3. MaxOrder - k \in T
      BY <2>1, <2>2
    <2>4. PICK d \in T : \A y \in Nat : y < d => y \notin T
      <3>1. T \subseteq Nat /\ T # {}
        BY <2>3
      <3> HIDE DEF T
      <3> QED
        BY <3>1, LeastNat
    <2>5. Top(MaxOrder - d)
      <3>1. ASSUME NEW j \in Orders, j > MaxOrder - d PROVE free_lists[j] = <<>>
        <4>1. MaxOrder - j \in Nat /\ MaxOrder - j < d /\ MaxOrder - (MaxOrder - j) = j
          BY <3>1, Sizes DEF Orders
        <4>2. MaxOrder - j \notin T
          BY <2>4, <4>1
        <4> QED
          BY <4>1, <4>2
      <3> QED
        BY <3>1
    <2>6. LargestOrder = CHOOSE j \in Orders : Top(j)
      BY <1>3 DEF LargestOrder
    <2>7. \E j \in Orders : Top(j)
      BY <2>5
    <2> HIDE DEF Top
    <2>8. LargestOrder \in Orders
      BY <2>6, <2>7
    <2>9. -1 \notin Orders
      BY Sizes
    <2> QED
      BY <1>1, <1>3, <2>8, <2>9
  <1> QED
    BY <1>2, <1>3

(* Between calls the counter is the number of blocks clients hold and the   *)
(* free pages heap_stats reports are the pages pulled that no client holds: *)
(* the sum over lists counts every free page once (buddy.c:174, 196,        *)
(* 229-254).                                                                *)
THEOREM StatsAreExact == Spec => []HeapStatsExact
  <1>1. ASSUME BuddyInv, Counted PROVE HeapStatsExact
    <2> SUFFICES ASSUME pc = "idle" PROVE
                   /\ allocated_blocks = Cardinality(live)
                   /\ FreePagesBelow[MaxOrder + 1] =
                        Cardinality(PulledPages) - Cardinality(UNION {Extent(l.base, l.order) : l \in live})
                   /\ (LargestOrder = -1) <=> (FreeBlocks = {})
      BY DEF HeapStatsExact
    <2> DEFINE F == PagesBelow(MaxOrder + 1)
               L == UNION {Extent(l.base, l.order) : l \in live}
    <2>1. InFlight = {}
      BY DEF InFlight
    <2>2. PulledPages \subseteq Pages
      BY <1>1, InFlightPages
    <2>3. \A k \in Orders : k < MaxOrder + 1
      BY Sizes DEF Orders
    <2>4. PulledPages = F \cup L /\ F \cap L = {}
      <3>1. F \subseteq PulledPages /\ L \subseteq PulledPages
        BY <1>1 DEF BuddyInv, HeapOk, Within, PagesBelow, PagesOn
      <3>2. PulledPages \subseteq F \cup L
        BY <1>1, <2>1, <2>2, <2>3 DEF BuddyInv, HeapOk, Accounted, PagesBelow, PagesOn
      <3>3. F \cap L = {}
        BY <1>1 DEF BuddyInv, HeapOk, Apart, PagesBelow, PagesOn
      <3> QED
        BY <3>1, <3>2, <3>3
    <2>5. IsFiniteSet(F) /\ IsFiniteSet(L)
      <3> HIDE DEF F, L
      <3>1. F \in SUBSET Pages /\ L \in SUBSET Pages
        BY <2>2, <2>4
      <3> QED
        BY <3>1, PagesFinite
    <2>6. FreePagesBelow[MaxOrder + 1] = Cardinality(F)
      BY <1>1, StatsCount
    <2>7. Cardinality(PulledPages) - Cardinality(L) = Cardinality(F)
      <3> HIDE DEF F, L
      <3>1. /\ Cardinality(F \cup L) = Cardinality(F) + Cardinality(L)
            /\ Cardinality(F) \in Nat /\ Cardinality(L) \in Nat
        BY <2>4, <2>5, DisjointCount
      <3> QED
        BY <2>4, <3>1
    <2> QED
      BY <1>1, <2>6, <2>7, LargestOrderEmpty DEF Counted
  <1> QED
    BY <1>1, BuddyInvHolds, CountedHolds, PTL

----------------------------------------------------------------------------
(* Rejoining                                                                *)

Aligned(b, k) == b % Size[k] = 0

(* The run a pull took and the aligned block in it.                         *)
RunOf(r) == Run(r.run, 2 * Size[r.order] - 1)
BlockOf(r) == Extent(r.base, r.order)

(* The slack loops have a cursor aligned to the bits left to look at.       *)
Low == IF bit < order THEN bit ELSE order

AllAligned ==
  /\ \A k \in Orders : \A a \in Listed(k) : Aligned(a, k)
  /\ \A l \in live : Aligned(l.base, l.order)
  /\ \A r \in pulls : Aligned(r.base, r.order)
  /\ pc \in {"split", "merge", "head", "tail"} => Aligned(block, level)
  /\ pc \in {"head", "tail"} => Aligned(p, Low) /\ rem < Size[Low]
  /\ pc = "head" => tail < Size[order]

(* The pull whose slack is being laid out is not in the pool yet.           *)
Settled(r) == ~(pc \in {"head", "tail"} /\ r.base = block /\ r.order = order)

PullsInPool ==
  /\ \A r \in pulls : BlockOf(r) \subseteq RunOf(r)
  /\ \A r, s \in pulls : r # s => RunOf(r) \cap RunOf(s) = {}
  /\ \A r \in pulls : Settled(r) =>
       pool_base # 0 /\ pool_base <= r.base /\ r.base + Size[r.order] <= pool_limit
  /\ pc \in {"head", "tail"} =>
       \E r \in pulls : r.base = block /\ r.order = order /\ InFlight \subseteq RunOf(r)

(* Two halves of a block inside an aligned block are never both listed.     *)
Siblings ==
  \A r \in pulls : \A k \in Orders : k < r.order =>
    \A a \in Listed(k) : Extent(a, k) \subseteq BlockOf(r) => BuddyOf(a, k) \notin Listed(k)

RejoinInv == AllAligned /\ PullsInPool /\ Siblings

(* Multiples                                                                *)
LEMMA Mult ==
  ASSUME NEW S \in Nat, S >= 1
  PROVE  /\ \A x, y \in Int : x <= y => x * S <= y * S
         /\ \A x, y \in Int : x * S < y * S => x < y
         /\ \A x \in Int : (x + 1) * S = x * S + S /\ (x - 1) * S = x * S - S /\ x * S \in Int
         /\ \A x, y \in Int : (x + y) * S = x * S + y * S
         /\ \A x, y \in Int : (x * y) * S = x * (y * S)
  <1>1. \A x, y \in Int : x <= y => x * S <= y * S
    OBVIOUS
  <1>2. \A x, y \in Int : x * S < y * S => x < y
    OBVIOUS
  <1>3. \A x \in Int : (x + 1) * S = x * S + S /\ (x - 1) * S = x * S - S /\ x * S \in Int
    OBVIOUS
  <1>4. \A x, y \in Int : (x + y) * S = x * S + y * S
    OBVIOUS
  <1>5. \A x, y \in Int : (x * y) * S = x * (y * S)
    OBVIOUS
  <1> QED
    BY <1>1, <1>2, <1>3, <1>4, <1>5

LEMMA MultDiv ==
  ASSUME NEW S \in Nat, S >= 1, NEW m \in Nat, NEW b \in Nat, b = m * S
  PROVE  b % S = 0 /\ b \div S = m
  OBVIOUS

LEMMA AlignedMult ==
  ASSUME NEW b \in Nat, NEW k \in Orders
  PROVE  Aligned(b, k) <=> \E m \in Nat : b = m * Size[k]
  <1> DEFINE S == Size[k]
  <1>1. S \in Nat /\ S >= 1
    BY Sizes
  <1> HIDE DEF S
  <1>2. ASSUME b % S = 0 PROVE \E m \in Nat : b = m * S
    <2>1. PICK q \in Nat : q = b \div S
      BY <1>1
    <2>2. q * S <= b /\ b < (q + 1) * S
      BY <1>1, <2>1
    <2>3. PICK d \in Nat : b = q * S + d
      BY <1>1, <2>2
    <2>4. d < S
      BY <1>1, <2>2, <2>3
    <2>5. d = b % S
      BY <1>1, <2>3, <2>4
    <2> QED
      BY <1>1, <1>2, <2>3, <2>5
  <1>3. ASSUME NEW m \in Nat, b = m * S PROVE b % S = 0
    BY <1>1, <1>3, MultDiv
  <1> QED
    BY <1>2, <1>3 DEF Aligned, S

(* A larger block is a whole number of smaller ones.                        *)
LEMMA SizeMult ==
  ASSUME NEW j \in Orders, NEW k \in Orders, j <= k
  PROVE  \E q \in Nat : Size[k] = q * Size[j]
  <1> DEFINE S == Size[j]
             Ok(i) == \E q \in Nat : Size[i] = q * S
             T == {i \in Orders : j <= i /\ ~Ok(i)}
  <1>1. S \in Nat /\ S >= 1
    BY Sizes
  <1> SUFFICES ASSUME k \in T PROVE FALSE
    OBVIOUS
  <1>2. PICK x \in T : \A y \in Nat : y < x => y \notin T
    <2>1. T \subseteq Nat /\ T # {}
      BY Sizes
    <2> HIDE DEF T
    <2> QED
      BY <2>1, LeastNat
  <1>3. x \in Orders /\ x \in Nat /\ j \in Nat /\ j <= x /\ ~Ok(x)
    BY Sizes
  <1>4. x # j
    <2>1. S = 1 * S
      BY <1>1
    <2> QED
      BY <1>3, <2>1
  <1>5. x > 0 /\ x - 1 \in Nat /\ x - 1 < x /\ j <= x - 1
    BY <1>3, <1>4
  <1>6. x - 1 \in Orders /\ Size[x] = Size[x - 1] + Size[x - 1]
    BY <1>3, <1>5, Sizes
  <1>7. Ok(x - 1)
    BY <1>2, <1>5, <1>6
  <1>8. PICK q \in Nat : Size[x - 1] = q * S
    BY <1>7
  <1>9. q * S + q * S = (q + q) * S /\ q + q \in Nat
    <2> HIDE DEF S
    <2> QED
      BY <1>1
  <1>10. Size[x] = (q + q) * S
    BY <1>6, <1>8, <1>9
  <1> QED
    BY <1>3, <1>9, <1>10

LEMMA CoarseAligned ==
  ASSUME NEW b \in Nat, NEW j \in Orders, NEW k \in Orders, j <= k, Aligned(b, k)
  PROVE  Aligned(b, j)
  <1>1. PICK m \in Nat : b = m * Size[k]
    BY AlignedMult
  <1>2. PICK q \in Nat : Size[k] = q * Size[j]
    BY SizeMult
  <1> DEFINE S == Size[j]
  <1>3. S \in Nat
    BY Sizes
  <1> HIDE DEF S
  <1>4. m * (q * S) = (m * q) * S /\ m * q \in Nat
    BY <1>3
  <1>5. b = (m * q) * S
    BY <1>1, <1>2, <1>4 DEF S
  <1> QED
    BY <1>4, <1>5, AlignedMult DEF S

LEMMA NextAligned ==
  ASSUME NEW b \in Nat, NEW k \in Orders, Aligned(b, k)
  PROVE  /\ b + Size[k] \in Nat /\ Aligned(b + Size[k], k)
         /\ b >= Size[k] => b - Size[k] \in Nat /\ Aligned(b - Size[k], k)
  <1> DEFINE S == Size[k]
  <1>1. S \in Nat /\ S >= 1
    BY Sizes
  <1>2. PICK m \in Nat : b = m * S
    BY AlignedMult
  <1> HIDE DEF S
  <1>3. (m + 1) * S = m * S + S /\ (m - 1) * S = m * S - S
    BY <1>1
  <1>4. b + S \in Nat /\ b + S = (m + 1) * S /\ m + 1 \in Nat
    BY <1>1, <1>2, <1>3
  <1>5. ASSUME b >= S PROVE b - S \in Nat /\ b - S = (m - 1) * S /\ m - 1 \in Nat
    <2>1. m # 0
      BY <1>1, <1>2, <1>5
    <2> QED
      BY <1>1, <1>2, <1>3, <1>5, <2>1
  <1>6. Aligned(b + S, k)
    <2> DEFINE c == b + S
    <2>1. c \in Nat /\ \E n \in Nat : c = n * S
      BY <1>4
    <2> HIDE DEF c
    <2>2. Aligned(c, k)
      BY <2>1, AlignedMult DEF S
    <2> QED
      BY <2>2 DEF c
  <1>7. ASSUME b >= S PROVE Aligned(b - S, k)
    <2> DEFINE c == b - S
    <2>1. c \in Nat /\ \E n \in Nat : c = n * S
      BY <1>5, <1>7
    <2> HIDE DEF c
    <2>2. Aligned(c, k)
      BY <2>1, AlignedMult DEF S
    <2> QED
      BY <2>2 DEF c
  <1> QED
    BY <1>4, <1>5, <1>6, <1>7 DEF S

(* Aligned blocks that meet are nested.                                     *)
LEMMA Nested ==
  ASSUME NEW a \in Nat, NEW b \in Nat, NEW j \in Orders, NEW k \in Orders, j <= k,
         Aligned(a, j), Aligned(b, k), NEW x, x \in Extent(a, j), x \in Extent(b, k)
  PROVE  Extent(a, j) \subseteq Extent(b, k)
  <1> DEFINE S == Size[j]
             Q == Size[k]
  <1>1. S \in Nat /\ S >= 1 /\ Q \in Nat
    BY Sizes
  <1>2. PICK m \in Nat : a = m * S
    BY AlignedMult
  <1>3. PICK n \in Nat : b = n * Q
    BY AlignedMult
  <1>4. PICK q \in Nat : Q = q * S
    BY SizeMult
  <1>5. x \in Int /\ a <= x /\ x < a + S /\ b <= x /\ x < b + Q
    BY <1>1 DEF Extent, Run
  <1> HIDE DEF S, Q
  <1>6. PICK u \in Nat : u = n * q
    OBVIOUS
  <1>7. b = u * S
    BY <1>1, <1>3, <1>4, <1>6, Mult
  <1>8. b + Q = (u + q) * S /\ a + S = (m + 1) * S
    BY <1>1, <1>2, <1>4, <1>7, Mult
  <1>9. m < u + q
    <2>1. m * S < (u + q) * S
      BY <1>1, <1>2, <1>5, <1>8
    <2>2. m \in Int /\ u + q \in Int
      OBVIOUS
    <2> QED
      BY <1>1, <2>1, <2>2, Mult
  <1>10. u < m + 1
    <2>1. u * S < (m + 1) * S
      BY <1>1, <1>5, <1>7, <1>8
    <2>2. u \in Int /\ m + 1 \in Int
      OBVIOUS
    <2> QED
      BY <1>1, <2>1, <2>2, Mult
  <1>11. u * S <= m * S
    <2>1. u <= m
      BY <1>10
    <2> QED
      BY <1>1, <2>1, Mult
  <1>12. (m + 1) * S <= (u + q) * S
    <2>1. m + 1 <= u + q /\ m + 1 \in Int /\ u + q \in Int
      BY <1>9
    <2> QED
      BY <1>1, <2>1, Mult
  <1>13. b <= a /\ a + S <= b + Q
    BY <1>2, <1>7, <1>8, <1>11, <1>12
  <1> QED
    BY <1>1, <1>13 DEF Extent, Run, S, Q

LEMMA SameBlock ==
  ASSUME NEW a \in Nat, NEW b \in Nat, NEW k \in Orders,
         Aligned(a, k), Aligned(b, k), NEW x, x \in Extent(a, k), x \in Extent(b, k)
  PROVE  a = b
  <1>1. k <= k /\ Size[k] \in Nat
    BY Sizes
  <1>2. Extent(a, k) \subseteq Extent(b, k) /\ Extent(b, k) \subseteq Extent(a, k)
    BY <1>1, Nested
  <1>3. a \in Extent(b, k) /\ b \in Extent(a, k)
    BY <1>2, ExtentHasBase
  <1> QED
    BY <1>1, <1>3 DEF Extent, Run

(* A block and its buddy are the halves of an aligned block.                *)
LEMMA BuddyHalves ==
  ASSUME NEW b \in Nat, NEW k \in Orders, k < MaxOrder, Aligned(b, k)
  PROVE  LET c == BuddyOf(b, k)
             h == IF c < b THEN c ELSE b
         IN /\ c \in Nat /\ Aligned(c, k) /\ BuddyOf(c, k) = b /\ k + 1 \in Orders /\ h \in Nat
            /\ Aligned(h, k + 1) /\ Extent(h, k + 1) = Extent(b, k) \cup Extent(c, k)
  <1> DEFINE S == Size[k]
             c == BuddyOf(b, k)
             K == k + 1
             h == IF c < b THEN c ELSE b
  <1>1. S \in Nat /\ S >= 1 /\ K \in Orders /\ K > 0 /\ K - 1 = k /\ k \in Nat
    BY Sizes DEF Orders
  <1>2. Size[K] = S + S
    BY <1>1, Sizes
  <1>3. PICK m \in Nat : b = m * S
    BY AlignedMult
  <1>4. c = IF (b \div S) % 2 = 0 THEN b + S ELSE b - S
    BY DEF BuddyOf
  <1> HIDE DEF S, c
  <1>5. b \div S = m
    BY <1>1, <1>3, MultDiv
  <1>6. CASE m % 2 = 0
    <2>1. c = b + S /\ c = (m + 1) * S /\ m + 1 \in Nat /\ c \in Nat
      BY <1>1, <1>3, <1>4, <1>5, <1>6
    <2>2. c \div S = m + 1 /\ (m + 1) % 2 # 0
      <3>1. c \div S = m + 1
        BY <1>1, <2>1, MultDiv
      <3> QED
        BY <1>6, <3>1
    <2>3. BuddyOf(c, k) = b
      <3>1. BuddyOf(c, k) = IF (c \div S) % 2 = 0 THEN c + S ELSE c - S
        BY DEF BuddyOf, S
      <3> QED
        BY <1>1, <2>1, <2>2, <3>1
    <2>4. PICK i \in Nat : m = i + i
      BY <1>6
    <2>5. b = i * Size[K]
      <3>1. (i + i) * S = i * (S + S)
        BY <1>1
      <3> QED
        BY <1>2, <1>3, <2>4, <3>1
    <2>6. h = b
      BY <1>1, <2>1
    <2> HIDE DEF K
    <2>7. Aligned(h, K) /\ Aligned(c, k)
      <3>1. Aligned(b, K)
        BY <1>1, <2>5, AlignedMult
      <3>2. Aligned(c, k)
        BY <2>1, AlignedMult DEF S
      <3> QED
        BY <2>6, <3>1, <3>2
    <2>8. Extent(b, K) = Extent(b, k) \cup Extent(c, k)
      BY <1>1, <2>1, Halves DEF S
    <2> HIDE DEF h
    <2>9. h \in Nat /\ Extent(h, K) = Extent(b, k) \cup Extent(c, k)
      BY <2>6, <2>8
    <2> QED
      BY <1>1, <2>1, <2>3, <2>7, <2>9 DEF K, h, c
  <1>7. CASE m % 2 # 0
    <2>1. c = b - S /\ c = (m - 1) * S /\ m - 1 \in Nat /\ b = c + S /\ c \in Nat
      <3>1. m # 0
        BY <1>7
      <3> QED
        BY <1>1, <1>3, <1>4, <1>5, <1>7, <3>1
    <2>2. c \div S = m - 1 /\ (m - 1) % 2 = 0
      <3>1. c \div S = m - 1
        BY <1>1, <2>1, MultDiv
      <3> QED
        BY <1>7, <3>1
    <2>3. BuddyOf(c, k) = b
      <3>1. BuddyOf(c, k) = IF (c \div S) % 2 = 0 THEN c + S ELSE c - S
        BY DEF BuddyOf, S
      <3> QED
        BY <1>1, <2>1, <2>2, <3>1
    <2>4. PICK i \in Nat : m - 1 = i + i
      <3>1. \A n \in Nat : n % 2 = 0 => \E i \in Nat : n = i + i
        OBVIOUS
      <3> QED
        BY <2>1, <2>2, <3>1
    <2>5. c = i * Size[K]
      <3>1. (i + i) * S = i * (S + S)
        BY <1>1
      <3> QED
        BY <1>2, <2>1, <2>4, <3>1
    <2>6. h = c /\ c \in Nat
      BY <1>1, <2>1
    <2> HIDE DEF K
    <2>7. Aligned(c, K) /\ Aligned(c, k)
      <3>1. Aligned(c, K)
        BY <1>1, <2>5, <2>6, AlignedMult
      <3>2. Aligned(c, k)
        BY <2>1, <2>6, AlignedMult DEF S
      <3> QED
        BY <3>1, <3>2
    <2>8. Extent(c, K) = Extent(c, k) \cup Extent(b, k)
      BY <1>1, <2>1, <2>6, Halves DEF S
    <2> HIDE DEF h
    <2>9. h \in Nat /\ Aligned(h, K) /\ Extent(h, K) = Extent(b, k) \cup Extent(c, k)
      BY <2>6, <2>7, <2>8
    <2> QED
      BY <1>1, <2>1, <2>3, <2>7, <2>9 DEF K, h, c
  <1> QED
    BY <1>6, <1>7

----------------------------------------------------------------------------
(* The steps keep RejoinInv                                                 *)

LEMMA PullTypes ==
  ASSUME BuddyInv
  PROVE  \A r \in pulls : r.run \in Nat /\ r.base \in Nat /\ r.base \in Pages /\ r.order \in Orders
  BY Bases DEF BuddyInv, TypeOK

(* Lists only get shorter.                                                  *)
LEMMA SiblingsShrink ==
  ASSUME Siblings, pulls' = pulls, \A k \in Orders : Listed(k)' \subseteq Listed(k)
  PROVE  Siblings'
  BY DEF Siblings, BlockOf, Extent, BuddyOf

(* A block is listed whose buddy, if both are inside one aligned block, is  *)
(* not.                                                                     *)
LEMMA SiblingsPush ==
  ASSUME BuddyInv, AllAligned, Siblings, pulls' = pulls,
         NEW k \in Orders, NEW x \in Nat, Aligned(x, k),
         Listed(k)' = Listed(k) \cup {x}, \A j \in Orders \ {k} : Listed(j)' = Listed(j),
         \A r \in pulls : k < r.order /\ Extent(x, k) \subseteq BlockOf(r) => BuddyOf(x, k) \notin Listed(k)
  PROVE  Siblings'
  <1> SUFFICES ASSUME NEW r \in pulls, NEW j \in Orders, j < r.order, NEW a \in Listed(j)',
                      Extent(a, j) \subseteq BlockOf(r), BuddyOf(a, j) \in Listed(j)'
               PROVE  FALSE
    BY DEF Siblings, BlockOf, Extent, BuddyOf
  <1>1. CASE j # k
    BY <1>1 DEF Siblings
  <1>2. CASE j = k
    <2> DEFINE c == BuddyOf(a, k)
    <2>1. a \in Nat /\ Aligned(a, k)
      BY <1>2, Bases DEF BuddyInv, AllAligned
    <2>2. k < MaxOrder /\ r.order \in Orders /\ r.base \in Nat /\ Aligned(r.base, r.order)
      BY <1>2, PullTypes, Sizes DEF Orders, AllAligned
    <2> DEFINE h == IF c < a THEN c ELSE a
               K == k + 1
    <2>3. /\ c \in Nat /\ Aligned(c, k) /\ BuddyOf(c, k) = a /\ K \in Orders /\ h \in Nat
          /\ Aligned(h, K) /\ Extent(h, K) = Extent(a, k) \cup Extent(c, k)
      BY <2>1, <2>2, BuddyHalves
    <2>4. K <= r.order
      BY <1>2, <2>2, Sizes DEF Orders
    <2> HIDE DEF c, h, K
    <2>5. Extent(c, k) \subseteq BlockOf(r)
      <3>1. a \in Extent(a, k)
        BY <2>1, ExtentHasBase
      <3>2. a \in Extent(h, K) /\ a \in Extent(r.base, r.order)
        BY <1>2, <2>3, <3>1 DEF BlockOf
      <3>3. Extent(h, K) \subseteq Extent(r.base, r.order)
        BY <2>2, <2>3, <2>4, <3>2, Nested
      <3> QED
        BY <2>3, <3>3 DEF BlockOf
    <2>6. a # c
      <3> DEFINE S == Size[k]
      <3>1. S \in Nat /\ S >= 1 /\ c \in {a + S, a - S}
        BY Sizes DEF c, BuddyOf
      <3> HIDE DEF S
      <3> QED
        BY <2>1, <3>1
    <2>7. c \in Listed(k)'
      BY <1>2 DEF c
    <2>8. CASE a = x
      <3>1. c \in Listed(k)
        BY <2>6, <2>7, <2>8
      <3> QED
        BY <1>2, <2>8, <3>1 DEF c
    <2>9. CASE c = x
      <3>1. a \in Listed(k)
        BY <1>2, <2>6, <2>9
      <3> QED
        BY <1>2, <2>3, <2>5, <2>9, <3>1
    <2>10. CASE a # x /\ c # x
      <3>1. a \in Listed(k) /\ c \in Listed(k)
        BY <1>2, <2>7, <2>10
      <3> QED
        BY <1>2, <3>1 DEF Siblings, c
    <2> QED
      BY <2>8, <2>9, <2>10
  <1> QED
    BY <1>1, <1>2

(* What push does to the lists.                                             *)
LEMMA PushListed ==
  ASSUME TypeOK, NEW k \in Orders, NEW x \in Pages, buddy_list_push(k, x)
  PROVE  Listed(k)' = Listed(k) \cup {x} /\ \A j \in Orders \ {k} : Listed(j)' = Listed(j)
  <1>1. free_lists[k] \in Seq(Pages) /\ free_lists \in [Orders -> Seq(Pages)]
    BY DEF TypeOK
  <1> DEFINE t == <<x>> \o free_lists[k]
  <1>2. Range(t) = Range(free_lists[k]) \cup {x}
    BY <1>1, PushList
  <1>3. free_lists' = [free_lists EXCEPT ![k] = t]
    BY DEF buddy_list_push
  <1> HIDE DEF t
  <1> QED
    BY <1>1, <1>2, <1>3 DEF Listed

(* Nothing that RejoinInv speaks of changes but the position.               *)
LEMMA SameRejoin ==
  ASSUME RejoinInv, UNCHANGED <<free_lists, live, pulls, pool_base, pool_limit>>,
         pc \notin {"head", "tail"}, pc' \notin {"split", "merge", "head", "tail"}
  PROVE  RejoinInv'
  <1>1. \A k \in Orders : Listed(k)' = Listed(k)
    BY DEF Listed
  <1>2. Siblings'
    BY <1>1, SiblingsShrink DEF RejoinInv
  <1>3. AllAligned'
    BY <1>1 DEF RejoinInv, AllAligned, Aligned
  <1>4. PullsInPool'
    BY DEF RejoinInv, PullsInPool, Settled, RunOf, BlockOf, Extent
  <1> QED
    BY <1>2, <1>3, <1>4 DEF RejoinInv

(* Steps outside the slack loops leave the pulls as they are.               *)
LEMMA SamePool ==
  ASSUME PullsInPool, UNCHANGED <<pulls, pool_base, pool_limit>>,
         pc \notin {"head", "tail"}, pc' \notin {"head", "tail"}
  PROVE  PullsInPool'
  BY DEF PullsInPool, Settled, RunOf, BlockOf, Extent

LEMMA PopSmallestRejoin ==
  ASSUME BuddyInv, RejoinInv, PopSmallest
  PROVE  RejoinInv'
  <1> USE DEF BuddyInv, RejoinInv
  <1>1. /\ pc = "get" /\ pc' = "split"
        /\ UNCHANGED <<live, pulls, pool_base, pool_limit>>
    BY DEF PopSmallest, ghostVars
  <1>2. PICK j \in Orders, b \in Pages :
          /\ free_lists[j] # <<>> /\ b = Head(free_lists[j])
          /\ free_lists' = [free_lists EXCEPT ![j] = Tail(free_lists[j])]
          /\ block' = b /\ level' = j
    BY DEF PopSmallest, IsFirst, buddy_list_pop
  <1>3. free_lists[j] \in Seq(Pages) /\ IsInjective(free_lists[j]) /\ free_lists \in [Orders -> Seq(Pages)]
    BY DEF TypeOK, HeapOk, Apart
  <1>4. b \in Listed(j) /\ Range(Tail(free_lists[j])) \subseteq Range(free_lists[j])
    BY <1>2, <1>3, PopList DEF Listed
  <1>5. \A k \in Orders : Listed(k)' \subseteq Listed(k)
    BY <1>2, <1>3, <1>4 DEF Listed
  <1>6. Siblings'
    BY <1>1, <1>5, SiblingsShrink
  <1>7. PullsInPool'
    BY <1>1, SamePool
  <1>8. AllAligned'
    BY <1>1, <1>2, <1>4, <1>5 DEF AllAligned, Aligned
  <1> QED
    BY <1>6, <1>7, <1>8

LEMMA SplitDownRejoin ==
  ASSUME BuddyInv, RejoinInv, SplitDown
  PROVE  RejoinInv'
  <1> USE DEF BuddyInv, RejoinInv
  <1>0. pc = "split" /\ level > order /\ pc' = pc /\ block' = block
        /\ UNCHANGED <<live, pulls, pool_base, pool_limit>>
    BY DEF SplitDown, ghostVars
  <1>2. level \in Orders /\ order \in Orders /\ level \in Nat /\ order \in Nat /\ block \in Nat
    BY Sizes, Bases DEF TypeOK
  <1>k. PICK k \in Orders : k = level - 1
    BY <1>0, <1>2, Sizes DEF Orders
  <1>3. level > 0 /\ k <= level /\ k < MaxOrder /\ k \in Nat /\ Size[k] \in Nat
    BY <1>0, <1>2, <1>k, Sizes DEF Orders
  <1>u. PICK up \in Nat : up = block + Size[k]
    BY <1>2, <1>3
  <1>1. level' = k /\ buddy_list_push(k, up)
    BY <1>k, <1>u DEF SplitDown
  <1>4. Aligned(block, level) /\ Aligned(block, k)
    <2>1. Aligned(block, level)
      BY <1>0 DEF AllAligned
    <2> QED
      BY <1>2, <1>3, <2>1, CoarseAligned
  <1>5. Aligned(up, k)
    BY <1>2, <1>4, <1>u, NextAligned
  <1>6. BuddyOf(up, k) = block
    <2> DEFINE S == Size[k]
    <2>1. S \in Nat /\ S >= 1 /\ Size[level] = S + S
      BY <1>2, <1>3, <1>k, Sizes
    <2>2. PICK m \in Nat : block = m * Size[level]
      BY <1>2, <1>4, AlignedMult
    <2>3. up = block + S
      BY <1>u
    <2> HIDE DEF S
    <2>4. block = (m + m) * S /\ up = (m + m + 1) * S /\ m + m + 1 \in Nat
      <3>1. m * (S + S) = (m + m) * S /\ (m + m + 1) * S = (m + m) * S + S
        BY <2>1
      <3> QED
        BY <2>1, <2>2, <2>3, <3>1
    <2>5. up \div S = m + m + 1
      BY <1>5, <2>1, <2>4, MultDiv
    <2>6. (m + m + 1) % 2 # 0
      OBVIOUS
    <2>7. BuddyOf(up, k) = up - S
      BY <2>5, <2>6 DEF BuddyOf, S
    <2> QED
      BY <1>2, <2>1, <2>3, <2>7
  <1>7. up \in Pages /\ block \in InFlight
    <2>1. /\ Extent(block, level) = Extent(block, k) \cup Extent(up, k)
      BY <1>2, <1>3, <1>k, <1>u, Halves
    <2>2. InFlight = Extent(block, level)
      BY <1>0 DEF InFlight
    <2>3. up \in Extent(up, k) /\ block \in Extent(block, k)
      BY <1>2, <1>3, <1>5, ExtentHasBase
    <2> QED
      BY <2>1, <2>2, <2>3, InFlightPages
  <1>8. Listed(k)' = Listed(k) \cup {up} /\ \A j \in Orders \ {k} : Listed(j)' = Listed(j)
    BY <1>1, <1>3, <1>7, PushListed
  <1>9. block \notin Listed(k)
    BY <1>3, <1>7, Bases DEF HeapOk, Apart
  <1>10. Siblings'
    BY <1>0, <1>5, <1>6, <1>8, <1>9, SiblingsPush
  <1>11. PullsInPool'
    BY <1>0, SamePool
  <1>12. AllAligned'
    <2>1. \A j \in Orders : \A a \in Listed(j)' : Aligned(a, j)
      BY <1>5, <1>8 DEF AllAligned
    <2> QED
      BY <1>0, <1>1, <1>4, <2>1 DEF AllAligned, Aligned
  <1> QED
    BY <1>10, <1>11, <1>12

LEMMA GrantRejoin ==
  ASSUME BuddyInv, RejoinInv, Grant
  PROVE  RejoinInv'
  <1> USE DEF RejoinInv
  <1> DEFINE new == [base |-> block, order |-> order, size |-> size]
  <1>1. /\ pc = "split" /\ level = order /\ live' = live \cup {new} /\ pc' = "idle"
        /\ UNCHANGED <<free_lists, pulls, pool_base, pool_limit>>
    BY DEF Grant, Return
  <1>2. \A k \in Orders : Listed(k)' = Listed(k)
    BY <1>1 DEF Listed
  <1>3. Siblings'
    BY <1>1, <1>2, SiblingsShrink
  <1>4. PullsInPool'
    BY <1>1, SamePool
  <1>5. AllAligned'
    <2>1. Aligned(new.base, new.order)
      BY <1>1 DEF AllAligned
    <2> HIDE DEF new
    <2>2. \A l \in live' : Aligned(l.base, l.order)
      BY <1>1, <2>1 DEF AllAligned
    <2> QED
      BY <1>1, <1>2, <2>2 DEF AllAligned, Aligned
  <1> QED
    BY <1>3, <1>4, <1>5

LEMMA kfreeRejoin ==
  ASSUME BuddyInv, RejoinInv, NEW l \in live, kfree(l)
  PROVE  RejoinInv'
  <1> USE DEF RejoinInv
  <1>1. hdr[l.base] = [magic |-> "ALLOC", order |-> l.order]
    BY DEF BuddyInv, HeapOk, Truthful
  <1>2. hdr[l.base].magic = "ALLOC" /\ hdr[l.base].order = l.order
    BY <1>1
  <1>3. /\ pc = "idle" /\ live' = live \ {l} /\ block' = l.base /\ level' = l.order /\ pc' = "merge"
        /\ UNCHANGED <<free_lists, pool_base, pool_limit, pulls>>
    BY <1>2 DEF kfree
  <1>4. \A k \in Orders : Listed(k)' = Listed(k)
    BY <1>3 DEF Listed
  <1>5. Siblings'
    BY <1>3, <1>4, SiblingsShrink
  <1>6. PullsInPool'
    BY <1>3, SamePool
  <1>7. AllAligned'
    BY <1>3, <1>4 DEF AllAligned, Aligned
  <1> QED
    BY <1>5, <1>6, <1>7

LEMMA MergeUpRejoin ==
  ASSUME BuddyInv, RejoinInv, MergeUp
  PROVE  RejoinInv'
  <1> USE DEF BuddyInv, RejoinInv
  <1> DEFINE c == BuddyOf(block, level)
             s == free_lists[level]
  <1>1. /\ pc = "merge" /\ pc' = "merge" /\ level < MaxOrder /\ level' = level + 1
        /\ block' = IF c < block THEN c ELSE block
        /\ UNCHANGED <<live, pulls, pool_base, pool_limit>>
    BY DEF MergeUp, ghostVars
  <1>2. PICK i \in DOMAIN s :
          free_lists' = [free_lists EXCEPT ![level] = SubSeq(s, 1, i - 1) \o SubSeq(s, i + 1, Len(s))]
    BY DEF MergeUp, buddy_list_unlink
  <1>3. /\ level \in Orders /\ block \in Nat /\ s \in Seq(Pages) /\ IsInjective(s)
        /\ free_lists \in [Orders -> Seq(Pages)]
    BY Bases DEF TypeOK, HeapOk, Apart
  <1> DEFINE t == SubSeq(s, 1, i - 1) \o SubSeq(s, i + 1, Len(s))
  <1>4. Range(t) \subseteq Range(s)
    <2>1. i \in 1 .. Len(s)
      BY <1>3
    <2> QED
      BY <1>3, <2>1, UnlinkList
  <1>5. free_lists' = [free_lists EXCEPT ![level] = t]
    BY <1>2
  <1> HIDE DEF t
  <1>6. \A k \in Orders : Listed(k)' \subseteq Listed(k)
    BY <1>3, <1>4, <1>5 DEF Listed
  <1>7. Siblings'
    BY <1>1, <1>6, SiblingsShrink
  <1>8. PullsInPool'
    BY <1>1, SamePool
  <1>9. Aligned(block', level + 1)
    <2>1. Aligned(block, level)
      BY <1>1 DEF AllAligned
    <2> QED
      BY <1>1, <1>3, <2>1, BuddyHalves
  <1>10. AllAligned'
    BY <1>1, <1>6, <1>9 DEF AllAligned, Aligned
  <1> QED
    BY <1>7, <1>8, <1>10

(* The list walk of buddy_list_unlink finds the buddy if it is listed.      *)
LEMMA WalkFinds ==
  ASSUME NEW S, NEW s \in Seq(S), NEW c \in Range(s)
  PROVE  \E i \in DOMAIN s : IsFirst(i, {n \in DOMAIN s : s[n] = c})
  <1> DEFINE T == {n \in DOMAIN s : s[n] = c}
  <1>1. DOMAIN s = 1 .. Len(s) /\ Len(s) \in Nat
    OBVIOUS
  <1>2. T \subseteq Nat /\ T # {}
    BY <1>1 DEF Range
  <1>3. PICK x \in T : \A y \in Nat : y < x => y \notin T
    <2> HIDE DEF T
    <2> QED
      BY <1>2, LeastNat
  <1>4. \A y \in T : x <= y
    <2> SUFFICES ASSUME NEW y \in T PROVE x <= y
      OBVIOUS
    <2>1. x \in Nat /\ y \in Nat
      BY <1>2
    <2>2. ~(y < x)
      BY <1>3, <2>1
    <2> QED
      BY <2>1, <2>2
  <1> QED
    BY <1>3, <1>4 DEF IsFirst

LEMMA MergeDoneRejoin ==
  ASSUME BuddyInv, RejoinInv, MergeDone
  PROVE  RejoinInv'
  <1> USE DEF BuddyInv, RejoinInv
  <1> DEFINE c == BuddyOf(block, level)
  <1>1. /\ pc = "merge" /\ pc' = "idle" /\ buddy_list_push(level, block)
        /\ UNCHANGED <<live, pulls, pool_base, pool_limit>>
    BY DEF MergeDone, Return, ghostVars
  <1>2. level \in Orders /\ block \in Nat /\ block \in Pages /\ free_lists[level] \in Seq(Pages)
    BY Bases DEF TypeOK
  <1>3. Aligned(block, level)
    BY <1>1 DEF AllAligned
  <1>k. PICK k \in Orders, x \in Pages : k = level /\ x = block
    BY <1>2
  <1>4. Listed(k)' = Listed(k) \cup {x} /\ \A j \in Orders \ {k} : Listed(j)' = Listed(j)
    BY <1>1, <1>k, PushListed
  <1>5. ASSUME NEW r \in pulls, level < r.order, Extent(block, level) \subseteq BlockOf(r), c \in Listed(level)
        PROVE  FALSE
    <2> DEFINE h == IF c < block THEN c ELSE block
               K == level + 1
    <2>1. r.order \in Orders /\ r.base \in Nat /\ Aligned(r.base, r.order)
      BY PullTypes DEF AllAligned
    <2>2. level < MaxOrder /\ level # MaxOrder /\ K <= r.order
      BY <1>2, <1>5, <2>1, Sizes DEF Orders
    <2>3. /\ c \in Nat /\ K \in Orders /\ h \in Nat
          /\ Aligned(h, K) /\ Extent(h, K) = Extent(block, level) \cup Extent(c, level)
      BY <1>2, <1>3, <2>2, BuddyHalves
    <2>4. c \in BlockOf(r)
      <3> HIDE DEF h, K, c
      <3>1. block \in Extent(block, level) /\ c \in Extent(c, level)
        BY <1>2, <2>3, ExtentHasBase
      <3>2. block \in Extent(h, K) /\ block \in Extent(r.base, r.order)
        BY <1>5, <2>3, <3>1 DEF BlockOf
      <3>3. Extent(h, K) \subseteq Extent(r.base, r.order)
        BY <2>1, <2>2, <2>3, <3>2, Nested
      <3> QED
        BY <2>3, <3>1, <3>3 DEF BlockOf
    <2>5. pool_base <= r.base /\ r.base + Size[r.order] <= pool_limit
      BY <1>1 DEF PullsInPool, Settled
    <2>6. c >= pool_base /\ c < pool_limit
      <3>1. Size[r.order] \in Nat /\ pool_base \in Nat /\ pool_limit \in Nat
        BY <2>1, Sizes DEF TypeOK
      <3> HIDE DEF c
      <3> QED
        BY <2>1, <2>3, <2>4, <2>5, <3>1 DEF BlockOf, Extent, Run
    <2>7. hdr[c] = FREE(level)
      BY <1>2, <1>5 DEF HeapOk, Truthful
    <2>8. PICK i \in DOMAIN free_lists[level] : IsFirst(i, {n \in DOMAIN free_lists[level] : free_lists[level][n] = c})
      <3> HIDE DEF c
      <3>1. c \in Range(free_lists[level])
        BY <1>5 DEF Listed
      <3> QED
        BY <1>2, <3>1, WalkFinds
    <2>9. Mergeable(block, level, i)
      BY <2>6, <2>7, <2>8 DEF Mergeable
    <2> QED
      BY <2>2, <2>9 DEF MergeDone
  <1>6. Siblings'
    <2>1. x \in Nat /\ Aligned(x, k)
      BY <1>2, <1>3, <1>k
    <2>2. \A r \in pulls : k < r.order /\ Extent(x, k) \subseteq BlockOf(r) => BuddyOf(x, k) \notin Listed(k)
      BY <1>5, <1>k
    <2> QED
      BY <1>1, <1>4, <2>1, <2>2, SiblingsPush
  <1>7. PullsInPool'
    BY <1>1, SamePool
  <1>8. AllAligned'
    <2>1. \A j \in Orders : \A a \in Listed(j)' : Aligned(a, j)
      BY <1>3, <1>4, <1>k DEF AllAligned
    <2> QED
      BY <1>1, <2>1 DEF AllAligned, Aligned
  <1> QED
    BY <1>6, <1>7, <1>8

(* The slack is outside every aligned block.                                *)
LEMMA PushSlack ==
  ASSUME BuddyInv, RejoinInv, pc \in {"head", "tail"}, NEW k \in Orders, NEW x \in Pages,
         buddy_list_push(k, x), Aligned(x, k), Extent(x, k) \subseteq InFlight,
         Extent(x, k) \cap Extent(block, order) = {}, pulls' = pulls
  PROVE  Siblings' /\ \A j \in Orders : \A a \in Listed(j)' : Aligned(a, j)
  <1> USE DEF BuddyInv, RejoinInv
  <1>1. Listed(k)' = Listed(k) \cup {x} /\ \A j \in Orders \ {k} : Listed(j)' = Listed(j)
    BY PushListed
  <1>2. x \in Nat /\ x \in Extent(x, k)
    BY Bases, ExtentHasBase
  <1>3. PICK s \in pulls : s.base = block /\ s.order = order /\ InFlight \subseteq RunOf(s)
    BY DEF PullsInPool
  <1>4. ASSUME NEW r \in pulls PROVE ~(Extent(x, k) \subseteq BlockOf(r))
    <2>1. CASE r = s
      BY <1>2, <1>3, <2>1 DEF BlockOf
    <2>2. CASE r # s
      <3>1. RunOf(r) \cap RunOf(s) = {} /\ BlockOf(r) \subseteq RunOf(r)
        BY <1>3, <2>2 DEF PullsInPool
      <3> QED
        BY <1>2, <1>3, <3>1
    <2> QED
      BY <2>1, <2>2
  <1>5. Siblings'
    BY <1>1, <1>2, <1>4, SiblingsPush
  <1>6. \A j \in Orders : \A a \in Listed(j)' : Aligned(a, j)
    BY <1>1 DEF AllAligned
  <1> QED
    BY <1>5, <1>6

LEMMA SlackPool ==
  ASSUME PullsInPool, UNCHANGED <<pulls, pool_base, pool_limit, block, order>>,
         pc \in {"head", "tail"}, pc' \in {"head", "tail"}, InFlight' \subseteq InFlight
  PROVE  PullsInPool'
  <1>1. \A r \in pulls : Settled(r)' <=> Settled(r)
    BY DEF Settled
  <1> QED
    BY <1>1 DEF PullsInPool, RunOf, BlockOf, Extent

(* The cursor is aligned to the weight of the bit that is looked at.        *)
LEMMA SlackLow ==
  ASSUME BuddyInv, AllAligned, pc \in {"head", "tail"}, bit > 0
  PROVE  LET k == bit - 1
             n == IF k < order THEN k ELSE order
         IN /\ n \in Orders /\ Aligned(p, n)
            /\ rem < Size[k] => rem < Size[n]
            /\ rem >= Size[k] => n = k
  <1> USE DEF BuddyInv
  <1> DEFINE k == bit - 1
             n == IF k < order THEN k ELSE order
  <1>1. Aligned(p, Low) /\ rem < Size[Low] /\ p \in Nat /\ rem \in Nat /\ bit \in Orders /\ order \in Orders
        /\ bit \in Nat /\ order \in Nat
    BY Sizes DEF AllAligned, TypeOK, Orders
  <1>2. k \in Orders /\ k \in Nat
    BY <1>1, Sizes
  <1>3. Low \in Orders /\ n \in Orders /\ n <= Low
    BY <1>1, <1>2 DEF Low
  <1>4. Aligned(p, n)
    BY <1>1, <1>3, CoarseAligned
  <1>5. ASSUME rem < Size[k] PROVE rem < Size[n]
    <2>1. CASE k < order
      BY <1>5, <2>1
    <2>2. CASE ~(k < order)
      <3>1. n = order /\ Low = order
        BY <1>1, <1>2, <2>2 DEF Low
      <3> QED
        BY <1>1, <3>1
    <2> QED
      BY <2>1, <2>2
  <1>6. ASSUME rem >= Size[k] PROVE n = k
    <2> SUFFICES ASSUME ~(k < order) PROVE FALSE
      OBVIOUS
    <2>1. order <= k /\ Low = order
      BY <1>1, <1>2 DEF Low
    <2>2. Size[order] <= Size[k] /\ Size[order] \in Nat /\ Size[k] \in Nat
      BY <1>1, <1>2, <2>1, Sizes, BuddyAssumption
    <2> QED
      BY <1>1, <1>6, <2>1, <2>2
  <1> QED
    BY <1>3, <1>4, <1>5, <1>6

LEMMA HeadSlackRejoin ==
  ASSUME BuddyInv, RejoinInv, HeadSlack
  PROVE  RejoinInv'
  <1> USE DEF BuddyInv, RejoinInv
  <1>0. /\ pc = "head" /\ bit > 0 /\ pc' = pc
        /\ UNCHANGED <<live, pulls, pool_base, pool_limit, order, block, level, tail>>
    BY DEF HeadSlack, ghostVars
  <1>1. PICK k \in Orders : k = bit - 1
    BY <1>0, SlackBits
  <1>2. /\ Size[k] \in Nat /\ Size[k] >= 1 /\ rem \in Nat /\ p \in Nat /\ order \in Orders /\ tail \in Nat
        /\ rem >= Size[k] => rem - Size[k] \in Nat /\ rem - Size[k] < Size[k]
    BY <1>0, <1>1, SlackBits DEF TypeOK
  <1>3. PICK n \in Orders : n = IF k < order THEN k ELSE order
    BY <1>2
  <1>4. Aligned(p, n) /\ (rem < Size[k] => rem < Size[n]) /\ (rem >= Size[k] => n = k)
    BY <1>0, <1>1, <1>3, SlackLow
  <1>5. bit' = k /\ Low' = n
    BY <1>0, <1>1, <1>3 DEF HeadSlack, Low
  <1>6. level = order /\ p <= block /\ p >= rem /\ block \in Nat
    BY <1>0, Bases DEF CallInv, TypeOK
  <1>7. CASE ~(rem >= Size[k])
    <2>1. UNCHANGED <<rem, p, free_lists>>
      BY <1>1, <1>7 DEF HeadSlack
    <2>2. \A j \in Orders : Listed(j)' = Listed(j)
      BY <2>1 DEF Listed
    <2>3. Siblings'
      BY <1>0, <2>2, SiblingsShrink
    <2>4. InFlight' = InFlight
      BY <1>0, <2>1 DEF InFlight
    <2>5. PullsInPool'
      BY <1>0, <2>4, SlackPool
    <2>6. rem < Size[n]
      BY <1>2, <1>4, <1>7
    <2>7. AllAligned'
      BY <1>0, <1>4, <1>5, <2>1, <2>2, <2>6 DEF AllAligned, Aligned
    <2> QED
      BY <2>3, <2>5, <2>7
  <1>8. CASE rem >= Size[k]
    <2>1. rem' = rem - Size[k] /\ p' = p - Size[k] /\ buddy_list_push(k, p - Size[k])
      BY <1>1, <1>8 DEF HeadSlack
    <2>2. PICK q \in Nat : q = p - Size[k]
      BY <1>2, <1>6, <1>8
    <2>3. Aligned(q, k)
      <3>1. p >= Size[k] /\ Aligned(p, k)
        BY <1>2, <1>4, <1>6, <1>8
      <3> QED
        BY <1>2, <2>2, <3>1, NextAligned
    <2>4. /\ InFlight = Run(p - rem, rem) \cup Run(block, Size[order] + tail)
          /\ InFlight' = Run(q - (rem - Size[k]), rem - Size[k]) \cup Run(block, Size[order] + tail)
      BY <1>0, <2>1, <2>2 DEF InFlight
    <2>5. /\ Run(q - (rem - Size[k]), rem - Size[k]) \subseteq Run(p - rem, rem)
          /\ Run(q, Size[k]) \subseteq Run(p - rem, rem)
          /\ Run(q, Size[k]) \cap Run(block, Size[order]) = {}
      <3>1. Size[order] \in Nat
        BY <1>2, Sizes
      <3>2. PICK s \in Nat : s = Size[k]
        BY <1>2
      <3>3. PICK S \in Nat : S = Size[order]
        BY <3>1
      <3>4. /\ Run(q - (rem - s), rem - s) \subseteq Run(p - rem, rem)
            /\ Run(q, s) \subseteq Run(p - rem, rem)
        BY <1>2, <1>6, <1>8, <2>2, <3>2 DEF Run
      <3>5. Run(q, s) \cap Run(block, S) = {}
        BY <1>2, <1>6, <1>8, <2>2, <3>2 DEF Run
      <3> QED
        BY <3>2, <3>3, <3>4, <3>5
    <2>6. InFlight' \subseteq InFlight /\ Extent(q, k) \subseteq InFlight /\ Extent(q, k) \cap Extent(block, order) = {}
      BY <2>4, <2>5 DEF Extent
    <2>7. q \in Pages /\ buddy_list_push(k, q)
      <3>1. q \in Extent(q, k)
        BY ExtentHasBase
      <3> QED
        BY <2>1, <2>2, <2>6, <3>1, InFlightPages
    <2>8. Siblings' /\ \A j \in Orders : \A a \in Listed(j)' : Aligned(a, j)
      BY <1>0, <2>3, <2>6, <2>7, PushSlack
    <2>9. PullsInPool'
      BY <1>0, <2>6, SlackPool
    <2>10. p' = q /\ Aligned(q, n) /\ rem' < Size[n]
      BY <1>2, <1>4, <1>8, <2>1, <2>2, <2>3
    <2>11. AllAligned'
      BY <1>0, <1>5, <2>8, <2>10 DEF AllAligned, Aligned
    <2> QED
      BY <2>8, <2>9, <2>11
  <1> QED
    BY <1>7, <1>8

LEMMA TailSlackRejoin ==
  ASSUME BuddyInv, RejoinInv, TailSlack
  PROVE  RejoinInv'
  <1> USE DEF BuddyInv, RejoinInv
  <1>0. /\ pc = "tail" /\ bit > 0 /\ pc' = pc
        /\ UNCHANGED <<live, pulls, pool_base, pool_limit, order, block, level, tail>>
    BY DEF TailSlack, ghostVars
  <1>1. PICK k \in Orders : k = bit - 1
    BY <1>0, SlackBits
  <1>2. /\ Size[k] \in Nat /\ Size[k] >= 1 /\ rem \in Nat /\ p \in Nat /\ order \in Orders
        /\ rem >= Size[k] => rem - Size[k] \in Nat /\ rem - Size[k] < Size[k]
    BY <1>0, <1>1, SlackBits DEF TypeOK
  <1>3. PICK n \in Orders : n = IF k < order THEN k ELSE order
    BY <1>2
  <1>4. Aligned(p, n) /\ (rem < Size[k] => rem < Size[n]) /\ (rem >= Size[k] => n = k)
    BY <1>0, <1>1, <1>3, SlackLow
  <1>5. bit' = k /\ Low' = n
    BY <1>0, <1>1, <1>3 DEF TailSlack, Low
  <1>6. level = order /\ p >= block + Size[order] /\ block \in Nat /\ Size[order] \in Nat
    BY <1>0, <1>2, Bases, Sizes DEF CallInv, TypeOK
  <1>7. CASE ~(rem >= Size[k])
    <2>1. UNCHANGED <<rem, p, free_lists>>
      BY <1>1, <1>7 DEF TailSlack
    <2>2. \A j \in Orders : Listed(j)' = Listed(j)
      BY <2>1 DEF Listed
    <2>3. Siblings'
      BY <1>0, <2>2, SiblingsShrink
    <2>4. InFlight' = InFlight
      BY <1>0, <2>1 DEF InFlight
    <2>5. PullsInPool'
      BY <1>0, <2>4, SlackPool
    <2>6. rem < Size[n]
      BY <1>2, <1>4, <1>7
    <2>7. AllAligned'
      BY <1>0, <1>4, <1>5, <2>1, <2>2, <2>6 DEF AllAligned, Aligned
    <2> QED
      BY <2>3, <2>5, <2>7
  <1>8. CASE rem >= Size[k]
    <2>1. rem' = rem - Size[k] /\ p' = p + Size[k] /\ buddy_list_push(k, p)
      BY <1>1, <1>8 DEF TailSlack
    <2>2. Aligned(p, k) /\ Aligned(p + Size[k], k)
      BY <1>2, <1>4, <1>8, NextAligned
    <2>3. /\ InFlight = Extent(block, order) \cup Run(p, rem)
          /\ InFlight' = Extent(block, order) \cup Run(p + Size[k], rem - Size[k])
      BY <1>0, <2>1 DEF InFlight, Extent
    <2>4. /\ Run(p + Size[k], rem - Size[k]) \subseteq Run(p, rem)
          /\ Run(p, Size[k]) \subseteq Run(p, rem)
          /\ Run(p, Size[k]) \cap Run(block, Size[order]) = {}
      <3>1. PICK s \in Nat : s = Size[k]
        BY <1>2
      <3>2. PICK S \in Nat : S = Size[order]
        BY <1>6
      <3>3. Run(p + s, rem - s) \subseteq Run(p, rem) /\ Run(p, s) \subseteq Run(p, rem)
        BY <1>2, <1>8, <3>1 DEF Run
      <3>4. Run(p, s) \cap Run(block, S) = {}
        BY <1>2, <1>6, <3>2 DEF Run
      <3> QED
        BY <3>1, <3>2, <3>3, <3>4
    <2>5. InFlight' \subseteq InFlight /\ Extent(p, k) \subseteq InFlight /\ Extent(p, k) \cap Extent(block, order) = {}
      BY <2>3, <2>4 DEF Extent
    <2>6. p \in Pages
      <3>1. p \in Extent(p, k)
        BY <1>2, ExtentHasBase
      <3> QED
        BY <2>5, <3>1, InFlightPages
    <2>7. PICK x \in Pages : x = p
      BY <2>6
    <2>8. Siblings' /\ \A j \in Orders : \A a \in Listed(j)' : Aligned(a, j)
      <3>1. buddy_list_push(k, x) /\ Aligned(x, k) /\ Extent(x, k) \subseteq InFlight /\ Extent(x, k) \cap Extent(block, order) = {}
        BY <2>1, <2>2, <2>5, <2>7
      <3> QED
        BY <1>0, <3>1, PushSlack
    <2>9. PullsInPool'
      BY <1>0, <2>5, SlackPool
    <2>10. Aligned(p + Size[k], n) /\ rem' < Size[n]
      BY <1>2, <1>4, <1>8, <2>1, <2>2
    <2>11. AllAligned'
      BY <1>0, <1>5, <2>1, <2>8, <2>10 DEF AllAligned, Aligned
    <2> QED
      BY <2>8, <2>9, <2>11
  <1> QED
    BY <1>7, <1>8

LEMMA HeadDoneRejoin ==
  ASSUME BuddyInv, RejoinInv, HeadDone
  PROVE  RejoinInv'
  <1> USE DEF BuddyInv, RejoinInv
  <1>1. /\ pc = "head" /\ pc' = "tail" /\ bit' = MaxOrder /\ rem' = tail
        /\ p' = block + Size[order]
        /\ UNCHANGED <<free_lists, live, pulls, pool_base, pool_limit, order, block, level, tail>>
    BY DEF HeadDone, heapVars, ghostVars
  <1>2. /\ level = order /\ tail \in Nat /\ block \in Nat /\ order \in Orders /\ order \in Nat
        /\ tail < Size[order] /\ Aligned(block, order) /\ Size[order] \in Nat
    BY <1>1, Bases, Sizes DEF CallInv, TypeOK, AllAligned
  <1>3. Low' = order
    <2>1. ~(MaxOrder < order) \/ MaxOrder = order
      BY <1>2, Sizes DEF Orders
    <2> QED
      BY <1>1, <2>1 DEF Low
  <1>4. InFlight' \subseteq InFlight
    <2>1. InFlight = Run(p - rem, rem) \cup Run(block, Size[order] + tail)
      BY <1>1 DEF InFlight
    <2>2. InFlight' = Run(block, Size[order]) \cup Run(block + Size[order], tail)
      BY <1>1 DEF InFlight, Extent
    <2>3. PICK S \in Nat : S = Size[order]
      BY <1>2
    <2>4. Run(block, S) \cup Run(block + S, tail) \subseteq Run(block, S + tail)
      BY <1>2 DEF Run
    <2> QED
      BY <2>1, <2>2, <2>3, <2>4
  <1>5. \A j \in Orders : Listed(j)' = Listed(j)
    BY <1>1 DEF Listed
  <1>6. Siblings'
    BY <1>1, <1>5, SiblingsShrink
  <1>7. PullsInPool'
    BY <1>1, <1>4, SlackPool
  <1>8. Aligned(block + Size[order], order)
    BY <1>2, NextAligned
  <1>9. AllAligned'
    BY <1>1, <1>2, <1>3, <1>5, <1>8 DEF AllAligned, Aligned
  <1> QED
    BY <1>6, <1>7, <1>9

LEMMA TailDoneRejoin ==
  ASSUME BuddyInv, RejoinInv, TailDone
  PROVE  RejoinInv'
  <1> USE DEF BuddyInv, RejoinInv
  <1>1. /\ pc = "tail" /\ pc' = "split"
        /\ pool_base' = IF pool_base = 0 \/ block < pool_base THEN block ELSE pool_base
        /\ pool_limit' = IF pool_limit = 0 \/ block + Size[order] > pool_limit
                         THEN block + Size[order] ELSE pool_limit
        /\ UNCHANGED <<free_lists, live, pulls, order, block, level>>
    BY DEF TailDone, ghostVars
  <1>2. /\ block \in Nat /\ order \in Orders /\ Size[order] \in Nat
        /\ pool_base \in Nat /\ pool_limit \in Nat /\ block # 0
    <2>1. block \in Nat /\ order \in Orders /\ Size[order] \in Nat /\ pool_base \in Nat /\ pool_limit \in Nat
      BY Bases, Sizes DEF TypeOK
    <2>2. block \in InFlight
      BY <1>1, <2>1, ExtentHasBase DEF InFlight
    <2> QED
      BY <2>1, <2>2, InFlightPages
  <1>3. \A j \in Orders : Listed(j)' = Listed(j)
    BY <1>1 DEF Listed
  <1>4. Siblings'
    BY <1>1, <1>3, SiblingsShrink
  <1>5. AllAligned'
    BY <1>1, <1>3 DEF AllAligned, Aligned
  <1>6. ASSUME NEW r \in pulls
        PROVE  pool_base' # 0 /\ pool_base' <= r.base /\ r.base + Size[r.order] <= pool_limit'
    <2>1. r.base \in Nat /\ Size[r.order] \in Nat
      BY PullTypes, Sizes
    <2>2. CASE Settled(r)
      <3>1. pool_base # 0 /\ pool_base <= r.base /\ r.base + Size[r.order] <= pool_limit
        BY <2>2 DEF PullsInPool
      <3>2. pool_base' # 0 /\ pool_base' <= r.base
        BY <1>1, <1>2, <2>1, <3>1
      <3>3. r.base + Size[r.order] <= pool_limit'
        BY <1>1, <1>2, <2>1, <3>1
      <3> QED
        BY <3>2, <3>3
    <2>3. CASE ~Settled(r)
      <3>1. r.base = block /\ r.order = order
        BY <2>3 DEF Settled
      <3>2. pool_base' # 0 /\ pool_base' <= block
        BY <1>1, <1>2
      <3>3. block + Size[order] <= pool_limit'
        BY <1>1, <1>2
      <3> QED
        BY <3>1, <3>2, <3>3
    <2> QED
      BY <2>2, <2>3
  <1>7. PullsInPool'
    BY <1>1, <1>6 DEF PullsInPool, RunOf, BlockOf, Extent
  <1> QED
    BY <1>4, <1>5, <1>7

LEMMA PullRejoin ==
  ASSUME BuddyInv, RejoinInv, Pull
  PROVE  RejoinInv'
  <1> USE DEF BuddyInv, RejoinInv
  <1>1. /\ pc = "get" /\ FreeRuns(2 * Size[order] - 1) # {} /\ pc' = "head" /\ level' = order /\ bit' = MaxOrder
        /\ UNCHANGED <<free_lists, pool_base, pool_limit, live, order>>
    BY DEF Pull, heapVars
  <1>2. order \in Orders /\ order \in Nat
    BY Sizes DEF TypeOK
  <1>3. PICK o \in Orders : o = order
    BY <1>2
  <1>4. PICK S \in Nat : S = Size[o] /\ S >= 1
    BY Sizes
  <1>5. PICK n \in Nat : n = 2 * S - 1
    BY <1>4
  <1>6. PICK i \in Pages : \E b \in i .. i + S - 1 :
          /\ pmm_alloc_contiguous(n, i) /\ b % S = 0
          /\ block' = b /\ p' = b /\ rem' = b - i /\ tail' = S - 1 - (b - i)
          /\ pulls' = pulls \cup {[run |-> i, base |-> b, order |-> order]}
    BY <1>3, <1>4, <1>5 DEF Pull
  <1>7. PICK b \in i .. i + S - 1 :
          /\ pmm_alloc_contiguous(n, i) /\ b % S = 0
          /\ block' = b /\ p' = b /\ rem' = b - i /\ tail' = S - 1 - (b - i)
          /\ pulls' = pulls \cup {[run |-> i, base |-> b, order |-> order]}
    BY <1>6
  <1>8. i \in Nat /\ b \in Nat /\ b - i \in Nat /\ b - i < S /\ b <= i + S - 1
        /\ S - 1 - (b - i) \in Nat /\ S - 1 - (b - i) < S
    <2>1. i \in Nat
      BY PmmAssumption DEF Pages
    <2> QED
      BY <1>4, <2>1
  <1>9. Run(i, n) \cap PulledPages = {}
    <2>1. n # 0 /\ FreeRuns(n) # {}
      BY <1>1, <1>3, <1>4, <1>5
    <2>2. ~(n > NPages)
      <3>1. PICK k \in Pages : k + n <= NPages
        BY <2>1 DEF FreeRuns
      <3> QED
        BY <3>1, PmmAssumption DEF Pages
    <2>3. Run(i, n) \cap pmm_bitmap = {}
      BY <1>7, <2>1, <2>2 DEF pmm_alloc_contiguous, IsFirst, FreeRuns
    <2>4. held \subseteq pmm_bitmap
      BY DEF PmmInv, HeldStaysMarked
    <2> QED
      BY <2>3, <2>4 DEF Held
  <1>10. PICK new : new = [run |-> i, base |-> b, order |-> o]
    OBVIOUS
  <1>11. /\ pulls' = pulls \cup {new} /\ new.run = i /\ new.base = b /\ new.order = o
         /\ RunOf(new) = Run(i, n) /\ BlockOf(new) = Run(b, S)
    <2>1. new.run = i /\ new.base = b /\ new.order = o
      BY <1>10
    <2> QED
      BY <1>3, <1>4, <1>5, <1>7, <1>10, <2>1 DEF RunOf, BlockOf, Extent
  <1>12. BlockOf(new) \subseteq RunOf(new)
    <2>1. i <= b /\ b + S - 1 <= i + n - 1
      BY <1>4, <1>5, <1>8
    <2>2. Run(b, S) \subseteq Run(i, n)
      BY <1>4, <1>5, <1>8, <2>1 DEF Run
    <2> QED
      BY <1>11, <2>2
  <1>13. \A r \in pulls : RunOf(r) \subseteq PulledPages
    BY DEF RunOf, PulledPages
  <1>14. InFlight' \subseteq RunOf(new)
    <2>1. pc' = "head" /\ p' - rem' = i /\ Size[order]' + tail' = n - (b - i)
      BY <1>1, <1>3, <1>4, <1>5, <1>7, <1>8
    <2>2. InFlight' = Run(i, b - i) \cup Run(b, n - (b - i))
      BY <1>7, <2>1 DEF InFlight
    <2>3. Run(i, b - i) \subseteq Run(i, n) /\ Run(b, n - (b - i)) \subseteq Run(i, n)
      BY <1>4, <1>5, <1>8 DEF Run
    <2> QED
      BY <1>11, <2>2, <2>3
  <1>15. PullsInPool'
    <2>1. \A r \in pulls' : BlockOf(r) \subseteq RunOf(r)
      BY <1>11, <1>12 DEF PullsInPool
    <2>2. \A r, s \in pulls' : r # s => RunOf(r) \cap RunOf(s) = {}
      BY <1>9, <1>11, <1>13 DEF PullsInPool
    <2>3. \A r \in pulls : Settled(r)
      BY <1>1 DEF Settled
    <2>4. ~Settled(new)'
      BY <1>1, <1>3, <1>7, <1>11 DEF Settled
    <2>5. \A r \in pulls' : Settled(r)' =>
            pool_base' # 0 /\ pool_base' <= r.base /\ r.base + Size[r.order] <= pool_limit'
      <3> SUFFICES ASSUME NEW r \in pulls', Settled(r)'
                   PROVE  pool_base' # 0 /\ pool_base' <= r.base /\ r.base + Size[r.order] <= pool_limit'
        OBVIOUS
      <3>1. r \in pulls
        BY <1>11, <2>4
      <3> QED
        BY <1>1, <2>3, <3>1 DEF PullsInPool
    <2>6. new \in pulls' /\ new.base = block' /\ new.order = order' /\ InFlight' \subseteq RunOf(new)
      BY <1>1, <1>3, <1>7, <1>11, <1>14
    <2> QED
      BY <2>1, <2>2, <2>5, <2>6 DEF PullsInPool, RunOf, BlockOf, Extent
  <1>16. \A j \in Orders : Listed(j)' = Listed(j)
    BY <1>1 DEF Listed
  <1>17. Siblings'
    <2> SUFFICES ASSUME NEW r \in pulls', NEW k \in Orders, k < r.order, NEW a \in Listed(k),
                        Extent(a, k) \subseteq BlockOf(r)
                 PROVE  BuddyOf(a, k) \notin Listed(k)
      BY <1>16 DEF Siblings, BlockOf, Extent, BuddyOf
    <2>1. CASE r \in pulls
      BY <2>1 DEF Siblings
    <2>2. CASE r = new
      <3>1. a \in Extent(a, k) /\ Extent(a, k) \subseteq PulledPages
        BY Bases DEF HeapOk, Within
      <3> QED
        BY <1>9, <1>11, <1>12, <2>2, <3>1
    <2> QED
      BY <1>11, <2>1, <2>2
  <1>18. AllAligned'
    <2>1. Aligned(b, o)
      BY <1>4, <1>7 DEF Aligned
    <2>2. \A r \in pulls' : Aligned(r.base, r.order)
      BY <1>11, <2>1 DEF AllAligned
    <2>3. Low' = o
      <3>1. ~(MaxOrder < o)
        BY <1>2, <1>3, Sizes DEF Orders
      <3> QED
        BY <1>1, <1>3, <3>1 DEF Low
    <2>4. rem' < Size[o] /\ tail' < Size[o]
      BY <1>4, <1>7, <1>8
    <2> QED
      BY <1>1, <1>3, <1>7, <1>16, <2>1, <2>2, <2>3, <2>4 DEF AllAligned, Aligned
  <1> QED
    BY <1>15, <1>17, <1>18

LEMMA NextRejoin == BuddyInv /\ RejoinInv /\ [Next]_vars => RejoinInv'
  <1> SUFFICES ASSUME BuddyInv, RejoinInv, [Next]_vars PROVE RejoinInv'
    OBVIOUS
  <1>1. ASSUME NEW n \in Requests, kmalloc(n) PROVE RejoinInv'
    BY <1>1, SameRejoin DEF kmalloc, heapVars, ghostVars
  <1>2. ASSUME NEW l \in live, kfree(l) PROVE RejoinInv'
    BY <1>2, kfreeRejoin
  <1>3. ASSUME NEW l \in live, NEW q \in Pages, NEW h \in ClientData, ClientWrites(l, q, h)
        PROVE  RejoinInv'
    BY <1>3, SameRejoin DEF ClientWrites, ghostVars, callVars
  <1>4. CASE proc_build_address_space
    <2>1. /\ pc \in {"idle", "build"} /\ pc' \in {"idle", "build"}
          /\ UNCHANGED <<free_lists, live, pulls, pool_base, pool_limit>>
      BY <1>4 DEF proc_build_address_space
    <2> QED
      BY <2>1, SameRejoin
  <1>5. CASE OutOfMemory
    BY <1>5, SameRejoin DEF OutOfMemory, Return, heapVars, ghostVars
  <1>6. CASE CallStep /\ ~OutOfMemory
    BY <1>6, PopSmallestRejoin, SplitDownRejoin, PullRejoin, HeadSlackRejoin, HeadDoneRejoin,
       TailSlackRejoin, TailDoneRejoin, GrantRejoin, MergeUpRejoin, MergeDoneRejoin DEF CallStep
  <1>7. CASE UNCHANGED vars
    <2>1. UNCHANGED <<free_lists, live, pulls, pool_base, pool_limit, pc, block, level, order, bit, rem, tail, p>>
      BY <1>7 DEF vars, heapVars, ghostVars, callVars
    <2>2. \A j \in Orders : Listed(j)' = Listed(j)
      BY <2>1 DEF Listed
    <2>3. InFlight' = InFlight
      BY <2>1 DEF InFlight
    <2>4. AllAligned'
      BY <2>1, <2>2 DEF RejoinInv, AllAligned, Aligned, Low
    <2>5. PullsInPool'
      BY <2>1, <2>3, SamePool, SlackPool DEF RejoinInv
    <2>6. Siblings'
      BY <2>1, <2>2, SiblingsShrink DEF RejoinInv
    <2> QED
      BY <2>4, <2>5, <2>6 DEF RejoinInv
  <1> QED
    BY <1>1, <1>2, <1>3, <1>4, <1>5, <1>6, <1>7 DEF Next, CallStep

LEMMA RejoinInvHolds == Spec => []RejoinInv
  <1>1. Init => RejoinInv
    <2> SUFFICES ASSUME Init PROVE RejoinInv
      OBVIOUS
    <2>1. \A k \in Orders : Listed(k) = {}
      BY DEF Init, buddy_init, Listed, Range
    <2> QED
      BY <2>1 DEF Init, RejoinInv, AllAligned, PullsInPool, Siblings
  <1> QED
    BY <1>1, NextRejoin, BuddyInvHolds, PTL DEF Spec

(* With no client and no call, an aligned block that was pulled is inside   *)
(* one listed block: else take a smallest listed block in it; its buddy's   *)
(* page is on a list too, in a block that is the buddy, which was excluded, *)
(* or that is larger and so overlaps the block.                             *)
LEMMA Rejoined ==
  ASSUME BuddyInv, RejoinInv, pc = "idle", live = {}, NEW r \in pulls
  PROVE  \E k \in Orders : \E a \in Listed(k) : BlockOf(r) \subseteq Extent(a, k)
  <1> USE DEF BuddyInv, RejoinInv
  <1> SUFFICES ASSUME \A k \in Orders : \A a \in Listed(k) : ~(BlockOf(r) \subseteq Extent(a, k))
               PROVE  FALSE
    OBVIOUS
  <1>1. r.base \in Nat /\ r.order \in Orders /\ r.order \in Nat /\ Aligned(r.base, r.order)
    BY PullTypes, Sizes DEF AllAligned
  <1>2. BlockOf(r) \subseteq PulledPages
    <2>1. RunOf(r) \subseteq PulledPages
      BY DEF RunOf, PulledPages
    <2> QED
      BY <2>1 DEF PullsInPool
  <1>3. ASSUME NEW q \in BlockOf(r)
        PROVE  \E k \in Orders : \E a \in Listed(k) :
                 q \in Extent(a, k) /\ k < r.order /\ Extent(a, k) \subseteq BlockOf(r)
    <2>1. PICK k \in Orders : \E a \in Listed(k) : q \in Extent(a, k)
      BY <1>2 DEF HeapOk, Accounted, InFlight
    <2>2. PICK a \in Listed(k) : q \in Extent(a, k)
      BY <2>1
    <2>3. a \in Nat /\ Aligned(a, k) /\ k \in Nat
      BY Bases, Sizes DEF AllAligned
    <2>4. k < r.order
      <3> SUFFICES ASSUME r.order <= k PROVE FALSE
        BY <1>1, <2>3
      <3>1. Extent(r.base, r.order) \subseteq Extent(a, k)
        BY <1>1, <2>2, <2>3, Nested DEF BlockOf
      <3> QED
        BY <3>1 DEF BlockOf
    <2>5. k <= r.order
      BY <1>1, <2>3, <2>4
    <2>6. Extent(a, k) \subseteq Extent(r.base, r.order)
      BY <1>1, <2>2, <2>3, <2>5, Nested DEF BlockOf
    <2> QED
      BY <2>2, <2>4, <2>6 DEF BlockOf
  <1> DEFINE T == {k \in Orders : k < r.order /\ \E a \in Listed(k) : Extent(a, k) \subseteq BlockOf(r)}
  <1>4. T \subseteq Nat /\ T # {}
    <2>1. r.base \in BlockOf(r)
      BY <1>1, ExtentHasBase DEF BlockOf
    <2>2. T # {}
      BY <1>3, <2>1
    <2> QED
      BY <2>2, Sizes
  <1>5. PICK k \in T : \A y \in Nat : y < k => y \notin T
    <2> HIDE DEF T
    <2> QED
      BY <1>4, LeastNat
  <1>6. PICK a \in Listed(k) : Extent(a, k) \subseteq BlockOf(r)
    OBVIOUS
  <1>7. a \in Nat /\ Aligned(a, k) /\ k \in Orders /\ k \in Nat /\ k < r.order /\ a \in Extent(a, k)
    BY Bases, Sizes DEF AllAligned
  <1> DEFINE c == BuddyOf(a, k)
             h == IF c < a THEN c ELSE a
             K == k + 1
  <1>8. k < MaxOrder /\ K <= r.order
    BY <1>1, <1>7, Sizes DEF Orders
  <1>9. /\ c \in Nat /\ Aligned(c, k) /\ K \in Orders /\ h \in Nat
        /\ Aligned(h, K) /\ Extent(h, K) = Extent(a, k) \cup Extent(c, k)
    BY <1>7, <1>8, BuddyHalves
  <1>10. c \notin Listed(k)
    BY <1>6, <1>7 DEF Siblings
  <1>11. \A j \in Orders : j > k => K <= j /\ j # k
    BY <1>7, Sizes
  <1> HIDE DEF c, h, K
  <1>12. c \in Extent(c, k) /\ c \in Extent(h, K) /\ a \in Extent(h, K)
    BY <1>7, <1>9, ExtentHasBase
  <1>13. c \in BlockOf(r)
    <2>1. a \in Extent(r.base, r.order)
      BY <1>6, <1>7 DEF BlockOf
    <2>2. Extent(h, K) \subseteq Extent(r.base, r.order)
      BY <1>1, <1>8, <1>9, <1>12, <2>1, Nested
    <2> QED
      BY <1>12, <2>2 DEF BlockOf
  <1>14. PICK j \in Orders : \E d \in Listed(j) :
           c \in Extent(d, j) /\ j < r.order /\ Extent(d, j) \subseteq BlockOf(r)
    BY <1>3, <1>13
  <1>15. PICK d \in Listed(j) : c \in Extent(d, j) /\ j < r.order /\ Extent(d, j) \subseteq BlockOf(r)
    BY <1>14
  <1>16. d \in Nat /\ Aligned(d, j) /\ j \in Nat
    BY Bases, Sizes DEF AllAligned
  <1>17. ~(j < k)
    BY <1>5, <1>15, <1>16
  <1>18. j # k
    <2> SUFFICES ASSUME j = k PROVE FALSE
      OBVIOUS
    <2>1. c = d
      BY <1>7, <1>9, <1>12, <1>15, <1>16, SameBlock
    <2> QED
      BY <1>10, <2>1
  <1>19. K <= j
    BY <1>7, <1>11, <1>16, <1>17, <1>18
  <1>20. Extent(h, K) \subseteq Extent(d, j)
    BY <1>9, <1>12, <1>15, <1>16, <1>19, Nested
  <1>21. a \in Extent(d, j) /\ a \in Extent(a, k)
    BY <1>7, <1>12, <1>20
  <1> QED
    BY <1>6, <1>7, <1>15, <1>18, <1>21 DEF HeapOk, Apart

(* When every client has freed everything, each aligned block ever pulled   *)
(* is whole again inside one listed block: kfree undoes all splitting,      *)
(* whatever the order of the frees (buddy.c:199-226).                       *)
THEOREM SplitsAreUndone == Spec => []PulledBlocksRejoin
  <1>1. ASSUME BuddyInv, RejoinInv PROVE PulledBlocksRejoin
    <2> SUFFICES ASSUME pc = "idle", live = {}, NEW r \in pulls
                 PROVE  \E x \in FreeBlocks : Extent(r.base, r.order) \subseteq Extent(x[1], x[2])
      BY DEF PulledBlocksRejoin
    <2>1. PICK k \in Orders : \E a \in Listed(k) : BlockOf(r) \subseteq Extent(a, k)
      BY <1>1, Rejoined
    <2>2. PICK a \in Listed(k) : BlockOf(r) \subseteq Extent(a, k)
      BY <2>1
    <2>3. PICK x \in FreeBlocks : x[1] = a /\ x[2] = k
      BY <1>1, FreeBlock DEF BuddyInv
    <2> QED
      BY <2>2, <2>3 DEF BlockOf
  <1> QED
    BY <1>1, BuddyInvHolds, RejoinInvHolds, PTL

----------------------------------------------------------------------------
(* Every call ends                                                          *)

(* What is left of the call in progress: the passes of its loops.           *)
CallLeft ==
  IF pc = "get" THEN 2 * MaxOrder + 4
  ELSE IF pc = "head" THEN bit + MaxOrder + 3
  ELSE IF pc = "tail" THEN bit + 2
  ELSE IF pc = "split" THEN level - order + 1
  ELSE IF pc = "merge" THEN MaxOrder - level + 1
  ELSE 0

InCall == pc \notin {"idle", "build"}

CallStepsDown == [][InCall => CallLeft' < CallLeft]_vars

(* What CallsReturn rests on: every step of kmalloc and kfree brings its    *)
(* return nearer, and there are at most 2 * MaxOrder + 4 of them however    *)
(* much memory there is, the walk of a list for the buddy, one step here,   *)
(* not counted (buddy.c:66-128, 189-226).                                   *)
THEOREM CallsAreBounded == Spec => [](CallLeft \in 0 .. 2 * MaxOrder + 4) /\ CallStepsDown
  <1> DEFINE A == InCall => CallLeft' < CallLeft
  <1>1. ASSUME BuddyInv
        PROVE  /\ MaxOrder \in Nat /\ bit \in 0 .. MaxOrder
               /\ order \in 0 .. MaxOrder /\ level \in 0 .. MaxOrder
               /\ pc = "split" => level >= order
               /\ pc \in {"head", "tail"} => level = order
               /\ pc \in {"idle", "get", "split", "head", "tail", "merge", "build"}
    BY <1>1, BuddyAssumption DEF BuddyInv, TypeOK, CallInv, Orders
  <1>2. BuddyInv => CallLeft \in 0 .. 2 * MaxOrder + 4
    BY <1>1 DEF CallLeft
  <1>3. BuddyInv /\ [Next]_vars => [A]_vars
    <2> SUFFICES ASSUME BuddyInv, Next, InCall PROVE CallLeft' < CallLeft
      OBVIOUS
    <2>1. CallStep
      BY <1>1 DEF Next, InCall, kmalloc, kfree, ClientWrites, proc_build_address_space
    <2>2. CASE PopSmallest
      <3>1. pc = "get" /\ pc' = "split" /\ order' = order /\ level' \in Orders
        BY <2>2 DEF PopSmallest
      <3> QED
        BY <1>1, <3>1 DEF CallLeft, Orders
    <2>3. CASE SplitDown
      BY <1>1, <2>3 DEF SplitDown, CallLeft
    <2>4. CASE Pull
      <3>1. pc = "get" /\ pc' = "head" /\ bit' = MaxOrder
        BY <2>4 DEF Pull
      <3> QED
        BY <1>1, <3>1 DEF CallLeft
    <2>5. CASE HeadSlack
      <3>1. pc = "head" /\ pc' = "head" /\ bit' = bit - 1
        BY <2>5 DEF HeadSlack
      <3> QED
        BY <1>1, <3>1 DEF CallLeft
    <2>6. CASE HeadDone
      BY <1>1, <2>6 DEF HeadDone, CallLeft
    <2>7. CASE TailSlack
      <3>1. pc = "tail" /\ pc' = "tail" /\ bit' = bit - 1
        BY <2>7 DEF TailSlack
      <3> QED
        BY <1>1, <3>1 DEF CallLeft
    <2>8. CASE TailDone
      <3>1. pc = "tail" /\ pc' = "split" /\ level' = level /\ order' = order /\ bit = 0
        BY <2>8 DEF TailDone
      <3> QED
        BY <1>1, <3>1 DEF CallLeft
    <2>9. CASE MergeUp
      <3>1. pc = "merge" /\ pc' = "merge" /\ level' = level + 1 /\ level < MaxOrder
        BY <2>9 DEF MergeUp
      <3> QED
        BY <1>1, <3>1 DEF CallLeft
    <2>10. CASE OutOfMemory \/ Grant \/ MergeDone
      <3>1. pc' = "idle" /\ pc \in {"get", "split", "merge"}
        BY <2>10 DEF OutOfMemory, Grant, MergeDone, Return
      <3> QED
        BY <1>1, <3>1 DEF CallLeft
    <2> QED
      BY <2>1, <2>2, <2>3, <2>4, <2>5, <2>6, <2>7, <2>8, <2>9, <2>10 DEF CallStep
  <1> QED
    BY <1>2, <1>3, BuddyInvHolds, PTL DEF Spec, CallStepsDown

----------------------------------------------------------------------------
(* heaptest                                                                 *)

LEMMA ScriptSteps ==
  /\ DOMAIN Script = 1 .. 19
  /\ \A n \in 1 .. 19 : Script[n][1] = "kmalloc" <=> n \in {1, 2, 3, 4, 5, 9, 10, 11, 18}
  /\ \A n \in 1 .. 19 : Script[n][1] = "kfree" <=> n \in {6, 7, 8, 12, 13, 14, 15, 16, 19}
  /\ \A n \in 1 .. 19 : Script[n][1] = "account" <=> n = 17
  BY DEF Script

LEMMA ScriptSlots ==
  /\ Script[1][2] = 1 /\ Script[2][2] = 2 /\ Script[3][2] = 3 /\ Script[4][2] = 4
  /\ Script[5][2] = 5 /\ Script[6][2] = 1 /\ Script[7][2] = 3 /\ Script[8][2] = 5
  /\ Script[9][2] = 6 /\ Script[10][2] = 7 /\ Script[11][2] = 8 /\ Script[12][2] = 2
  /\ Script[13][2] = 4 /\ Script[14][2] = 6 /\ Script[15][2] = 7 /\ Script[16][2] = 8
  /\ Script[18][2] = 9 /\ Script[19][2] = 9
  BY DEF Script

LEMMA SlotSizes ==
  DOMAIN SlotSize = 1 .. 9 /\ \A s \in 1 .. 9 : SlotSize[s] \in Requests
  <1>0. /\ SizesA \in Seq(Requests) /\ Len(SizesA) = 5
        /\ SizesC \in Seq(Requests) /\ Len(SizesC) = 3
    BY HeapTestAssumption
  <1>1. SizesA \o SizesC \in Seq(Requests) /\ Len(SizesA \o SizesC) = 8
    <2>1. SizesA \o SizesC \in Seq(Requests) /\ Len(SizesA \o SizesC) = Len(SizesA) + Len(SizesC)
      BY ONLY <1>0, ConcatProperties
    <2> QED
      BY <1>0, <2>1
  <1>2. Len(SlotSize) = 9 /\ DOMAIN SlotSize = 1 .. Len(SlotSize)
    BY <1>1 DEF SlotSize
  <1> QED
    BY <1>2, HeapTestAssumption

(* The slots whose buffer the command has not freed before step n.          *)
Kept(n) == {s \in 1 .. 9 : \A i \in 1 .. n - 1 : ~(Script[i][1] = "kfree" /\ Script[i][2] = s)}

(* No buffer is freed twice.                                                *)
LEMMA KeptSteps ==
  ASSUME NEW n \in 1 .. 19
  PROVE  /\ Script[n][1] = "kfree" => Script[n][2] \in Kept(n) /\ Kept(n + 1) = Kept(n) \ {Script[n][2]}
         /\ Script[n][1] # "kfree" => Kept(n + 1) = Kept(n)
         /\ Script[n][1] \in {"kmalloc", "kfree"} => Script[n][2] \in 1 .. 9
         /\ n = 18 \/ n = 19 => Script[n][2] = 9
  <1>1. \A i \in 1 .. n : i \in 1 .. n - 1 \/ i = n
    OBVIOUS
  <1>2. 1 .. (n + 1) - 1 = 1 .. n /\ 1 .. n - 1 \subseteq 1 .. n /\ n \in 1 .. n
    OBVIOUS
  <1>3. /\ Script[n][1] = "kfree" => Kept(n + 1) = Kept(n) \ {Script[n][2]}
        /\ Script[n][1] # "kfree" => Kept(n + 1) = Kept(n)
    BY <1>1, <1>2 DEF Kept
  <1>4. Script[n][1] = "kfree" =>
          Script[n][2] \in 1 .. 9 /\ \A i \in 1 .. n - 1 : ~(Script[i][1] = "kfree" /\ Script[i][2] = Script[n][2])
    BY ScriptSteps, ScriptSlots
  <1>5. /\ Script[n][1] \in {"kmalloc", "kfree"} => Script[n][2] \in 1 .. 9
        /\ n = 18 \/ n = 19 => Script[n][2] = 9
    BY ScriptSteps, ScriptSlots
  <1> QED
    BY <1>3, <1>4, <1>5 DEF Kept

(* Every buffer that is kept is a block the command holds, and no two slots *)
(* have a block in common; while kmalloc runs nothing it held is given up.  *)
TestHolds ==
  /\ step \in 0 .. 20 /\ called \in BOOLEAN
  /\ called => step # 0 /\ Op = "kmalloc" /\ before \subseteq live
  /\ step # 0 =>
       /\ DOMAIN bufs = 1 .. 9
       /\ \A s \in Kept(step) : bufs[s] \subseteq (IF called THEN before ELSE live)
       /\ \A s, t \in Kept(step) : s # t => bufs[s] \cap bufs[t] = {}

LEMMA IdleTestHolds ==
  ASSUME step = 0, called = FALSE
  PROVE  TestHolds
  <1>1. step \in 0 .. 20
    OBVIOUS
  <1>2. called \in BOOLEAN /\ ~called
    OBVIOUS
  <1> QED
    BY <1>1, <1>2 DEF TestHolds

LEMMA CallStepGrows ==
  ASSUME CallStep
  PROVE  live \subseteq live' /\ pulls \subseteq pulls' /\ pc # "idle"
  BY DEF CallStep, PopSmallest, SplitDown, Pull, OutOfMemory, HeadSlack, HeadDone, TailSlack,
         TailDone, Grant, MergeUp, MergeDone, ghostVars

LEMMA OpSteps ==
  ASSUME step \in 0 .. 20
  PROVE  /\ Op = "kmalloc" => step \in {1, 2, 3, 4, 5, 9, 10, 11, 18} /\ Slot \in 1 .. 9
         /\ Op = "kfree" => step \in {6, 7, 8, 12, 13, 14, 15, 16, 19} /\ Slot \in Kept(step)
         /\ Op = "account" <=> step = 17
         /\ Op = "end" <=> step \in {0, 20}
         /\ Op \in {"kmalloc", "kfree", "account"} => Op = Script[step][1]
         /\ step = 18 \/ step = 19 => Slot = 9
  <1>1. CASE step \in 1 .. 19
    BY <1>1, ScriptSteps, KeptSteps DEF Op, Slot
  <1>2. CASE step \in {0, 20}
    BY <1>2, ScriptSteps DEF Op
  <1> QED
    BY <1>1, <1>2

LEMMA NextTestHolds == TestHolds /\ [TestNext]_allVars => TestHolds'
  <1> SUFFICES ASSUME TestHolds, [TestNext]_allVars PROVE TestHolds'
    OBVIOUS
  <1>0. ASSUME step' = 0, called' = FALSE PROVE TestHolds'
    <2>1. step' \in 0 .. 20
      BY <1>0
    <2>2. called' \in BOOLEAN /\ ~called'
      BY <1>0, Zenon
    <2> QED
      BY <1>0, <2>1, <2>2 DEF TestHolds
  <1> USE DEF TestHolds
  <1>1. CASE OtherClient
    BY <1>1 DEF OtherClient
  <1>2. CASE cmd_heaptest
    <2>1. step' = 1 /\ bufs' = [s \in 1 .. 9 |-> {}] /\ called' = called /\ ~called
      BY <1>2, SlotSizes DEF cmd_heaptest
    <2>2. Kept(1) \subseteq 1 .. 9
      BY DEF Kept
    <2> QED
      BY <2>1, <2>2
  <1>3. CASE TestKmalloc
    <2>1. step # 0 /\ Op = "kmalloc" /\ ~called /\ called' /\ before' = live /\ UNCHANGED <<live, step, bufs>>
      BY <1>3 DEF TestKmalloc, kmalloc, ghostVars
    <2>2. Op' = Op
      BY <2>1 DEF Op
    <2>3. called' = TRUE
      BY <1>3 DEF TestKmalloc
    <2> QED
      BY <2>1, <2>2, <2>3
  <1>4. CASE TestReturn
    <2>1. CASE live = before
      <3>1. step' = 0 /\ called' = FALSE
        BY <1>4, <2>1 DEF TestReturn, Finish
      <3> QED
        BY <1>0, <3>1
    <2>2. CASE live # before
      <3>1. /\ called /\ bufs' = [bufs EXCEPT ![Slot] = live \ before]
            /\ step' = step + 1 /\ called' = FALSE /\ live' = live
        BY <1>4, <2>2 DEF TestReturn, vars, ghostVars
      <3>2. step \in {1, 2, 3, 4, 5, 9, 10, 11, 18} /\ Script[step][1] = "kmalloc"
        BY <3>1, OpSteps
      <3>3. Kept(step + 1) = Kept(step) /\ Kept(step) \subseteq 1 .. 9
        <4>1. step \in 1 .. 19 /\ Script[step][1] # "kfree"
          BY <3>2
        <4>2. Kept(step + 1) = Kept(step)
          BY ONLY <4>1, KeptSteps
        <4>3. Kept(step) \subseteq 1 .. 9
          BY ONLY DEF Kept
        <4> QED
          BY <4>2, <4>3
      <3>4. step + 1 \in 0 .. 20 /\ step + 1 # 0
        BY <3>2
      <3>5. \A s \in 1 .. 9 : bufs'[s] = IF s = Slot THEN live \ before ELSE bufs[s]
        BY <3>1
      <3>6. DOMAIN bufs' = 1 .. 9
        BY <3>1
      <3>7. \A s \in Kept(step) : bufs[s] \subseteq before
        BY <3>1
      <3> QED
        BY <3>1, <3>3, <3>4, <3>5, <3>6, <3>7
    <2> QED
      BY <2>1, <2>2
  <1>5. CASE TestKfree
    <2>1. PICK l \in bufs[Slot] : kfree(l)
      BY <1>5 DEF TestKfree
    <2>2. Op = "kfree" /\ step' = step + 1 /\ UNCHANGED <<bufs, called>> /\ live' = live \ {l}
      BY <1>5, <2>1 DEF TestKfree, kfree
    <2>3. step \in 1 .. 19 /\ Slot \in Kept(step) /\ Script[step][1] = "kfree" /\ Slot = Script[step][2]
      BY <2>2, OpSteps DEF Slot
    <2>4. Kept(step + 1) = Kept(step) \ {Slot} /\ step + 1 \in 1 .. 20
      BY <2>3, KeptSteps
    <2>5. ~called
      BY <2>2
    <2>6. \A s \in Kept(step + 1) : bufs[s] \subseteq live \ {l}
      BY <2>1, <2>3, <2>4, <2>5
    <2> QED
      BY <2>2, <2>3, <2>4, <2>5, <2>6
  <1>6. CASE TestAccount
    <2>1. CASE step' = 0 /\ called' = FALSE
      BY <1>0, <2>1
    <2>2. CASE step' = step + 1 /\ UNCHANGED <<bufs, before, called>>
      <3>1. Op = "account" /\ live' = live
        BY <1>6 DEF TestAccount, vars, ghostVars
      <3>2. step = 17 /\ Script[17][1] # "kfree" /\ ~called
        BY <3>1, OpSteps, ScriptSteps
      <3>3. Kept(18) = Kept(17)
        BY <3>2, KeptSteps
      <3> QED
        BY <2>2, <3>1, <3>2, <3>3
    <2> QED
      BY <1>6, <2>1, <2>2 DEF TestAccount, Finish
  <1>7. CASE TestOK
    BY <1>0, <1>7 DEF TestOK, Finish
  <1>8. CASE CallStep /\ UNCHANGED testVars
    <2>1. Op' = Op
      BY <1>8 DEF testVars, Op
    <2> QED
      BY <1>8, <2>1, CallStepGrows DEF testVars
  <1>9. CASE UNCHANGED allVars
    BY <1>9 DEF allVars, vars, ghostVars, testVars, Op
  <1> QED
    BY <1>1, <1>2, <1>3, <1>4, <1>5, <1>6, <1>7, <1>8, <1>9 DEF TestNext, TestStep

(* heaptest is a client like any other: it frees only blocks it holds, each *)
(* once (repl.c:327-378), so what is proved of the heap for every client    *)
(* holds while it runs.                                                     *)
THEOREM HeapTestIsAClient == TestSpec => Spec
  <1>1. TestInit => Init /\ TestHolds
    BY IdleTestHolds DEF TestInit
  <1>2. TestHolds /\ [TestNext]_allVars => [Next]_vars
    <2> SUFFICES ASSUME TestHolds, [TestNext]_allVars PROVE [Next]_vars
      OBVIOUS
    <2>1. CASE OtherClient
      BY <2>1, HeapTestAssumption DEF OtherClient, Next
    <2>2. CASE cmd_heaptest
      BY <2>2 DEF cmd_heaptest
    <2>3. CASE TestKmalloc
      <3>1. kmalloc(SlotSize[Slot]) /\ Op = "kmalloc"
        BY <2>3 DEF TestKmalloc
      <3>2. SlotSize[Slot] \in Requests
        BY <3>1, OpSteps, SlotSizes DEF TestHolds
      <3> QED
        BY <3>1, <3>2 DEF Next
    <2>4. CASE TestReturn \/ TestAccount \/ TestOK
      BY <2>4 DEF TestReturn, TestAccount, TestOK
    <2>5. CASE TestKfree
      <3>1. PICK l \in bufs[Slot] : kfree(l)
        BY <2>5 DEF TestKfree
      <3>2. Op = "kfree" /\ step # 0 /\ Slot \in Kept(step) /\ ~called
        BY <2>5, OpSteps DEF TestKfree, TestHolds
      <3>3. l \in live
        BY <3>1, <3>2 DEF TestHolds
      <3> QED
        BY <3>1, <3>3 DEF Next
    <2>6. CASE CallStep /\ UNCHANGED testVars
      BY <2>6 DEF Next
    <2>7. CASE UNCHANGED allVars
      BY <2>7 DEF allVars
    <2> QED
      BY <2>1, <2>2, <2>3, <2>4, <2>5, <2>6, <2>7 DEF TestNext, TestStep
  <1> QED
    BY <1>1, <1>2, NextTestHolds, PTL DEF TestSpec, Spec

(* The order kmalloc looks for on behalf of the command.                    *)
Wanted == OrderFor(PagesFor(SlotSize[Slot]))

(* Where the command's verdict comes from.  Nothing the heap does between   *)
(* its refusal and the command's look at the result undoes the reason, and  *)
(* from (d2) on only the command itself holds a block.                      *)
TestInv ==
  /\ VerdictTruthful
  /\ verdict # "none" => step = 0 /\ pc = "idle"
  /\ called /\ pc # "idle" =>
       live = before /\ order = Wanted /\ pc \in {"get", "split", "head", "tail"}
  /\ called /\ pc = "idle" /\ live = before => NoRoomFor(Wanted)
  /\ ~called /\ step # 0 => pc \in {"idle", "merge"}
  /\ step >= 18 => Cardinality(PulledPages) >= MinFree
  /\ step = 18 /\ called => before = {} /\ \E b : live \subseteq {b}
  /\ step = 18 /\ ~called => live = {}
  /\ step = 19 => \E b : live = {b} /\ bufs[9] = {b}
  /\ step = 20 => live = {}

LEMMA PulledGrows ==
  ASSUME BuddyInv', pulls \subseteq pulls', Cardinality(PulledPages) >= MinFree
  PROVE  Cardinality(PulledPages') >= MinFree
  <1>1. PulledPages \subseteq PulledPages' /\ PulledPages' \subseteq Pages
    BY DEF BuddyInv, HeapOk, Within, Held, PmmInv, PmmTypeOK, HeldStaysMarked, PulledPages
  <1>2. IsFiniteSet(PulledPages')
    BY <1>1, PagesFinite
  <1>3. /\ Cardinality(PulledPages) <= Cardinality(PulledPages')
        /\ Cardinality(PulledPages) \in Nat /\ Cardinality(PulledPages') \in Nat
    BY <1>1, <1>2, FS_Subset, FS_CardinalityType
  <1> QED
    BY <1>3, HeapTestAssumption

(* The reason for a refusal stays as long as the lists and the bitmap do.   *)
LEMMA SameRoom ==
  ASSUME NEW o, NoRoomFor(o), UNCHANGED <<pmm_bitmap, free_lists>>
  PROVE  NoRoomFor(o)'
  BY DEF NoRoomFor, FreeRuns

LEMMA AccountTestInv ==
  ASSUME TestHolds, TestInv, Counted, HeapStatsExact, BuddyInv, TestAccount
  PROVE  TestInv'
  <1>1. pc = "idle" /\ Op = "account" /\ UNCHANGED vars
    BY DEF TestAccount
  <1>2. UNCHANGED <<live, pulls, pc>> /\ PulledPages' = PulledPages
    BY <1>1, PulledStays DEF vars, ghostVars, callVars
  <1>3. step = 17 /\ ~called /\ verdict = "none"
    BY <1>1, OpSteps DEF TestHolds, TestInv
  <1>4. allocated_blocks = 0 <=> live = {}
    BY FS_EmptySet DEF Counted
  <1>5. live = {} => FreePagesBelow[MaxOrder + 1] = Cardinality(PulledPages)
    <2> SUFFICES ASSUME live = {} PROVE FreePagesBelow[MaxOrder + 1] = Cardinality(PulledPages)
      OBVIOUS
    <2>1. UNION {Extent(l.base, l.order) : l \in live} = {}
      OBVIOUS
    <2>2. Cardinality({}) = 0 /\ Cardinality(PulledPages) \in Nat
      BY FS_EmptySet, InFlightPages, PagesFinite
    <2> QED
      BY <1>1, <2>1, <2>2 DEF HeapStatsExact
  <1>6. CASE allocated_blocks # 0 \/ FreePagesBelow[MaxOrder + 1] < MinFree
    <2>1. step' = 0 /\ called' = FALSE /\ verdict' = "accounting"
      BY <1>6 DEF TestAccount, Finish
    <2>2. live # {} \/ Cardinality(PulledPages) < MinFree
      BY <1>4, <1>5, <1>6
    <2>3. VerdictTruthful'
      BY <1>2, <2>1, <2>2 DEF VerdictTruthful
    <2> QED
      BY <1>1, <1>2, <2>1, <2>3 DEF TestInv
  <1>7. CASE ~(allocated_blocks # 0 \/ FreePagesBelow[MaxOrder + 1] < MinFree)
    <2>1. step' = 18 /\ called' = called /\ verdict' = "none"
      BY <1>3, <1>7 DEF TestAccount
    <2>2. live = {} /\ FreePagesBelow[MaxOrder + 1] = Cardinality(PulledPages)
      BY <1>4, <1>5, <1>7
    <2>3. Cardinality(PulledPages) \in Nat /\ MinFree \in Nat
      BY InFlightPages, PagesFinite, HeapTestAssumption
    <2>4. VerdictTruthful'
      BY <2>1 DEF VerdictTruthful
    <2> QED
      BY <1>1, <1>2, <1>3, <1>7, <2>1, <2>2, <2>3, <2>4 DEF TestInv
  <1> QED
    BY <1>6, <1>7

LEMMA ReturnTestInv ==
  ASSUME TestHolds, TestInv, TestReturn
  PROVE  TestInv'
  <1>1. pc = "idle" /\ called /\ UNCHANGED vars
    BY DEF TestReturn
  <1>2. UNCHANGED <<live, pulls, pc, free_lists, pmm_bitmap>> /\ PulledPages' = PulledPages
    BY <1>1, PulledStays DEF vars, ghostVars, callVars, heapVars, pmmVars
  <1>3. step \in {1, 2, 3, 4, 5, 9, 10, 11, 18} /\ Slot \in 1 .. 9 /\ verdict = "none"
    BY <1>1, OpSteps DEF TestHolds, TestInv
  <1>4. CASE live = before
    <2>1. step' = 0 /\ called' = FALSE /\ verdict' = "NULL"
      BY <1>4 DEF TestReturn, Finish
    <2>2. PICK s \in 1 .. 9 : s = Slot
      BY <1>3
    <2>3. NoRoomFor(OrderFor(PagesFor(SlotSize[s])))
      BY <1>1, <1>4, <2>2 DEF TestInv, Wanted
    <2>4. NoRoomFor(OrderFor(PagesFor(SlotSize[s])))'
      BY <1>2, <2>3, SameRoom
    <2>5. VerdictTruthful'
      BY <2>1, <2>4, SlotSizes DEF VerdictTruthful
    <2> QED
      BY <1>1, <1>2, <2>1, <2>5 DEF TestInv
  <1>5. CASE live # before
    <2>1. /\ bufs' = [bufs EXCEPT ![Slot] = live \ before]
          /\ step' = step + 1 /\ called' = FALSE /\ verdict' = "none"
      BY <1>3, <1>5 DEF TestReturn
    <2>2. VerdictTruthful'
      BY <2>1 DEF VerdictTruthful
    <2>3. step' = 19 => \E b : live' = {b} /\ bufs'[9] = {b}
      <3> SUFFICES ASSUME step' = 19 PROVE \E b : live' = {b} /\ bufs'[9] = {b}
        OBVIOUS
      <3>1. step = 18 /\ Slot = 9
        BY <1>3, <2>1, OpSteps DEF TestHolds
      <3>2. PICK b : live \subseteq {b} /\ before = {}
        BY <1>1, <3>1 DEF TestInv
      <3>3. live = {b}
        BY <1>5, <3>2
      <3>4. bufs'[9] = live \ before
        BY <1>3, <2>1, <3>1 DEF TestHolds
      <3> QED
        BY <1>2, <3>2, <3>3, <3>4
    <2>4. step' >= 18 => step = 18 /\ step' = 19
      BY <1>3, <2>1
    <2>5. step' # 18 /\ step' # 20
      BY <1>3, <2>1
    <2>6. step' >= 18 => Cardinality(PulledPages') >= MinFree
      BY <1>2, <2>4 DEF TestInv
    <2> QED
      BY <1>1, <1>2, <2>1, <2>2, <2>3, <2>5, <2>6 DEF TestInv
  <1> QED
    BY <1>4, <1>5

LEMMA CallTestInv ==
  ASSUME TestHolds, TestInv, BuddyInv, BuddyInv', CallStep, UNCHANGED testVars
  PROVE  TestInv'
  <1>1. UNCHANGED <<step, bufs, before, called, verdict>>
    BY DEF testVars
  <1>2. pc # "idle" /\ pulls \subseteq pulls'
    BY CallStepGrows
  <1>3. verdict' = "none"
    BY <1>1, <1>2 DEF TestInv
  <1>4. VerdictTruthful'
    BY <1>3 DEF VerdictTruthful
  <1>5. step' >= 18 => Cardinality(PulledPages') >= MinFree
    BY <1>1, <1>2, PulledGrows DEF TestInv
  <1>6. CASE ~called
    <2>1. CASE step = 0
      BY <1>1, <1>3, <1>4, <1>5, <1>6, <2>1 DEF TestInv
    <2>2. CASE step # 0
      <3>1. pc = "merge"
        BY <1>2, <1>6, <2>2 DEF TestInv
      <3>2. MergeUp \/ MergeDone
        BY <3>1 DEF CallStep, PopSmallest, SplitDown, Pull, OutOfMemory, HeadSlack, HeadDone,
                    TailSlack, TailDone, Grant
      <3>3. live' = live /\ pc' \in {"merge", "idle"}
        BY <3>1, <3>2 DEF MergeUp, MergeDone, Return, ghostVars
      <3>4. step' = 19 => \E b : live' = {b} /\ bufs'[9] = {b}
        BY <1>1, <3>3 DEF TestInv
      <3>5. (step' = 18 => live' = {}) /\ (step' = 20 => live' = {})
        BY <1>1, <1>6, <3>3 DEF TestInv
      <3> QED
        BY <1>1, <1>3, <1>4, <1>5, <1>6, <3>3, <3>4, <3>5 DEF TestInv
    <2> QED
      BY <2>1, <2>2
  <1>7. CASE called
    <2>1. live = before /\ order = Wanted /\ pc \in {"get", "split", "head", "tail"}
      BY <1>2, <1>7 DEF TestInv
    <2>2. step \in {1, 2, 3, 4, 5, 9, 10, 11, 18}
      BY <1>7, OpSteps DEF TestHolds
    <2>3. Wanted' = Wanted
      BY <1>1 DEF Wanted, Slot
    <2>4. PICK o : o = order
      OBVIOUS
    <2>5. step = 18 => live = {}
      BY <1>7, <2>1 DEF TestInv
    <2>6. CASE OutOfMemory
      <3>1. UNCHANGED <<live, free_lists, pmm_bitmap>> /\ pc' = "idle"
        BY <2>6 DEF OutOfMemory, Return, heapVars, ghostVars, pmmVars, pmm_alloc_contiguous
      <3>2. NoRoomFor(o)
        BY <2>4, <2>6 DEF OutOfMemory, NoListedBlock, NoRoomFor
      <3>3. NoRoomFor(o)'
        BY <3>1, <3>2, SameRoom
      <3>4. o = Wanted'
        BY <2>1, <2>3, <2>4
      <3>5. NoRoomFor(Wanted)'
        BY <3>3, <3>4 DEF NoRoomFor, FreeRuns
      <3> QED
        BY <1>1, <1>3, <1>4, <1>5, <1>7, <2>2, <2>5, <3>1, <3>5 DEF TestInv
    <2>7. CASE Grant
      <3> DEFINE new == [base |-> block, order |-> order, size |-> size]
      <3>1. live' = live \cup {new} /\ pc = "split" /\ level = order /\ pc' = "idle"
        BY <2>7 DEF Grant, Return
      <3>2. block \in InFlight
        <4>1. block \in Nat /\ level \in Orders
          BY Bases DEF BuddyInv, TypeOK
        <4> QED
          BY <3>1, <4>1, ExtentHasBase DEF InFlight
      <3>3. new \notin live
        BY <3>2, Bases DEF BuddyInv, HeapOk, Apart
      <3> HIDE DEF new
      <3>4. live' # before'
        BY <1>1, <2>1, <3>1, <3>3
      <3>5. step' = 18 => before' = {} /\ \E b : live' \subseteq {b}
        BY <1>1, <1>7, <2>5, <3>1 DEF TestInv
      <3> QED
        BY <1>1, <1>3, <1>4, <1>5, <1>7, <2>2, <3>1, <3>4, <3>5 DEF TestInv
    <2>8. CASE PopSmallest \/ SplitDown \/ Pull \/ HeadSlack \/ HeadDone \/ TailSlack \/ TailDone
      <3>1. live' = live /\ order' = order /\ pc' \in {"get", "split", "head", "tail"}
        BY <2>1, <2>8 DEF PopSmallest, SplitDown, Pull, HeadSlack, HeadDone, TailSlack, TailDone, ghostVars
      <3>2. pc' # "idle"
        BY <3>1
      <3>3. step' = 18 => before' = {} /\ \E b : live' \subseteq {b}
        BY <1>1, <1>7, <2>5, <3>1 DEF TestInv
      <3> QED
        BY <1>1, <1>3, <1>4, <1>5, <1>7, <2>1, <2>2, <2>3, <3>1, <3>2, <3>3 DEF TestInv
    <2> QED
      BY <2>1, <2>6, <2>7, <2>8 DEF CallStep, MergeUp, MergeDone
  <1> QED
    BY <1>6, <1>7

LEMMA NextTestInv ==
  ASSUME TestHolds, TestInv, BuddyInv, BuddyInv', Counted, HeapStatsExact, [TestNext]_allVars
  PROVE  TestInv'
  <1>0. ASSUME verdict' = "none" PROVE VerdictTruthful'
    BY <1>0 DEF VerdictTruthful
  <1>1. CASE OtherClient \/ cmd_heaptest
    <2>1. /\ step = 0 /\ step' \in {0, 1} /\ called' = called /\ verdict' = "none"
          /\ step' = 1 => pc' = "idle"
      BY <1>1 DEF OtherClient, cmd_heaptest, vars, callVars
    <2>2. ~called
      BY <2>1 DEF TestHolds
    <2> QED
      BY <1>0, <2>1, <2>2 DEF TestInv
  <1>2. CASE TestKmalloc
    <2>1. /\ step # 0 /\ Op = "kmalloc" /\ ~called
          /\ UNCHANGED <<live, pulls, step, verdict>> /\ pc' = "get"
          /\ order' = Wanted /\ before' = live /\ called' = TRUE
      BY <1>2 DEF TestKmalloc, kmalloc, ghostVars, Wanted
    <2>2. verdict' = "none"
      BY <2>1 DEF TestInv
    <2>3. Wanted' = Wanted
      BY <2>1 DEF Wanted, Slot
    <2>4. step \in {1, 2, 3, 4, 5, 9, 10, 11, 18}
      BY <2>1, OpSteps DEF TestHolds
    <2>5. step' >= 18 => Cardinality(PulledPages') >= MinFree
      BY <2>1, PulledStays DEF TestInv
    <2>6. step' = 18 => before' = {} /\ \E b : live' \subseteq {b}
      BY <2>1 DEF TestInv
    <2> QED
      BY <1>0, <2>1, <2>2, <2>3, <2>4, <2>5, <2>6 DEF TestInv
  <1>3. CASE TestKfree
    <2>1. PICK l \in bufs[Slot] : kfree(l)
      BY <1>3 DEF TestKfree
    <2>2. /\ Op = "kfree" /\ step' = step + 1 /\ UNCHANGED <<called, pulls, verdict>>
          /\ live' = live \ {l} /\ pc' \in {"idle", "merge"}
      BY <1>3, <2>1 DEF TestKfree, kfree
    <2>3. step \in {6, 7, 8, 12, 13, 14, 15, 16, 19} /\ ~called /\ verdict' = "none"
      BY <2>2, OpSteps DEF TestHolds, TestInv
    <2>4. step' = 20 => live' = {}
      <3> SUFFICES ASSUME step' = 20 PROVE live' = {}
        OBVIOUS
      <3>1. step = 19 /\ Slot = 9
        BY <2>2, <2>3, OpSteps
      <3>2. PICK b : live = {b} /\ bufs[9] = {b}
        BY <3>1 DEF TestInv
      <3> QED
        BY <2>1, <2>2, <3>1, <3>2
    <2>5. step' >= 18 => Cardinality(PulledPages') >= MinFree
      BY <2>2, <2>3, PulledStays DEF TestInv
    <2>6. step' # 18 /\ step' # 19
      BY <2>2, <2>3
    <2> QED
      BY <1>0, <2>2, <2>3, <2>4, <2>5, <2>6 DEF TestInv
  <1>4. CASE TestOK
    <2>1. /\ step # 0 /\ Op = "end" /\ pc = "idle" /\ UNCHANGED <<pc, live, pulls>>
          /\ step' = 0 /\ called' = FALSE /\ verdict' = "OK"
      BY <1>4 DEF TestOK, Finish, vars, callVars, ghostVars
    <2>2. step = 20
      BY <2>1, OpSteps DEF TestHolds
    <2>3. live = {} /\ Cardinality(PulledPages) >= MinFree
      BY <2>2 DEF TestInv
    <2>4. VerdictTruthful'
      BY <2>1, <2>3, PulledStays DEF VerdictTruthful
    <2> QED
      BY <2>1, <2>4 DEF TestInv
  <1>5. CASE UNCHANGED allVars
    <2>1. UNCHANGED <<live, pulls, pc, order, free_lists, pmm_bitmap, step, bufs, before, called, verdict>>
      BY <1>5 DEF allVars, vars, ghostVars, callVars, heapVars, pmmVars, testVars
    <2>2. PulledPages' = PulledPages /\ Wanted' = Wanted
      BY <2>1, PulledStays DEF Wanted, Slot
    <2>3. VerdictTruthful'
      BY <2>1, <2>2 DEF TestInv, VerdictTruthful, NoRoomFor, FreeRuns
    <2>4. NoRoomFor(Wanted)' <=> NoRoomFor(Wanted)
      BY <2>1, <2>2 DEF NoRoomFor, FreeRuns
    <2> QED
      BY <2>1, <2>2, <2>3, <2>4 DEF TestInv
  <1> QED
    BY <1>1, <1>2, <1>3, <1>4, <1>5, AccountTestInv, ReturnTestInv, CallTestInv DEF TestNext, TestStep

LEMMA TestInvHolds == TestSpec => []TestHolds /\ []TestInv
  <1>1. TestInit => TestHolds /\ TestInv
    <2> SUFFICES ASSUME TestInit PROVE TestHolds /\ TestInv
      OBVIOUS
    <2>1. step = 0 /\ called = FALSE /\ verdict = "none"
      BY DEF TestInit
    <2>2. ~called /\ VerdictTruthful
      BY <2>1 DEF VerdictTruthful
    <2>3. ~(step >= 18) /\ step # 18 /\ step # 19 /\ step # 20
      BY <2>1
    <2>4. TestInv
      BY <2>1, <2>2, <2>3 DEF TestInv
    <2> QED
      BY <2>1, <2>4, IdleTestHolds
  <1> QED
    BY <1>1, NextTestHolds, NextTestInv, HeapTestIsAClient, BuddyInvHolds, CountedHolds,
       StatsAreExact, PTL DEF TestSpec

(* heaptest's verdict can be believed, whatever ran before: OK means that   *)
(* no block is out and the pages are there; FAIL means that somebody holds  *)
(* a block, the heap is too small for (d2), or memory for a buffer really   *)
(* ran out, neither on the lists nor in the pmm (repl.c:296-409).           *)
THEOREM VerdictsAreTruthful == TestSpec => []VerdictTruthful
  <1>1. TestInv => VerdictTruthful
    BY DEF TestInv
  <1> QED
    BY <1>1, TestInvHolds, PTL

(* A slot is filled once, with one block, before it is freed; and whatever  *)
(* the command got and is still out is in a slot it has not freed yet, also *)
(* when that block was freed before and handed out again.                   *)
NothingForgotten ==
  step # 0 =>
    /\ \A n \in step .. 19 : Script[n][1] = "kmalloc" => bufs[Script[n][2]] = {}
    /\ \A s \in 1 .. 9 : \A l, m \in bufs[s] : l = m
    /\ called => \E b : live \subseteq before \cup {b}
    /\ \A s \in 1 .. 9 : \A l \in bufs[s] :
         l \in (IF called THEN before ELSE live) => \E t \in Kept(step) : l \in bufs[t]

(* No slot is filled after it was freed, nor filled twice.                  *)
LEMMA FillSteps ==
  ASSUME NEW n \in 1 .. 19, Script[n][1] = "kmalloc"
  PROVE  /\ Script[n][2] \in Kept(n)
         /\ \A m \in n + 1 .. 19 : Script[m][1] = "kmalloc" => Script[m][2] # Script[n][2]
  <1>1. n \in {1, 2, 3, 4, 5, 9, 10, 11, 18}
    BY ScriptSteps
  <1>2. \A i \in 1 .. n - 1 : ~(Script[i][1] = "kfree" /\ Script[i][2] = Script[n][2])
    BY <1>1, ScriptSteps, ScriptSlots
  <1>3. \A m \in n + 1 .. 19 : Script[m][1] = "kmalloc" => Script[m][2] # Script[n][2]
    BY <1>1, ScriptSteps, ScriptSlots
  <1>4. Script[n][2] \in 1 .. 9
    BY KeptSteps
  <1> QED
    BY <1>2, <1>3, <1>4 DEF Kept

(* After step (d) and at the end every slot that was filled was freed.      *)
LEMMA AllFreed == Kept(17) \subseteq {9} /\ Kept(20) = {}
  BY ScriptSteps, ScriptSlots DEF Kept

LEMMA NextForgets ==
  ASSUME TestHolds, TestInv, NothingForgotten, [TestNext]_allVars
  PROVE  NothingForgotten'
  <1>0. ASSUME step' = 0 PROVE NothingForgotten'
    BY <1>0 DEF NothingForgotten
  <1>1. CASE OtherClient
    BY <1>0, <1>1 DEF OtherClient
  <1>2. CASE cmd_heaptest
    <2>1. step' = 1 /\ bufs' = [s \in 1 .. 9 |-> {}] /\ called' = called /\ ~called
      BY <1>2, SlotSizes DEF cmd_heaptest, TestHolds
    <2>2. \A n \in 1 .. 19 : Script[n][1] = "kmalloc" => Script[n][2] \in 1 .. 9
      BY KeptSteps
    <2> QED
      BY <2>1, <2>2 DEF NothingForgotten
  <1>3. CASE TestKmalloc
    <2>1. step # 0 /\ ~called /\ called' = TRUE /\ before' = live /\ UNCHANGED <<live, step, bufs>>
      BY <1>3 DEF TestKmalloc, kmalloc, ghostVars
    <2> QED
      BY <2>1 DEF NothingForgotten
  <1>4. CASE TestReturn
    <2>1. CASE live = before
      BY <1>0, <1>4, <2>1 DEF TestReturn, Finish
    <2>2. CASE live # before
      <3>1. /\ called /\ bufs' = [bufs EXCEPT ![Slot] = live \ before]
            /\ step' = step + 1 /\ called' = FALSE /\ live' = live
        BY <1>4, <2>2 DEF TestReturn, vars, ghostVars
      <3>2. /\ step \in 1 .. 19 /\ Script[step][1] = "kmalloc" /\ Slot = Script[step][2]
            /\ DOMAIN bufs = 1 .. 9
        BY <3>1, OpSteps DEF TestHolds, Slot
      <3>3. /\ Slot \in Kept(step) /\ Kept(step + 1) = Kept(step) /\ Kept(step) \subseteq 1 .. 9
            /\ \A m \in step + 1 .. 19 : Script[m][1] = "kmalloc" => Script[m][2] \in 1 .. 9 \ {Slot}
        <4>1. Kept(step + 1) = Kept(step)
          BY <3>2, KeptSteps
        <4>2. \A m \in step + 1 .. 19 : Script[m][1] = "kmalloc" => Script[m][2] \in 1 .. 9
          BY <3>2, KeptSteps
        <4> QED
          BY <3>2, <4>1, <4>2, FillSteps DEF Kept
      <3>4. \A s \in 1 .. 9 : bufs'[s] = IF s = Slot THEN live \ before ELSE bufs[s]
        BY <3>1, <3>2
      <3>5. step \in step .. 19 /\ step + 1 .. 19 \subseteq step .. 19
        BY <3>2
      <3>6. bufs[Slot] = {} /\ \E b : live \subseteq before \cup {b}
        BY <3>1, <3>2, <3>5 DEF NothingForgotten
      <3>7. \A n \in step + 1 .. 19 : Script[n][1] = "kmalloc" => bufs'[Script[n][2]] = {}
        BY <3>2, <3>3, <3>4, <3>5 DEF NothingForgotten
      <3>8. \A s \in 1 .. 9 : \A l, m \in bufs'[s] : l = m
        BY <3>2, <3>4, <3>6 DEF NothingForgotten
      <3>9. ASSUME NEW s \in 1 .. 9, NEW l \in bufs'[s], l \in live
            PROVE  \E t \in Kept(step) : l \in bufs'[t]
        <4>1. CASE l \notin before
          BY <3>3, <3>4, <3>9, <4>1
        <4>2. CASE l \in before
          <5>1. s # Slot /\ l \in bufs[s]
            BY <3>4, <3>9, <4>2
          <5>2. PICK t \in Kept(step) : l \in bufs[t]
            BY <3>1, <3>2, <4>2, <5>1 DEF NothingForgotten
          <5> QED
            BY <3>3, <3>4, <3>6, <5>2
        <4> QED
          BY <4>1, <4>2
      <3> QED
        BY <3>1, <3>3, <3>7, <3>8, <3>9 DEF NothingForgotten
    <2> QED
      BY <2>1, <2>2
  <1>5. CASE TestKfree
    <2>1. PICK l \in bufs[Slot] : kfree(l)
      BY <1>5 DEF TestKfree
    <2>2. Op = "kfree" /\ step' = step + 1 /\ UNCHANGED <<bufs, called>> /\ live' = live \ {l}
      BY <1>5, <2>1 DEF TestKfree, kfree
    <2>3. /\ step \in 1 .. 19 /\ Slot \in Kept(step) /\ Script[step][1] = "kfree"
          /\ Slot = Script[step][2] /\ ~called
      BY <2>2, OpSteps DEF Slot, TestHolds
    <2>4. Kept(step + 1) = Kept(step) \ {Slot} /\ Slot \in 1 .. 9
      BY <2>3, KeptSteps DEF Kept
    <2>5. step + 1 .. 19 \subseteq step .. 19
      BY <2>3
    <2>6. ASSUME NEW s \in 1 .. 9, NEW m \in bufs[s], m \in live \ {l}
          PROVE  \E t \in Kept(step + 1) : m \in bufs[t]
      <3>1. PICK t \in Kept(step) : m \in bufs[t]
        BY <2>3, <2>6 DEF NothingForgotten
      <3>2. t # Slot
        BY <2>1, <2>3, <2>4, <2>6, <3>1 DEF NothingForgotten
      <3> QED
        BY <2>4, <3>1, <3>2
    <2> QED
      BY <2>2, <2>3, <2>5, <2>6 DEF NothingForgotten
  <1>6. CASE TestAccount
    <2>1. CASE step' = 0
      BY <1>0, <2>1
    <2>2. CASE step' = step + 1 /\ UNCHANGED <<bufs, before, called>>
      <3>1. Op = "account" /\ live' = live
        BY <1>6 DEF TestAccount, vars, ghostVars
      <3>2. step = 17 /\ Kept(18) = Kept(17)
        BY <3>1, OpSteps, ScriptSteps, KeptSteps DEF TestHolds
      <3> QED
        BY <2>2, <3>1, <3>2 DEF NothingForgotten
    <2> QED
      BY <1>6, <2>1, <2>2 DEF TestAccount, Finish
  <1>7. CASE TestOK
    BY <1>0, <1>7 DEF TestOK, Finish
  <1>8. CASE CallStep /\ UNCHANGED testVars
    <2>1. UNCHANGED <<step, bufs, before, called>>
      BY <1>8 DEF testVars
    <2>2. CASE step = 0
      BY <1>0, <2>1, <2>2
    <2>3. CASE step # 0 /\ called
      <3>1. live = before
        BY <1>8, <2>3, CallStepGrows DEF TestInv
      <3>2. \E b : live' \subseteq live \cup {b}
        BY <1>8 DEF CallStep, PopSmallest, SplitDown, Pull, OutOfMemory, HeadSlack, HeadDone,
                    TailSlack, TailDone, Grant, MergeUp, MergeDone, ghostVars
      <3> QED
        BY <2>1, <2>3, <3>1, <3>2 DEF NothingForgotten
    <2>4. CASE step # 0 /\ ~called
      <3>1. pc = "merge"
        BY <1>8, <2>4, CallStepGrows DEF TestInv
      <3>2. live' = live
        BY <1>8, <3>1 DEF CallStep, PopSmallest, SplitDown, Pull, OutOfMemory, HeadSlack, HeadDone,
                    TailSlack, TailDone, Grant, MergeUp, MergeDone, ghostVars
      <3> QED
        BY <2>1, <2>4, <3>2 DEF NothingForgotten
    <2> QED
      BY <2>2, <2>3, <2>4
  <1>9. CASE UNCHANGED allVars
    <2>1. UNCHANGED <<live, step, bufs, before, called>>
      BY <1>9 DEF allVars, vars, ghostVars, testVars
    <2> QED
      BY <2>1 DEF NothingForgotten
  <1> QED
    BY <1>1, <1>2, <1>3, <1>4, <1>5, <1>6, <1>7, <1>8, <1>9 DEF TestNext, TestStep

(* heaptest leaves a block behind only when kmalloc refused it another:     *)
(* whichever blocks it is given again after its frees, for any sizes of its *)
(* buffers and any other clients (repl.c:304-402).                          *)
THEOREM LeaksOnlyOnNull == TestSpec => LeakOnlyOnNull
  <1> DEFINE A == step # 0 /\ step' = 0 /\ verdict' # "NULL" => Leaked = {}
  <1>1. TestInit => NothingForgotten
    BY DEF TestInit, NothingForgotten
  <1>2. TestHolds /\ TestInv /\ NothingForgotten /\ [TestNext]_allVars => [A]_allVars
    <2> SUFFICES ASSUME TestHolds, TestInv, NothingForgotten, TestNext,
                        step # 0, step' = 0, verdict' # "NULL"
                 PROVE  Leaked = {}
      OBVIOUS
    <2>1. live' = live /\ step \in {17, 20}
      <3>1. TestAccount \/ TestOK
        BY DEF TestNext, TestStep, OtherClient, cmd_heaptest, TestKmalloc, TestReturn, TestKfree,
               Finish, testVars, TestHolds
      <3>2. live' = live
        BY <3>1 DEF TestAccount, TestOK, vars, ghostVars
      <3> QED
        BY <3>1, <3>2, OpSteps DEF TestAccount, TestOK, TestHolds
    <2>2. ~called /\ DOMAIN bufs = 1 .. 9
      BY <2>1, OpSteps DEF TestHolds
    <2>3. \A t \in Kept(step) : bufs[t] = {}
      <3>1. step = 17 => bufs[9] = {}
        BY ScriptSteps, ScriptSlots DEF NothingForgotten
      <3> QED
        BY <2>1, <3>1, AllFreed
    <2>4. \A s \in 1 .. 9 : \A l \in bufs[s] : l \notin live
      BY <2>2, <2>3 DEF NothingForgotten
    <2> QED
      BY <2>1, <2>2, <2>4 DEF Leaked, Range
  <1> QED
    BY <1>1, <1>2, TestInvHolds, NextForgets, PTL DEF TestSpec, LeakOnlyOnNull
=============================================================================
