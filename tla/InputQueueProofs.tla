-------------------------- MODULE InputQueueProofs --------------------------
(***************************************************************************)
(* The input queue for every ring size, line length and number of           *)
(* characters: what is delivered is in order and at most once, whatever the *)
(* keyboard interrupt does to the polling loop, only an interrupt inside    *)
(* repl_input_putc loses a character, and the REPL gets to what is there.   *)
(*                                                                          *)
(* The proofs count instead of wrapping: QLen characters are in the ring,   *)
(* the k-th of them, from 0, in Slot(k), and the i-th character that was    *)
(* delivered or will be is Elt(i).                                          *)
(***************************************************************************)
EXTENDS InputQueue, SequenceTheorems, TLAPS

QLen == IF in_head >= in_tail THEN in_head - in_tail ELSE in_head - in_tail + INBUF
Slot(k) == IF in_tail + k < INBUF THEN in_tail + k ELSE in_tail + k - INBUF

Num == Len(taken) + QLen
Elt(i) == IF i <= Len(taken) THEN taken[i] ELSE inbuf[Slot(i - Len(taken) - 1)]

(* The length of the queue if in_head were next; a full circle counts INBUF. *)
NextLen == IF next > in_tail THEN next - in_tail ELSE next - in_tail + INBUF

Ordered == \A i, j \in 1 .. Num : i < j /\ Elt(i).src = Elt(j).src => Elt(i).n < Elt(j).n

(* Everything delivered was accepted, and arrived before the next one will. *)
Arrived ==
  \A i \in 1 .. Num : /\ Elt(i) \in accepted
                      /\ Elt(i).src = "serial" => Elt(i).n < serials
                      /\ Elt(i).src = "keyboard" => Elt(i).n < keys

(* The UART holds what arrived after everything that was polled.            *)
InFifo ==
  \A u \in 1 .. Len(uart) :
    /\ uart[u].src = "serial" /\ uart[u].n < serials
    /\ \A v \in 1 .. Len(uart) : u < v => uart[u].n < uart[v].n
    /\ \A i \in 1 .. Num : Elt(i).src = "serial" => Elt(i).n < uart[u].n

(* The character repl_input_putc holds came after everything in the ring    *)
(* and before everything in the UART.                                       *)
InPutc == pc \in {"putNext", "putTest", "putStore", "putHead"}
Pending ==
  InPutc =>
    /\ c.src = "serial" /\ c.n < serials
    /\ \A u \in 1 .. Len(uart) : c.n < uart[u].n
    /\ \A i \in 1 .. Num : Elt(i).src = "serial" => Elt(i).n < c.n

(* The value of in_head that next was computed from is still in the queue   *)
(* or just behind it, and unless an interrupt stored a character it is      *)
(* still in_head.                                                           *)
Window ==
  pc \in {"putTest", "putStore", "putHead"} =>
    /\ NextLen <= QLen + 1
    /\ ~raced => NextLen = QLen + 1
    /\ pc # "putTest" => next # in_tail /\ c \in accepted
    /\ pc = "putHead" /\ NextLen = QLen + 1 => inbuf[in_head] = c

Getting ==
  /\ pc \in {"getLoad", "getTail"} => in_head # in_tail
  /\ pc = "getTail" => c = inbuf[in_tail]

Kept ==
  ~raced => \A ch \in accepted : \/ \E i \in 1 .. Num : Elt(i) = ch
                                 \/ pc \in {"putStore", "putHead"} /\ ch = c

QueueInv ==
  /\ QueueTypeOK
  /\ Ordered
  /\ Arrived
  /\ InFifo
  /\ Pending
  /\ Window
  /\ Getting
  /\ Kept
  /\ LineFits

----------------------------------------------------------------------------
(* The ring                                                                 *)

LEMMA Wrap ==
  ASSUME NEW N \in Nat \ {0}, NEW a \in Nat, a < N + N
  PROVE  a % N = IF a < N THEN a ELSE a - N
  <1>1. CASE a < N
    BY <1>1
  <1>2. CASE ~(a < N)
    <2>1. a - N \in 0 .. N - 1 /\ a = 1 * N + (a - N)
      BY <1>2
    <2>2. a % N = a - N
      BY <2>1
    <2> QED
      BY <1>2, <2>2
  <1> QED
    BY <1>1, <1>2

LEMMA SuccIs ==
  ASSUME NEW h \in 0 .. INBUF - 1
  PROVE  Succ(h) = (IF h + 1 = INBUF THEN 0 ELSE h + 1) /\ Succ(h) \in 0 .. INBUF - 1
  <1>1. INBUF \in Nat \ {0} /\ h + 1 \in Nat /\ h + 1 < INBUF + INBUF /\ h + 1 <= INBUF
    BY QueueAssumption
  <1>2. (h + 1) % INBUF = IF h + 1 < INBUF THEN h + 1 ELSE h + 1 - INBUF
    <2>1. \A a \in Nat : a < INBUF + INBUF => a % INBUF = IF a < INBUF THEN a ELSE a - INBUF
      BY <1>1, Wrap
    <2>2. PICK a \in Nat : a = h + 1
      BY <1>1
    <2> QED
      BY <1>1, <2>1, <2>2
  <1> QED
    BY <1>1, <1>2 DEF Succ

LEMMA Indices ==
  ASSUME in_head \in 0 .. INBUF - 1, in_tail \in 0 .. INBUF - 1, next \in 0 .. INBUF - 1
  PROVE  /\ QLen \in 0 .. INBUF - 1 /\ Slot(QLen) = in_head /\ Slot(0) = in_tail
         /\ \A k \in 0 .. INBUF - 1 : Slot(k) \in 0 .. INBUF - 1
         /\ \A k, m \in 0 .. INBUF - 1 : Slot(k) = Slot(m) => k = m
         /\ QLen = 0 <=> in_head = in_tail
         /\ Succ(in_head) = in_tail <=> QLen = INBUF - 1
         /\ NextLen \in 1 .. INBUF
         /\ NextLen = INBUF <=> next = in_tail
  <1>1. INBUF \in Nat /\ INBUF > 1
    BY QueueAssumption
  <1>2. Succ(in_head) = (IF in_head + 1 = INBUF THEN 0 ELSE in_head + 1)
    BY SuccIs
  <1>3. Succ(in_head) = in_tail <=> QLen = INBUF - 1
    BY <1>1, <1>2 DEF QLen
  <1>4. QLen \in 0 .. INBUF - 1 /\ Slot(QLen) = in_head /\ Slot(0) = in_tail /\ (QLen = 0 <=> in_head = in_tail)
    BY <1>1 DEF QLen, Slot
  <1>5. /\ \A k \in 0 .. INBUF - 1 : Slot(k) \in 0 .. INBUF - 1
        /\ \A k, m \in 0 .. INBUF - 1 : Slot(k) = Slot(m) => k = m
    BY <1>1 DEF Slot
  <1>6. NextLen \in 1 .. INBUF /\ (NextLen = INBUF <=> next = in_tail)
    BY <1>1 DEF NextLen
  <1> QED
    BY <1>3, <1>4, <1>5, <1>6

LEMMA Elements ==
  ASSUME QueueTypeOK
  PROVE  /\ Num \in Nat /\ Len(taken) \in Nat /\ QLen \in Nat
         /\ \A i \in 1 .. Num : Elt(i) \in Char
         /\ \A i \in 1 .. Num : i > Len(taken) => i - Len(taken) - 1 \in 0 .. QLen - 1
  <1>1. Len(taken) \in Nat /\ QLen \in 0 .. INBUF - 1 /\ INBUF \in Nat
    BY Indices, QueueAssumption DEF QueueTypeOK
  <1>2. Num \in Nat /\ QLen \in Nat
    BY <1>1 DEF Num
  <1>3. ASSUME NEW i \in 1 .. Num, i > Len(taken)
        PROVE  i - Len(taken) - 1 \in 0 .. QLen - 1 /\ i - Len(taken) - 1 \in 0 .. INBUF - 1
    BY <1>1, <1>2, <1>3 DEF Num
  <1>4. ASSUME NEW i \in 1 .. Num PROVE Elt(i) \in Char
    <2>1. CASE i <= Len(taken)
      <3>1. i \in 1 .. Len(taken)
        BY <1>1, <2>1
      <3> QED
        BY <2>1, <3>1 DEF Elt, QueueTypeOK
    <2>2. CASE ~(i <= Len(taken))
      <3>1. i - Len(taken) - 1 \in 0 .. INBUF - 1
        BY <1>1, <1>3, <2>2
      <3>2. Slot(i - Len(taken) - 1) \in 0 .. INBUF - 1
        BY <3>1, Indices DEF QueueTypeOK
      <3> QED
        BY <2>2, <3>2 DEF Elt, QueueTypeOK
    <2> QED
      BY <2>1, <2>2
  <1> QED
    BY <1>1, <1>2, <1>3, <1>4

(* in_head moves: the characters that stay in the queue are the same, and   *)
(* the queue grows at its end only.                                         *)
LEMMA HeadMoves ==
  ASSUME QueueTypeOK, UNCHANGED <<in_tail, taken>>,
         QLen' \in 0 .. QLen + 1,
         \A k \in 0 .. QLen - 1 : inbuf'[Slot(k)] = inbuf[Slot(k)]
  PROVE  /\ Num' = Len(taken) + QLen' /\ Num' \in Nat /\ Num' <= Num + 1
         /\ \A i \in 1 .. Num : i <= Num' => Elt(i)' = Elt(i)
         /\ \A i \in Nat : i = Num + 1 => Elt(i)' = inbuf'[in_head]
  <1> USE DEF QueueTypeOK
  <1>1. Num \in Nat /\ Len(taken) \in Nat /\ QLen \in Nat
    BY Elements
  <1>2. Num' = Len(taken) + QLen' /\ QLen' \in Nat /\ QLen' <= QLen + 1
    BY <1>1 DEF Num
  <1>3. ASSUME NEW i \in 1 .. Num PROVE Elt(i)' = Elt(i)
    <2>1. CASE i <= Len(taken)
      BY <2>1 DEF Elt
    <2>2. CASE ~(i <= Len(taken))
      <3>1. i - Len(taken) - 1 \in 0 .. QLen - 1
        BY <1>1, <2>2, Elements
      <3>2. Slot(i - Len(taken) - 1)' = Slot(i - Len(taken) - 1)
        BY DEF Slot
      <3> QED
        BY <2>2, <3>1, <3>2 DEF Elt
    <2> QED
      BY <2>1, <2>2
  <1>4. ASSUME NEW i \in Nat, i = Num + 1 PROVE Elt(i)' = inbuf'[in_head]
    <2>1. i - Len(taken) - 1 = QLen /\ ~(i <= Len(taken))
      BY <1>1, <1>4 DEF Num
    <2>2. Slot(i - Len(taken) - 1)' = Slot(i - Len(taken) - 1)
      BY DEF Slot
    <2>3. Slot(QLen) = in_head
      BY Indices
    <2> QED
      BY <2>1, <2>2, <2>3 DEF Elt
  <1> QED
    BY <1>1, <1>2, <1>3, <1>4 DEF Num

(* The queue as it is: nothing in it, and nothing about its ends, changes.  *)
LEMMA QueueStays ==
  ASSUME QueueTypeOK, UNCHANGED <<in_head, in_tail, taken>>,
         \A k \in 0 .. QLen - 1 : inbuf'[Slot(k)] = inbuf[Slot(k)]
  PROVE  QLen' = QLen /\ Num' = Num /\ \A i \in 1 .. Num : Elt(i)' = Elt(i)
  <1>1. QLen' = QLen /\ QLen \in Nat
    BY Elements DEF QLen
  <1>2. QLen' \in 0 .. QLen + 1
    BY <1>1
  <1>3. Num' = Len(taken) + QLen' /\ \A i \in 1 .. Num : i <= Num' => Elt(i)' = Elt(i)
    BY <1>2, HeadMoves
  <1> QED
    BY <1>1, <1>3, Elements DEF Num

(* Taking the oldest character out changes neither what was delivered nor   *)
(* what will be, seen together.                                             *)
LEMMA TailMoves ==
  ASSUME QueueTypeOK, in_head # in_tail,
         in_tail' = Succ(in_tail), taken' = Append(taken, inbuf[in_tail]),
         UNCHANGED <<in_head, inbuf>>
  PROVE  QLen' = QLen - 1 /\ Num' = Num /\ \A i \in 1 .. Num : Elt(i)' = Elt(i)
  <1> USE DEF QueueTypeOK
  <1>1. /\ Num \in Nat /\ Len(taken) \in Nat /\ QLen \in 1 .. INBUF - 1
        /\ INBUF \in Nat /\ Slot(0) = in_tail
    <2>1. INBUF \in Nat /\ QLen \in 0 .. INBUF - 1 /\ QLen # 0 /\ Slot(0) = in_tail
      BY Indices, QueueAssumption
    <2>2. QLen \in 1 .. INBUF - 1
      BY <2>1
    <2> QED
      BY <2>1, <2>2, Elements
  <1>2. in_tail' = (IF in_tail + 1 = INBUF THEN 0 ELSE in_tail + 1)
    BY SuccIs
  <1>3. QLen' = QLen - 1
    BY <1>1, <1>2 DEF QLen
  <1>4. inbuf[in_tail] \in Char
    OBVIOUS
  <1>5. /\ Len(taken') = Len(taken) + 1 /\ taken'[Len(taken) + 1] = inbuf[in_tail]
        /\ \A i \in 1 .. Len(taken) : taken'[i] = taken[i]
    BY <1>4
  <1>6. Num' = Num
    BY <1>1, <1>3, <1>5 DEF Num
  <1>7. ASSUME NEW i \in 1 .. Num PROVE Elt(i)' = Elt(i)
    <2>1. CASE i <= Len(taken)
      <3>1. i \in 1 .. Len(taken) /\ i <= Len(taken) + 1
        BY <1>1, <2>1
      <3> QED
        BY <1>5, <2>1, <3>1 DEF Elt
    <2>2. CASE i = Len(taken) + 1
      <3>1. i - Len(taken) - 1 = 0 /\ ~(i <= Len(taken))
        BY <1>1, <2>2
      <3> QED
        BY <1>1, <1>5, <2>2, <3>1 DEF Elt
    <2>3. CASE i > Len(taken) + 1
      <3> DEFINE k == i - Len(taken) - 1
      <3>1. k \in 0 .. QLen - 1 /\ k >= 1 /\ k \in Nat
        BY <1>1, <2>3, Elements
      <3>2. i - Len(taken') - 1 = k - 1 /\ ~(i <= Len(taken')) /\ ~(i <= Len(taken))
        BY <1>1, <1>5, <2>3
      <3>3. \A m \in 0 .. QLen - 2 : Slot(m)' = Slot(m + 1)
        BY <1>1, <1>2 DEF Slot
      <3>4. k - 1 \in 0 .. QLen - 2 /\ (k - 1) + 1 = k
        BY <1>1, <3>1
      <3>5. inbuf'[Slot(i - Len(taken) - 1)'] = inbuf[Slot(k)]
        BY <3>2, <3>3, <3>4
      <3> QED
        BY <3>2, <3>5 DEF Elt
    <2> QED
      BY <1>1, <2>1, <2>2, <2>3
  <1> QED
    BY <1>3, <1>6, <1>7

----------------------------------------------------------------------------
(* The parts of the invariant that speak of the queue                       *)

Order == Ordered /\ Arrived /\ InFifo /\ Pending

(* The queue keeps its characters or some first ones of them, the UART its  *)
(* own, and no new character is being put.                                  *)
LEMMA OrderStays ==
  ASSUME QueueTypeOK, Order,
         Num' \in Nat, Num' <= Num, \A i \in 1 .. Num : i <= Num' => Elt(i)' = Elt(i),
         accepted \subseteq accepted', UNCHANGED <<uart, serials, c>>,
         keys' \in Nat, keys <= keys', InPutc' => InPutc
  PROVE  Order'
  <1>1. \A i \in 1 .. Num' : i \in 1 .. Num /\ Elt(i)' = Elt(i) /\ Elt(i) \in Char
    BY Elements
  <1>2. \A i \in 1 .. Num : Elt(i).n \in Nat
    BY Elements DEF Char
  <1>3. keys \in Nat
    BY DEF QueueTypeOK
  <1> HIDE DEF InPutc
  <1>4. Ordered'
    BY <1>1 DEF Order, Ordered
  <1>5. Arrived'
    <2> SUFFICES ASSUME NEW i \in 1 .. Num'
                 PROVE  /\ Elt(i)' \in accepted'
                        /\ Elt(i)'.src = "serial" => Elt(i)'.n < serials'
                        /\ Elt(i)'.src = "keyboard" => Elt(i)'.n < keys'
      BY DEF Arrived
    <2>1. i \in 1 .. Num /\ Elt(i)' = Elt(i) /\ Elt(i).n \in Nat
      BY <1>1, <1>2
    <2>2. /\ Elt(i) \in accepted /\ (Elt(i).src = "serial" => Elt(i).n < serials)
          /\ Elt(i).src = "keyboard" => Elt(i).n < keys
      BY <2>1 DEF Order, Arrived
    <2>3. Elt(i).n < keys => Elt(i).n < keys'
      BY <1>3, <2>1
    <2> QED
      BY <2>1, <2>2, <2>3
  <1>6. InFifo'
    BY <1>1 DEF Order, InFifo
  <1>7. Pending'
    BY <1>1 DEF Order, Pending
  <1> QED
    BY <1>4, <1>5, <1>6, <1>7 DEF Order

(* A character that came after all of the queue joins it.                   *)
LEMMA OrderGrows ==
  ASSUME QueueTypeOK, Order, NEW ch \in Char,
         Num' = Num + 1, \A i \in 1 .. Num : Elt(i)' = Elt(i),
         \A i \in Nat : i = Num + 1 => Elt(i)' = ch,
         accepted \subseteq accepted', ch \in accepted',
         UNCHANGED <<uart, serials>>, keys' \in Nat, keys <= keys',
         \A i \in 1 .. Num : Elt(i).src = ch.src => Elt(i).n < ch.n,
         ch.src = "keyboard" => ch.n < keys',
         ch.src = "serial" => ch.n < serials /\ (\A u \in 1 .. Len(uart) : ch.n < uart[u].n) /\ ~InPutc',
         c' = c, InPutc' => InPutc
  PROVE  Order'
  <1>0. Num \in Nat
    BY Elements
  <1>1. \A i \in 1 .. Num' : \/ i \in 1 .. Num /\ Elt(i)' = Elt(i) /\ i # Num + 1
                             \/ i = Num + 1 /\ Elt(i)' = ch
    BY <1>0
  <1>2. \A i \in 1 .. Num : Elt(i).n \in Nat
    BY Elements DEF Char
  <1>3. keys \in Nat
    BY DEF QueueTypeOK
  <1> HIDE DEF InPutc
  <1>4. Ordered'
    <2> SUFFICES ASSUME NEW i \in 1 .. Num', NEW j \in 1 .. Num', i < j,
                        (Elt(i)').src = (Elt(j)').src
                 PROVE  (Elt(i)').n < (Elt(j)').n
      BY DEF Ordered
    <2>1. i \in 1 .. Num /\ Elt(i)' = Elt(i)
      BY <1>0, <1>1
    <2>2. CASE j = Num + 1
      BY <1>1, <2>1, <2>2
    <2>3. CASE j # Num + 1
      BY <1>1, <2>1, <2>3 DEF Order, Ordered
    <2> QED
      BY <2>2, <2>3
  <1>5. Arrived'
    <2> SUFFICES ASSUME NEW i \in 1 .. Num'
                 PROVE  /\ Elt(i)' \in accepted'
                        /\ (Elt(i)').src = "serial" => (Elt(i)').n < serials'
                        /\ (Elt(i)').src = "keyboard" => (Elt(i)').n < keys'
      BY DEF Arrived
    <2>1. CASE i = Num + 1
      BY <1>1, <2>1
    <2>2. CASE i # Num + 1
      <3>1. i \in 1 .. Num /\ Elt(i)' = Elt(i) /\ Elt(i).n \in Nat
        BY <1>1, <1>2, <2>2
      <3>2. /\ Elt(i) \in accepted /\ (Elt(i).src = "serial" => Elt(i).n < serials)
            /\ Elt(i).src = "keyboard" => Elt(i).n < keys
        BY <3>1 DEF Order, Arrived
      <3>3. Elt(i).n < keys => Elt(i).n < keys'
        BY <1>3, <3>1
      <3> QED
        BY <3>1, <3>2, <3>3
    <2> QED
      BY <2>1, <2>2
  <1>6. InFifo'
    BY <1>1 DEF Order, InFifo
  <1>7. Pending'
    BY <1>1 DEF Order, Pending
  <1> QED
    BY <1>4, <1>5, <1>6, <1>7 DEF Order

(* The rest of the invariant, for a step that leaves the queue as it is.    *)
LEMMA RestStays ==
  ASSUME QueueTypeOK, Window, Getting, Kept,
         QLen' = QLen, Num' = Num, \A i \in 1 .. Num : Elt(i)' = Elt(i),
         UNCHANGED <<ring, pc, c, next, accepted, raced>>
  PROVE  Window' /\ Getting' /\ Kept'
  <1>1. NextLen' = NextLen
    BY DEF NextLen, ring
  <1>2. Window' /\ Getting'
    BY <1>1 DEF Window, Getting, ring
  <1>3. Kept'
    BY DEF Kept
  <1> QED
    BY <1>2, <1>3

----------------------------------------------------------------------------
(* Types, and the line editor                                               *)

LEMMA NextTypeOK ==
  ASSUME QueueTypeOK, [Next]_vars
  PROVE  QueueTypeOK'
  <1> USE DEF QueueTypeOK
  <1>1. ASSUME NEW k \in Kinds, SerialArrives(k) PROVE QueueTypeOK'
    <2>1. [src |-> "serial", n |-> serials, kind |-> k] \in Char
      BY DEF Char
    <2>2. uart' \in Seq(Char) /\ Len(uart') <= FifoSize
      BY <1>1, <2>1, QueueAssumption DEF SerialArrives
    <2> QED
      BY <1>1, <2>2 DEF SerialArrives, ring
  <1>2. ASSUME NEW sc \in Scancodes, keyboard_irq(sc) PROVE QueueTypeOK'
    <2> DEFINE ch == [src |-> "keyboard", n |-> keys, kind |-> Keymap(sc)]
    <2>1. keys' \in Nat /\ raced' \in BOOLEAN
      BY <1>2 DEF keyboard_irq
    <2>2. shift' \in BOOLEAN
      BY <1>2 DEF keyboard_irq
    <2>3. Keymap(sc) # "none" => ch \in Char
      BY DEF Keymap, Char, Kinds
    <2> HIDE DEF ch
    <2>4. inbuf' \in [0 .. INBUF - 1 -> Char] /\ in_head' \in 0 .. INBUF - 1 /\ accepted' \subseteq Char
      <3>1. CASE inbuf' = inbuf /\ in_head' = in_head /\ accepted' = accepted
        BY <3>1
      <3>2. CASE /\ Keymap(sc) # "none" /\ inbuf' = [inbuf EXCEPT ![in_head] = ch]
                 /\ in_head' = Succ(in_head) /\ accepted' = accepted \cup {ch}
        BY <2>3, <3>2, SuccIs
      <3> QED
        BY <1>2, <3>1, <3>2 DEF keyboard_irq, repl_input_putc, ch
    <2> QED
      BY <1>2, <2>1, <2>2, <2>4 DEF keyboard_irq
  <1>3. CASE Poll
    <2>1. uart # <<>> => /\ Head(uart) \in Char /\ Tail(uart) \in Seq(Char)
                         /\ Len(Tail(uart)) <= FifoSize
      BY QueueAssumption
    <2> QED
      BY <1>3, <2>1 DEF Poll, ring
  <1>4. CASE PutNext
    BY <1>4, SuccIs DEF PutNext, ring
  <1>5. CASE PutTest
    BY <1>5 DEF PutTest, ring
  <1>6. CASE PutStore
    BY <1>6 DEF PutStore
  <1>7. CASE PutHead
    BY <1>7 DEF PutHead
  <1>8. CASE Get
    BY <1>8 DEF Get, ring
  <1>9. CASE GetLoad
    BY <1>9 DEF GetLoad, ring
  <1>10. CASE GetTail
    <2>1. taken' \in Seq(Char)
      BY <1>10 DEF GetTail
    <2>2. in_tail' \in 0 .. INBUF - 1
      BY <1>10, SuccIs DEF GetTail
    <2> QED
      BY <1>10, <2>1, <2>2 DEF GetTail
  <1>11. CASE repl_handle
    <2>1. line_len' \in Nat
      BY <1>11 DEF repl_handle
    <2> QED
      BY <1>11, <2>1 DEF repl_handle, ring
  <1>12. CASE repl_exec
    BY <1>12 DEF repl_exec, ring
  <1>13. CASE SysRead
    <2>1. Tail(uart) \in Seq(Char) /\ Len(Tail(uart)) <= FifoSize
      BY <1>13, QueueAssumption DEF SysRead
    <2> QED
      BY <1>13, <2>1 DEF SysRead, ring
  <1>14. CASE UNCHANGED vars
    BY <1>14 DEF vars, ring
  <1> QED
    BY <1>1, <1>2, <1>3, <1>4, <1>5, <1>6, <1>7, <1>8, <1>9, <1>10, <1>11, <1>12, <1>13, <1>14
       DEF Next, repl_run

LEMMA NextLineFits ==
  ASSUME QueueTypeOK, LineFits, [Next]_vars
  PROVE  LineFits'
  <1>1. line_len \in Nat /\ LINE_MAX \in Nat \ {0}
    BY QueueAssumption DEF QueueTypeOK
  <1>2. CASE repl_handle
    BY <1>1, <1>2 DEF repl_handle, LineFits
  <1>3. CASE repl_exec
    BY <1>1, <1>3 DEF repl_exec, LineFits
  <1>4. CASE UNCHANGED line_len
    BY <1>4 DEF LineFits
  <1> QED
    BY <1>2, <1>3, <1>4 DEF Next, repl_run, vars, SerialArrives, keyboard_irq, Poll, PutNext,
       PutTest, PutStore, PutHead, Get, GetLoad, GetTail, SysRead

----------------------------------------------------------------------------
(* The queue, action by action                                              *)

QueueOk == Order /\ Window /\ Getting /\ Kept

LEMMA SerialArrivesOk ==
  ASSUME QueueTypeOK, QueueOk, NEW k \in Kinds, SerialArrives(k)
  PROVE  QueueOk'
  <1> USE DEF QueueOk
  <1> DEFINE new == [src |-> "serial", n |-> serials, kind |-> k]
  <1>1. /\ serials' = serials + 1 /\ serials \in Nat
        /\ UNCHANGED <<ring, pc, c, next, keys, accepted, taken, raced>>
    BY DEF SerialArrives, QueueTypeOK
  <1>2. QLen' = QLen /\ Num' = Num /\ \A i \in 1 .. Num : Elt(i)' = Elt(i)
    BY <1>1, QueueStays DEF ring
  <1>3. Window' /\ Getting' /\ Kept'
    BY <1>1, <1>2, RestStays
  <1>4. \A u \in 1 .. Len(uart') : \/ u \in 1 .. Len(uart) /\ uart'[u] = uart[u]
                                   \/ u = Len(uart) + 1 /\ uart'[u] = new
    <2>1. uart \in Seq(Char) /\ new \in Char
      BY <1>1 DEF QueueTypeOK, Char
    <2>2. CASE uart' = uart
      BY <2>2
    <2>3. CASE uart' = Append(uart, new)
      <3> HIDE DEF new
      <3> QED
        BY <2>1, <2>3
    <2> QED
      BY <2>2, <2>3 DEF SerialArrives
  <1>5. new.src = "serial" /\ new.n = serials
    OBVIOUS
  <1>6. Len(uart) \in Nat /\ \A u \in 1 .. Len(uart) : uart[u].n \in Nat
    <2>1. Len(uart) \in Nat /\ \A u \in 1 .. Len(uart) : uart[u] \in Char
      BY DEF QueueTypeOK
    <2> QED
      BY <2>1 DEF Char
  <1>7. \A i \in 1 .. Num : Elt(i).n \in Nat
    BY Elements DEF Char
  <1>8. c.n \in Nat
    BY DEF QueueTypeOK, Char
  <1> HIDE DEF new
  <1>9. Ordered' /\ Arrived'
    BY <1>1, <1>2, <1>7 DEF Order, Ordered, Arrived
  <1>10. InFifo'
    <2> SUFFICES ASSUME NEW u \in 1 .. Len(uart')
                 PROVE  /\ uart'[u].src = "serial" /\ uart'[u].n < serials'
                        /\ \A v \in 1 .. Len(uart') : u < v => uart'[u].n < uart'[v].n
                        /\ \A i \in 1 .. Num : Elt(i).src = "serial" => Elt(i).n < uart'[u].n
      BY <1>2 DEF InFifo
    <2>1. CASE u \in 1 .. Len(uart) /\ uart'[u] = uart[u]
      <3>1. /\ uart[u].src = "serial" /\ uart[u].n < serials
            /\ \A v \in 1 .. Len(uart) : u < v => uart[u].n < uart[v].n
            /\ \A i \in 1 .. Num : Elt(i).src = "serial" => Elt(i).n < uart[u].n
        BY <2>1 DEF Order, InFifo
      <3>2. ASSUME NEW v \in 1 .. Len(uart'), u < v
            PROVE  uart'[u].n < uart'[v].n
        <4>1. CASE v \in 1 .. Len(uart) /\ uart'[v] = uart[v]
          BY <2>1, <3>1, <3>2, <4>1
        <4>2. CASE uart'[v] = new
          BY <1>5, <2>1, <3>1, <4>2
        <4> QED
          BY <1>4, <4>1, <4>2
      <3>3. uart'[u].n < serials'
        BY <1>1, <1>6, <2>1, <3>1
      <3> QED
        BY <2>1, <3>1, <3>2, <3>3
    <2>2. CASE u = Len(uart) + 1 /\ uart'[u] = new
      <3>1. \A v \in 1 .. Len(uart') : ~(u < v)
        BY <1>4, <1>6, <2>2
      <3> QED
        BY <1>1, <1>5, <2>2, <3>1 DEF Order, Arrived
    <2> QED
      BY <1>4, <2>1, <2>2
  <1>11. Pending'
    BY <1>1, <1>2, <1>4, <1>5, <1>8 DEF Order, Pending, InPutc
  <1> QED
    BY <1>3, <1>9, <1>10, <1>11 DEF Order

(* The UART gives up its oldest character.                                  *)
LEMMA FifoShrinks ==
  ASSUME QueueTypeOK, Order, uart # <<>>, uart' = Tail(uart), UNCHANGED <<serials, keys, accepted>>,
         Num' = Num, \A i \in 1 .. Num : Elt(i)' = Elt(i),
         InPutc' => c' = Head(uart)
  PROVE  Order'
  <1>1. /\ uart \in Seq(Char) /\ Len(uart) \in Nat /\ Len(uart) >= 1 /\ Head(uart) = uart[1]
        /\ Len(uart') = Len(uart) - 1
        /\ \A u \in 1 .. Len(uart') : u + 1 \in 1 .. Len(uart) /\ uart'[u] = uart[u + 1]
    BY DEF QueueTypeOK
  <1>2. Ordered' /\ Arrived'
    BY DEF Order, Ordered, Arrived
  <1>3. InFifo'
    <2> SUFFICES ASSUME NEW u \in 1 .. Len(uart')
                 PROVE  /\ uart'[u].src = "serial" /\ uart'[u].n < serials'
                        /\ \A v \in 1 .. Len(uart') : u < v => uart'[u].n < uart'[v].n
                        /\ \A i \in 1 .. Num : Elt(i).src = "serial" => Elt(i).n < uart'[u].n
      BY DEF InFifo
    <2>1. u + 1 \in 1 .. Len(uart) /\ uart'[u] = uart[u + 1]
      BY <1>1
    <2>2. \A v \in 1 .. Len(uart') : /\ v + 1 \in 1 .. Len(uart) /\ uart'[v] = uart[v + 1]
                                     /\ u < v => u + 1 < v + 1
      BY <1>1
    <2> QED
      BY <2>1, <2>2 DEF Order, InFifo
  <1>4. Pending'
    <2> SUFFICES ASSUME InPutc'
                 PROVE  /\ c'.src = "serial" /\ c'.n < serials'
                        /\ \A u \in 1 .. Len(uart') : c'.n < uart'[u].n
                        /\ \A i \in 1 .. Num : Elt(i).src = "serial" => Elt(i).n < c'.n
      BY DEF Pending
    <2>1. c' = uart[1] /\ 1 \in 1 .. Len(uart)
      BY <1>1
    <2>2. \A u \in 1 .. Len(uart') : u + 1 \in 1 .. Len(uart) /\ 1 < u + 1 /\ uart'[u] = uart[u + 1]
      BY <1>1
    <2> QED
      BY <2>1, <2>2 DEF Order, InFifo
  <1> QED
    BY <1>2, <1>3, <1>4 DEF Order

LEMMA PollOk ==
  ASSUME QueueTypeOK, QueueOk, Poll
  PROVE  QueueOk'
  <1> USE DEF QueueOk
  <1>1. /\ pc = "poll" /\ UNCHANGED <<ring, next, serials, keys, accepted, taken, raced>>
    BY DEF Poll
  <1>2. QLen' = QLen /\ Num' = Num /\ \A i \in 1 .. Num : Elt(i)' = Elt(i)
    BY <1>1, QueueStays DEF ring
  <1>3. Order'
    <2>1. CASE uart # <<>>
      BY <1>1, <1>2, <2>1, FifoShrinks DEF Poll
    <2>2. CASE uart = <<>>
      <3>1. ~InPutc' /\ UNCHANGED <<uart, c>>
        BY <2>2 DEF Poll, InPutc
      <3>2. Num \in Nat /\ keys \in Nat
        BY Elements DEF QueueTypeOK
      <3> QED
        BY <1>1, <1>2, <3>1, <3>2, OrderStays
    <2> QED
      BY <2>1, <2>2
  <1>4. pc' \in {"putNext", "get"}
    BY DEF Poll
  <1>5. Window' /\ Getting' /\ Kept'
    BY <1>1, <1>2, <1>4 DEF Window, Getting, Kept
  <1> QED
    BY <1>3, <1>5

LEMMA SysReadOk ==
  ASSUME QueueTypeOK, QueueOk, SysRead
  PROVE  QueueOk'
  <1> USE DEF QueueOk
  <1>1. /\ pc = "exec" /\ pc' = pc /\ uart # <<>> /\ uart' = Tail(uart)
        /\ UNCHANGED <<ring, c, next, serials, keys, accepted, taken, raced>>
    BY DEF SysRead
  <1>2. QLen' = QLen /\ Num' = Num /\ \A i \in 1 .. Num : Elt(i)' = Elt(i)
    BY <1>1, QueueStays DEF ring
  <1>3. Order'
    BY <1>1, <1>2, FifoShrinks DEF InPutc
  <1> QED
    BY <1>1, <1>2, <1>3, RestStays

(* The interrupt handler appends to the queue, or leaves it alone.  Inside  *)
(* repl_input_putc of the loop it may overwrite the slot the loop stored    *)
(* its character in; in_head is then no longer what next was computed from. *)
LEMMA KeyboardOk ==
  ASSUME QueueTypeOK, QueueOk, NEW sc \in Scancodes, keyboard_irq(sc)
  PROVE  QueueOk'
  <1> USE DEF QueueOk
  <1> DEFINE ch == [src |-> "keyboard", n |-> keys, kind |-> Keymap(sc)]
  <1>1. /\ keys' = keys + 1 /\ keys \in Nat
        /\ raced' = (raced \/ (in_head' # in_head /\ pc \in {"putTest", "putStore", "putHead"}))
        /\ UNCHANGED <<in_tail, uart, pc, c, next, serials, taken>>
    BY DEF keyboard_irq, QueueTypeOK
  <1>2. keys' \in Nat /\ keys <= keys' /\ Num \in Nat /\ QLen \in Nat
    BY <1>1, Elements
  <1>3. InPutc' => InPutc
    BY <1>1 DEF InPutc
  <1>4. CASE UNCHANGED <<inbuf, in_head, accepted>>
    <2>1. raced' = raced
      BY <1>1, <1>4 DEF QueueTypeOK
    <2>2. QLen' = QLen /\ Num' = Num /\ \A i \in 1 .. Num : Elt(i)' = Elt(i)
      BY <1>1, <1>4, QueueStays
    <2>3. Order'
      BY <1>1, <1>2, <1>3, <1>4, <2>2, OrderStays
    <2>4. Window' /\ Getting' /\ Kept'
      BY <1>1, <1>4, <2>1, <2>2, RestStays DEF ring
    <2> QED
      BY <2>3, <2>4
  <1>5. CASE /\ Keymap(sc) # "none" /\ Succ(in_head) # in_tail
             /\ inbuf' = [inbuf EXCEPT ![in_head] = ch]
             /\ in_head' = Succ(in_head) /\ accepted' = accepted \cup {ch}
    <2>1. ch \in Char /\ ch.src = "keyboard" /\ ch.n = keys
      BY <1>1, <1>5 DEF Keymap, Char, Kinds
    <2> HIDE DEF ch
    <2>2. QLen \in 0 .. INBUF - 1 /\ QLen # INBUF - 1 /\ INBUF \in Nat
      BY <1>5, Indices, QueueAssumption DEF QueueTypeOK
    <2>3. QLen' = QLen + 1 /\ in_head' # in_head
      <3>1. in_head' = (IF in_head + 1 = INBUF THEN 0 ELSE in_head + 1)
        BY <1>5, SuccIs DEF QueueTypeOK
      <3>2. in_head \in 0 .. INBUF - 1 /\ in_tail \in 0 .. INBUF - 1 /\ in_tail' = in_tail /\ in_head' # in_tail
        BY <1>1, <1>5 DEF QueueTypeOK
      <3>3. INBUF > 1
        BY QueueAssumption
      <3> QED
        BY <2>2, <3>1, <3>2, <3>3 DEF QLen
    <2>4. \A k \in 0 .. QLen - 1 : inbuf'[Slot(k)] = inbuf[Slot(k)]
      <3> SUFFICES ASSUME NEW k \in 0 .. QLen - 1 PROVE Slot(k) # in_head /\ Slot(k) \in 0 .. INBUF - 1
        BY <1>5 DEF QueueTypeOK
      <3>1. k \in 0 .. INBUF - 1 /\ k # QLen
        BY <2>2
      <3> QED
        BY <2>2, <3>1, Indices DEF QueueTypeOK
    <2>5. inbuf'[in_head] = ch
      BY <1>5 DEF QueueTypeOK
    <2>6. QLen' \in 0 .. QLen + 1
      BY <1>2, <2>3
    <2>7. /\ Num' = Len(taken) + QLen' /\ \A i \in 1 .. Num : i <= Num' => Elt(i)' = Elt(i)
          /\ \A i \in Nat : i = Num + 1 => Elt(i)' = inbuf'[in_head]
      BY <1>1, <2>4, <2>6, HeadMoves
    <2>8. Num' = Num + 1
      BY <2>3, <2>7, Elements DEF Num
    <2>9. \A i \in 1 .. Num : Elt(i)' = Elt(i)
      BY <1>2, <2>7, <2>8
    <2>10. Order'
      <3>1. \A i \in 1 .. Num : Elt(i).src = ch.src => Elt(i).n < ch.n
        BY <2>1 DEF Order, Arrived
      <3>2. ch.n < keys' /\ ch.src # "serial"
        BY <1>1, <2>1
      <3>3. accepted \subseteq accepted' /\ ch \in accepted'
        BY <1>5
      <3> QED
        BY <1>1, <1>2, <1>3, <2>1, <2>5, <2>7, <2>8, <2>9, <3>1, <3>2, <3>3, OrderGrows
    <2>11. Window'
      <3> SUFFICES ASSUME pc \in {"putTest", "putStore", "putHead"}
                   PROVE  /\ NextLen' <= QLen' + 1 /\ NextLen' # QLen' + 1 /\ raced'
                          /\ pc' # "putTest" => next' # in_tail' /\ c' \in accepted'
        BY <1>1 DEF Window
      <3>1. NextLen' = NextLen /\ NextLen <= QLen + 1 /\ NextLen \in 1 .. INBUF
        BY <1>1, Indices DEF NextLen, Window, QueueTypeOK
      <3>2. NextLen' <= QLen' + 1 /\ NextLen' # QLen' + 1
        BY <1>2, <2>2, <2>3, <3>1
      <3>3. pc # "putTest" => next # in_tail /\ c \in accepted
        BY DEF Window
      <3> QED
        BY <1>1, <1>5, <2>3, <3>2, <3>3
    <2>12. Getting'
      <3>1. QLen' # 0 /\ in_head' \in 0 .. INBUF - 1 /\ (in_head # in_tail => QLen # 0)
        BY <1>2, <1>5, <2>3, SuccIs, Indices DEF QueueTypeOK
      <3>2. in_head # in_tail => in_head' # in_tail /\ inbuf'[in_tail] = inbuf[in_tail]
        <4>1. in_head' # in_tail
          BY <1>5
        <4>2. in_head # in_tail => inbuf'[in_tail] = inbuf[in_tail]
          BY <1>5 DEF QueueTypeOK
        <4> QED
          BY <4>1, <4>2
      <3> QED
        BY <1>1, <3>2 DEF Getting
    <2>13. Kept'
      <3> SUFFICES ASSUME ~raced', NEW x \in accepted'
                   PROVE  \/ \E i \in 1 .. Num' : Elt(i)' = x
                          \/ pc' \in {"putStore", "putHead"} /\ x = c'
        BY DEF Kept
      <3>1. ~raced
        BY <1>1
      <3>2. CASE x = ch
        <4>1. Num + 1 \in 1 .. Num' /\ Num + 1 \in Nat
          BY <1>2, <2>8
        <4>2. \A i \in Nat : i = Num + 1 => Elt(i)' = ch
          BY <2>5, <2>7
        <4> QED
          BY <3>2, <4>1, <4>2
      <3>3. CASE x \in accepted
        <4>1. \/ \E i \in 1 .. Num : Elt(i) = x
              \/ pc \in {"putStore", "putHead"} /\ x = c
          BY <3>1, <3>3 DEF Kept
        <4>2. \A i \in 1 .. Num : i \in 1 .. Num'
          BY <1>2, <2>8
        <4> QED
          BY <1>1, <2>9, <4>1, <4>2
      <3> QED
        BY <1>5, <3>2, <3>3
    <2> QED
      BY <2>10, <2>11, <2>12, <2>13
  <1> QED
    BY <1>4, <1>5 DEF keyboard_irq, repl_input_putc, ch

LEMMA PutNextOk ==
  ASSUME QueueTypeOK, QueueOk, PutNext
  PROVE  QueueOk'
  <1> USE DEF QueueOk
  <1>1. /\ pc = "putNext" /\ pc' = "putTest" /\ next' = Succ(in_head)
        /\ UNCHANGED <<ring, uart, c, serials, keys, accepted, taken, raced>>
    BY DEF PutNext
  <1>2. QLen' = QLen /\ Num' = Num /\ \A i \in 1 .. Num : Elt(i)' = Elt(i)
    BY <1>1, QueueStays DEF ring
  <1>3. Num \in Nat /\ keys \in Nat
    BY Elements DEF QueueTypeOK
  <1>4. Order'
    BY <1>1, <1>2, <1>3, OrderStays DEF InPutc
  <1>5. NextLen' = QLen + 1
    <2>1. next' = (IF in_head + 1 = INBUF THEN 0 ELSE in_head + 1) /\ in_tail' = in_tail
      BY <1>1, SuccIs DEF QueueTypeOK, ring
    <2>2. in_head \in 0 .. INBUF - 1 /\ in_tail \in 0 .. INBUF - 1 /\ INBUF \in Nat /\ INBUF > 1
      BY QueueAssumption DEF QueueTypeOK
    <2> QED
      BY <2>1, <2>2 DEF NextLen, QLen
  <1>6. NextLen' <= QLen' + 1
    BY <1>2, <1>5, Elements
  <1>7. Window' /\ Getting' /\ Kept'
    BY <1>1, <1>2, <1>5, <1>6 DEF Window, Getting, Kept
  <1> QED
    BY <1>4, <1>7

LEMMA PutTestOk ==
  ASSUME QueueTypeOK, QueueOk, PutTest
  PROVE  QueueOk'
  <1> USE DEF QueueOk
  <1>1. /\ pc = "putTest" /\ UNCHANGED <<ring, uart, c, next, serials, keys, taken, raced>>
        /\ \/ pc' = "putStore" /\ next # in_tail /\ accepted' = accepted \cup {c}
           \/ pc' = "get" /\ accepted' = accepted
    BY DEF PutTest
  <1>2. QLen' = QLen /\ Num' = Num /\ \A i \in 1 .. Num : Elt(i)' = Elt(i)
    BY <1>1, QueueStays DEF ring
  <1>3. Num \in Nat /\ keys \in Nat
    BY Elements DEF QueueTypeOK
  <1>4. Order'
    BY <1>1, <1>2, <1>3, OrderStays DEF InPutc
  <1>5. NextLen' = NextLen
    BY <1>1 DEF NextLen, ring
  <1>6. Window' /\ Getting'
    BY <1>1, <1>2, <1>5 DEF Window, Getting, ring
  <1>7. Kept'
    BY <1>1, <1>2 DEF Kept
  <1> QED
    BY <1>4, <1>6, <1>7

LEMMA PutStoreOk ==
  ASSUME QueueTypeOK, QueueOk, PutStore
  PROVE  QueueOk'
  <1> USE DEF QueueOk
  <1>1. /\ pc = "putStore" /\ pc' = "putHead" /\ inbuf' = [inbuf EXCEPT ![in_head] = c]
        /\ UNCHANGED <<in_head, in_tail, uart, c, next, serials, keys, accepted, taken, raced>>
    BY DEF PutStore
  <1>2. \A k \in 0 .. QLen - 1 : inbuf'[Slot(k)] = inbuf[Slot(k)]
    <2> SUFFICES ASSUME NEW k \in 0 .. QLen - 1 PROVE Slot(k) # in_head /\ Slot(k) \in 0 .. INBUF - 1
      BY <1>1 DEF QueueTypeOK
    <2>1. QLen \in 0 .. INBUF - 1 /\ INBUF \in Nat
      BY Indices, QueueAssumption DEF QueueTypeOK
    <2>2. k \in 0 .. INBUF - 1 /\ k # QLen
      BY <2>1
    <2> QED
      BY <2>1, <2>2, Indices DEF QueueTypeOK
  <1>3. QLen' = QLen /\ Num' = Num /\ \A i \in 1 .. Num : Elt(i)' = Elt(i)
    BY <1>1, <1>2, QueueStays
  <1>4. Num \in Nat /\ keys \in Nat
    BY Elements DEF QueueTypeOK
  <1>5. Order'
    BY <1>1, <1>3, <1>4, OrderStays DEF InPutc
  <1>6. NextLen' = NextLen /\ inbuf'[in_head] = c
    BY <1>1 DEF NextLen, QueueTypeOK
  <1>7. Window' /\ Getting'
    BY <1>1, <1>3, <1>6 DEF Window, Getting
  <1>8. Kept'
    BY <1>1, <1>3 DEF Kept
  <1> QED
    BY <1>5, <1>7, <1>8

(* in_head goes to next: one character more, or, after an interrupt in the  *)
(* window, back into the queue.                                             *)
LEMMA PutHeadOk ==
  ASSUME QueueTypeOK, QueueOk, PutHead
  PROVE  QueueOk'
  <1> USE DEF QueueOk
  <1>1. /\ pc = "putHead" /\ pc' = "get" /\ in_head' = next
        /\ UNCHANGED <<inbuf, in_tail, uart, c, next, serials, keys, accepted, taken, raced>>
    BY DEF PutHead
  <1>2. /\ NextLen <= QLen + 1 /\ (~raced => NextLen = QLen + 1) /\ next # in_tail /\ c \in accepted
        /\ NextLen = QLen + 1 => inbuf[in_head] = c
    BY <1>1 DEF Window
  <1>3. Num \in Nat /\ keys \in Nat /\ QLen \in Nat /\ NextLen \in 1 .. INBUF /\ INBUF \in Nat
    BY Elements, Indices, QueueAssumption DEF QueueTypeOK
  <1>4. QLen' = NextLen
    <2>1. next \in 0 .. INBUF - 1 /\ in_tail \in 0 .. INBUF - 1 /\ in_tail' = in_tail /\ in_head' = next
      BY <1>1 DEF QueueTypeOK
    <2> QED
      BY <1>2, <1>3, <2>1 DEF QLen, NextLen
  <1>5. QLen' \in 0 .. QLen + 1
    BY <1>2, <1>3, <1>4
  <1>6. /\ Num' = Len(taken) + QLen' /\ Num' \in Nat /\ Num' <= Num + 1
        /\ \A i \in 1 .. Num : i <= Num' => Elt(i)' = Elt(i)
        /\ \A i \in Nat : i = Num + 1 => Elt(i)' = inbuf'[in_head]
    BY <1>1, <1>5, HeadMoves
  <1>7. Window' /\ Getting'
    BY <1>1 DEF Window, Getting
  <1>8. ~InPutc' /\ InPutc
    BY <1>1 DEF InPutc
  <1>9. CASE NextLen = QLen + 1
    <2>1. Num' = Num + 1
      BY <1>3, <1>4, <1>6, <1>9, Elements DEF Num
    <2>2. \A i \in 1 .. Num : Elt(i)' = Elt(i)
      BY <1>3, <1>6, <2>1
    <2>3. \A i \in Nat : i = Num + 1 => Elt(i)' = c
      BY <1>1, <1>2, <1>6, <1>9
    <2>4. /\ c \in Char /\ c.src = "serial" /\ c.n < serials
          /\ \A u \in 1 .. Len(uart) : c.n < uart[u].n
          /\ \A i \in 1 .. Num : Elt(i).src = c.src => Elt(i).n < c.n
      BY <1>8 DEF Order, Pending, QueueTypeOK
    <2>5. Order'
      BY <1>1, <1>2, <1>3, <1>8, <2>1, <2>2, <2>3, <2>4, OrderGrows
    <2>6. Kept'
      <3> SUFFICES ASSUME ~raced', NEW x \in accepted' PROVE \E i \in 1 .. Num' : Elt(i)' = x
        BY DEF Kept
      <3>1. (\E i \in 1 .. Num : Elt(i) = x) \/ x = c
        BY <1>1 DEF Kept
      <3>2. Num + 1 \in 1 .. Num' /\ Num + 1 \in Nat /\ \A i \in 1 .. Num : i \in 1 .. Num'
        BY <1>3, <2>1
      <3> QED
        BY <2>2, <2>3, <3>1, <3>2
    <2> QED
      BY <1>7, <2>5, <2>6
  <1>10. CASE NextLen # QLen + 1
    <2>1. raced' /\ raced
      BY <1>1, <1>2, <1>10
    <2>2. Num' <= Num
      BY <1>2, <1>3, <1>4, <1>6, <1>10, Elements DEF Num
    <2>3. Order'
      BY <1>1, <1>3, <1>6, <1>8, <2>2, OrderStays
    <2> QED
      BY <1>7, <2>1, <2>3 DEF Kept
  <1> QED
    BY <1>9, <1>10

(* The consumer up to the step that moves in_tail, and the line editor.     *)
LEMMA ReplOk ==
  ASSUME QueueTypeOK, QueueOk, Get \/ GetLoad \/ repl_handle \/ repl_exec
  PROVE  QueueOk'
  <1> USE DEF QueueOk
  <1>1. /\ UNCHANGED <<ring, uart, next, serials, keys, accepted, taken, raced>>
        /\ pc \in {"get", "getLoad", "handle", "exec"}
        /\ pc' \in {"poll", "getLoad", "getTail", "exec"}
    BY DEF Get, GetLoad, repl_handle, repl_exec
  <1>2. QLen' = QLen /\ Num' = Num /\ \A i \in 1 .. Num : Elt(i)' = Elt(i)
    BY <1>1, QueueStays DEF ring
  <1>3. Ordered' /\ Arrived' /\ InFifo' /\ Pending'
    BY <1>1, <1>2 DEF Order, Ordered, Arrived, InFifo, Pending, InPutc
  <1>4. Window' /\ Kept'
    BY <1>1, <1>2 DEF Window, Kept
  <1>5. Getting'
    BY <1>1 DEF Getting, ring, Get, GetLoad, repl_handle, repl_exec
  <1> QED
    BY <1>3, <1>4, <1>5 DEF Order

LEMMA GetTailOk ==
  ASSUME QueueTypeOK, QueueOk, GetTail
  PROVE  QueueOk'
  <1> USE DEF QueueOk
  <1>1. /\ pc = "getTail" /\ pc' = "handle" /\ in_tail' = Succ(in_tail) /\ taken' = Append(taken, c)
        /\ UNCHANGED <<inbuf, in_head, uart, c, next, serials, keys, accepted, raced>>
    BY DEF GetTail
  <1>2. in_head # in_tail /\ c = inbuf[in_tail]
    BY <1>1 DEF Getting
  <1>3. Num' = Num /\ \A i \in 1 .. Num : Elt(i)' = Elt(i)
    BY <1>1, <1>2, TailMoves
  <1>4. Num \in Nat /\ keys \in Nat
    BY Elements DEF QueueTypeOK
  <1>5. Order'
    BY <1>1, <1>3, <1>4, OrderStays DEF InPutc
  <1>6. Window' /\ Getting' /\ Kept'
    BY <1>1, <1>3 DEF Window, Getting, Kept
  <1> QED
    BY <1>5, <1>6

LEMMA InitQueueInv == Init => QueueInv
  <1> SUFFICES ASSUME Init PROVE QueueInv
    OBVIOUS
  <1> USE DEF Init
  <1>1. INBUF \in Nat /\ INBUF > 1 /\ LINE_MAX > 0 /\ FifoSize >= 0
    BY QueueAssumption
  <1>2. NoChar \in Char
    BY DEF NoChar, Char, Kinds
  <1>3. QueueTypeOK
    BY <1>1, <1>2 DEF QueueTypeOK
  <1>4. QLen = 0 /\ Len(taken) = 0 /\ Num = 0
    BY DEF QLen, Num
  <1>5. 1 .. Num = {} /\ 1 .. Len(uart) = {}
    BY <1>4
  <1>6. Ordered /\ Arrived /\ InFifo /\ Pending
    BY <1>5 DEF Ordered, Arrived, InFifo, Pending, InPutc
  <1>7. Window /\ Getting /\ Kept /\ LineFits
    BY <1>1 DEF Window, Getting, Kept, LineFits
  <1> QED
    BY <1>3, <1>6, <1>7 DEF QueueInv

LEMMA NextQueueInv == QueueInv /\ [Next]_vars => QueueInv'
  <1> SUFFICES ASSUME QueueInv, [Next]_vars PROVE QueueInv'
    OBVIOUS
  <1>1. QueueTypeOK /\ QueueOk
    BY DEF QueueInv, QueueOk, Order
  <1>2. QueueTypeOK' /\ LineFits'
    BY <1>1, NextTypeOK, NextLineFits DEF QueueInv
  <1>3. QueueOk'
    <2>1. CASE UNCHANGED vars
      <3>1. UNCHANGED <<ring, uart, pc, c, next, serials, keys, accepted, raced, taken>>
        BY <2>1 DEF vars
      <3>2. QLen' = QLen /\ Num' = Num /\ \A i \in 1 .. Num : Elt(i)' = Elt(i)
        BY <1>1, <3>1, QueueStays DEF ring
      <3>3. Num \in Nat /\ keys \in Nat
        BY <1>1, Elements DEF QueueTypeOK
      <3>4. Order'
        BY <1>1, <3>1, <3>2, <3>3, OrderStays DEF InPutc, QueueOk
      <3> QED
        BY <1>1, <3>1, <3>2, <3>4, RestStays DEF QueueOk
    <2>2. CASE Next
      BY <1>1, <2>2, SerialArrivesOk, KeyboardOk, PollOk, SysReadOk, PutNextOk, PutTestOk,
         PutStoreOk, PutHeadOk, ReplOk, GetTailOk DEF Next, repl_run
    <2> QED
      BY <2>1, <2>2
  <1> QED
    BY <1>2, <1>3 DEF QueueInv, QueueOk, Order

LEMMA QueueInvHolds == Spec => []QueueInv
  <1> QED
    BY InitQueueInv, NextQueueInv, PTL DEF Spec

(* The sequence of the properties, element by element.                      *)
LEMMA AllIs ==
  ASSUME QueueTypeOK
  PROVE  LET all == taken \o Queued
         IN DOMAIN all = 1 .. Num /\ \A i \in 1 .. Num : all[i] = Elt(i)
  <1> DEFINE all == taken \o Queued
  <1>1. INBUF \in Nat \ {0} /\ in_head \in 0 .. INBUF - 1 /\ in_tail \in 0 .. INBUF - 1
    BY QueueAssumption DEF QueueTypeOK
  <1>2. \A a \in Nat : a < INBUF + INBUF => a % INBUF = IF a < INBUF THEN a ELSE a - INBUF
    BY <1>1, Wrap
  <1>3. (in_head - in_tail + INBUF) % INBUF = QLen
    <2>1. PICK a \in Nat : a = in_head - in_tail + INBUF
      BY <1>1
    <2>2. a < INBUF + INBUF
      BY <1>1, <2>1
    <2>3. a % INBUF = QLen
      <3>1. a % INBUF = IF a < INBUF THEN a ELSE a - INBUF
        BY <1>2, <2>2
      <3>2. QLen = IF a < INBUF THEN a ELSE a - INBUF
        BY <1>1, <2>1 DEF QLen
      <3> QED
        BY <3>1, <3>2
    <2> QED
      BY <2>1, <2>3
  <1>4. QLen \in 0 .. INBUF - 1 /\ QLen \in Nat /\ Len(taken) \in Nat
    BY Indices, Elements DEF QueueTypeOK
  <1>5. ASSUME NEW k \in 1 .. QLen
        PROVE  (in_tail + k - 1) % INBUF = Slot(k - 1) /\ Slot(k - 1) \in 0 .. INBUF - 1
    <2>1. PICK a \in Nat : a = in_tail + k - 1
      BY <1>1
    <2>2. a < INBUF + INBUF /\ k - 1 \in 0 .. INBUF - 1 /\ in_tail + (k - 1) = a
      BY <1>1, <1>4, <2>1
    <2>3. a % INBUF = Slot(k - 1)
      <3>1. a % INBUF = IF a < INBUF THEN a ELSE a - INBUF
        BY <1>2, <2>2
      <3>2. Slot(k - 1) = IF a < INBUF THEN a ELSE a - INBUF
        BY <1>1, <2>1 DEF Slot
      <3> QED
        BY <3>1, <3>2
    <2> QED
      BY <2>1, <2>2, <2>3, Indices DEF QueueTypeOK
  <1>6. Queued = [k \in 1 .. QLen |-> inbuf[Slot(k - 1)]]
    BY <1>3, <1>5 DEF Queued
  <1>7. Queued \in Seq(Char) /\ Len(Queued) = QLen
    <2>1. Queued \in [1 .. QLen -> Char]
      BY <1>5, <1>6 DEF QueueTypeOK
    <2> QED
      BY <1>4, <2>1
  <1>8. taken \in Seq(Char)
    BY DEF QueueTypeOK
  <1>9. /\ all \in Seq(Char) /\ Len(all) = Num
        /\ \A i \in 1 .. Num : all[i] = IF i <= Len(taken) THEN taken[i] ELSE Queued[i - Len(taken)]
    BY <1>7, <1>8, ConcatProperties DEF Num
  <1>10. ASSUME NEW i \in 1 .. Num, ~(i <= Len(taken))
         PROVE  Queued[i - Len(taken)] = inbuf[Slot(i - Len(taken) - 1)]
    <2>1. i - Len(taken) \in 1 .. QLen
      BY <1>4, <1>10 DEF Num
    <2> QED
      BY <1>6, <2>1
  <1> HIDE DEF all
  <1>11. \A i \in 1 .. Num : all[i] = Elt(i)
    BY <1>9, <1>10 DEF Elt
  <1>12. DOMAIN all = 1 .. Num
    BY <1>9
  <1> QED
    BY <1>11, <1>12 DEF all

----------------------------------------------------------------------------
(* For every ring and any interleaving of the polling loop with keyboard    *)
(* interrupts: what the REPL gets is what was accepted, each character at   *)
(* most once and those of a source in the order they came.  The interrupt   *)
(* inside repl_input_putc can lose characters but neither repeat nor        *)
(* reorder them.                                                            *)
THEOREM DeliversInOrder == Spec => [](QueueTypeOK /\ InOrderAtMostOnce)
  <1>1. QueueInv => QueueTypeOK /\ InOrderAtMostOnce
    <2> SUFFICES ASSUME QueueInv PROVE InOrderAtMostOnce
      BY DEF QueueInv
    <2> DEFINE all == taken \o Queued
    <2>1. DOMAIN all = 1 .. Num /\ \A i \in 1 .. Num : all[i] = Elt(i)
      BY AllIs DEF QueueInv
    <2> HIDE DEF all
    <2>2. Range(all) \subseteq accepted
      BY <2>1 DEF Range, QueueInv, Arrived
    <2>3. \A i, j \in DOMAIN all : i < j /\ all[i].src = all[j].src => all[i].n < all[j].n
      BY <2>1 DEF QueueInv, Ordered
    <2> QED
      BY <2>2, <2>3 DEF InOrderAtMostOnce, all
  <1> QED
    BY <1>1, QueueInvHolds, PTL

(* A character that the ring had room for is lost only when the keyboard    *)
(* interrupt stores one while the polling loop is inside repl_input_putc.   *)
THEOREM LossNeedsTheWindow == Spec => []LossOnlyInWindow
  <1>1. QueueInv => LossOnlyInWindow
    <2> SUFFICES ASSUME QueueInv, ~raced, pc \notin {"putStore", "putHead"}
                 PROVE  accepted = Range(taken \o Queued)
      BY DEF LossOnlyInWindow, NoLostInput
    <2> DEFINE all == taken \o Queued
    <2>1. DOMAIN all = 1 .. Num /\ \A i \in 1 .. Num : all[i] = Elt(i)
      BY AllIs DEF QueueInv
    <2> HIDE DEF all
    <2>2. \A x \in accepted : \E i \in 1 .. Num : Elt(i) = x
      BY DEF QueueInv, Kept
    <2>3. \A i \in 1 .. Num : Elt(i) \in accepted
      BY DEF QueueInv, Arrived
    <2>4. accepted = Range(all)
      BY <2>1, <2>2, <2>3 DEF Range
    <2> QED
      BY <2>4 DEF all
  <1> QED
    BY <1>1, QueueInvHolds, PTL

(* The terminating zero of a line fits, for every line buffer.              *)
THEOREM LineAlwaysFits == Spec => []LineFits
  <1>1. QueueInv => LineFits
    BY DEF QueueInv
  <1> QED
    BY <1>1, QueueInvHolds, PTL

----------------------------------------------------------------------------
(* The REPL gets to what is in the ring                                     *)

(* The steps of repl_run before it takes a character, at most.              *)
StepsToTake ==
  CASE pc = "handle"   -> 10
    [] pc = "exec"     -> 9
    [] pc = "poll"     -> 8
    [] pc = "putNext"  -> 7
    [] pc = "putTest"  -> 6
    [] pc = "putStore" -> 5
    [] pc = "putHead"  -> 4
    [] pc = "get"      -> 3
    [] pc = "getLoad"  -> 2
    [] OTHER           -> 1

OnlyTakingEmptiesRing ==
  [][in_head # in_tail =>
       \/ GetTail
       \/ /\ in_head' # in_tail' /\ StepsToTake' <= StepsToTake
          /\ repl_run => StepsToTake' < StepsToTake]_vars

(* What InputConsumed rests on: only repl_input_getc can empty the ring,    *)
(* not even a polling loop that winds in_head back over what an interrupt   *)
(* stored meanwhile (repl.c:26-29), and whatever arrives does not delay the *)
(* next character taken beyond ten steps of repl_run (repl.c:513-523).      *)
THEOREM RingIsDrained == Spec => OnlyTakingEmptiesRing
  <1> DEFINE A == in_head # in_tail =>
                    \/ GetTail
                    \/ /\ in_head' # in_tail' /\ StepsToTake' <= StepsToTake
                       /\ repl_run => StepsToTake' < StepsToTake
  <1>1. QueueInv /\ [Next]_vars => [A]_vars
    <2> SUFFICES ASSUME QueueInv, Next, in_head # in_tail, ~GetTail
                 PROVE  /\ in_head' # in_tail' /\ StepsToTake' <= StepsToTake
                        /\ repl_run => StepsToTake' < StepsToTake
      OBVIOUS
    <2>0. StepsToTake \in Nat /\ StepsToTake' \in Nat
      BY DEF StepsToTake
    <2>1. ASSUME NEW k \in Kinds, SerialArrives(k)
          PROVE  UNCHANGED <<in_head, in_tail, pc>>
      BY <2>1 DEF SerialArrives, ring
    <2>2. ASSUME NEW sc \in Scancodes, keyboard_irq(sc)
          PROVE  in_head' # in_tail' /\ UNCHANGED pc
      BY <2>2 DEF keyboard_irq, repl_input_putc
    <2>3. ASSUME SysRead PROVE UNCHANGED <<in_head, in_tail, pc>>
      BY <2>3 DEF SysRead, ring
    <2>4. ASSUME repl_run PROVE in_head' # in_tail' /\ StepsToTake' < StepsToTake
      <3>1. CASE Poll \/ PutNext \/ PutTest \/ PutStore
        BY <3>1 DEF Poll, PutNext, PutTest, PutStore, ring, StepsToTake
      <3>2. CASE PutHead
        BY <3>2 DEF PutHead, StepsToTake, QueueInv, Window
      <3>3. CASE Get \/ GetLoad \/ repl_handle \/ repl_exec
        BY <3>3 DEF Get, GetLoad, repl_handle, repl_exec, ring, StepsToTake
      <3> QED
        BY <2>4, <3>1, <3>2, <3>3 DEF repl_run
    <2>5. ASSUME UNCHANGED pc PROVE StepsToTake' <= StepsToTake /\ ~repl_run
      <3>1. ~repl_run
        BY <2>5 DEF repl_run, Poll, PutNext, PutTest, PutStore, PutHead, Get, GetLoad, GetTail,
                    repl_handle, repl_exec
      <3> QED
        BY <2>0, <2>5, <3>1 DEF StepsToTake
    <2>6. CASE repl_run
      BY <2>0, <2>4, <2>6
    <2>7. CASE (\E k \in Kinds : SerialArrives(k)) \/ (\E sc \in Scancodes : keyboard_irq(sc)) \/ SysRead
      <3>1. UNCHANGED pc /\ in_head' # in_tail'
        BY <2>1, <2>2, <2>3, <2>7
      <3> QED
        BY <2>5, <3>1
    <2> QED
      BY <2>6, <2>7 DEF Next
  <1> QED
    BY <1>1, QueueInvHolds, PTL DEF Spec, OnlyTakingEmptiesRing
=============================================================================
