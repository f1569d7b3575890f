----------------------------- MODULE InputQueue -----------------------------
(***************************************************************************)
(* The REPL's input path: the ring buffer of repl.c with its two producers  *)
(* (the polled serial port in repl_run, and keyboard_irq of keyboard.c), its *)
(* one consumer, and the line editor repl_handle.                           *)
(*                                                                          *)
(* repl_run executes with interrupts enabled, one access to the volatile    *)
(* indices per step; IRQ1 may come between any two steps, and its handler   *)
(* runs to the end (interrupt gate) before repl_run continues.              *)
(***************************************************************************)
EXTENDS Integers, Sequences, FiniteSets, Functions

CONSTANTS
  INBUF,       \* slots of the ring
  LINE_MAX,    \* bytes of the line buffer
  FifoSize,    \* receive FIFO of the 16550 UART
  MaxSerial,   \* bound: characters that arrive on the serial line
  MaxKeys      \* bound: scancodes that arrive from the keyboard

ASSUME QueueAssumption ==
  /\ INBUF \in Nat \ {0, 1}
  /\ LINE_MAX \in Nat \ {0}
  /\ FifoSize \in Nat \ {0}
  /\ MaxSerial \in Nat /\ MaxKeys \in Nat

(* A character: where it came from, its number there, and what the line     *)
(* editor makes of it: a newline, a backspace or any other.                 *)
Kinds == {"char", "nl", "bs"}
Char == [src : {"serial", "keyboard"}, n : Nat, kind : Kinds]

(* A make code of a mapped key, of a key without a character, of a shift    *)
(* key, or the break code of a shift key or of another one.                 *)
Scancodes == {"letter", "enter", "bksp", "dead", "shift", "unshift", "break"}

VARIABLES
  inbuf, in_head, in_tail,   \* the ring
  uart,                      \* the UART's receive FIFO
  shift,                     \* keyboard.c's shift state
  line_len,                  \* the line editor
  pc, c, next,               \* repl_run: position and locals
  \* History.
  serials, keys,             \* characters and scancodes that arrived
  accepted,                  \* characters the ring had room for
  raced,                     \* an interrupt stored a character inside putc
  taken                      \* characters the REPL got, in order

ring == <<inbuf, in_head, in_tail>>
vars == <<ring, uart, shift, line_len, pc, c, next, serials, keys, accepted, raced, taken>>

Succ(i) == (i + 1) % INBUF

----------------------------------------------------------------------------
(* The devices and the interrupt.                                           *)

(* A character arrives; a full FIFO loses it.                               *)
SerialArrives(k) ==
  /\ serials < MaxSerial
  /\ serials' = serials + 1
  /\ uart' = IF Len(uart) < FifoSize
             THEN Append(uart, [src |-> "serial", n |-> serials, kind |-> k])
             ELSE uart
  /\ UNCHANGED <<ring, shift, line_len, pc, c, next, keys, accepted, taken, raced>>

(* map_norm and map_shift; "none" is a table entry of 0.  Backspace has no  *)
(* entry in map_shift.                                                      *)
Keymap(sc) ==
  CASE sc = "letter" -> "char"
    [] sc = "enter"  -> "nl"
    [] sc = "bksp"   -> IF shift THEN "none" ELSE "bs"
    [] OTHER         -> "none"

(* Mutant: the ring is full only when its indices meet.                     *)
putc_irq_nofull(ch) ==
  /\ inbuf' = [inbuf EXCEPT ![in_head] = ch]
  /\ in_head' = Succ(in_head)
  /\ accepted' = accepted \cup {ch}

(* repl_input_putc, all of it: the interrupt handler is not interrupted.    *)
repl_input_putc(ch) ==
  IF Succ(in_head) # in_tail
  THEN /\ inbuf' = [inbuf EXCEPT ![in_head] = ch]
       /\ in_head' = Succ(in_head)
       /\ accepted' = accepted \cup {ch}
  ELSE UNCHANGED <<inbuf, in_head, accepted>>

keyboard_irq(sc) ==
  /\ keys < MaxKeys
  /\ keys' = keys + 1
  /\ shift' = CASE sc = "shift"   -> TRUE
                [] sc = "unshift" -> FALSE
                [] OTHER          -> shift
  /\ IF Keymap(sc) = "none"
     THEN UNCHANGED <<inbuf, in_head, accepted>>
     ELSE repl_input_putc([src |-> "keyboard", n |-> keys, kind |-> Keymap(sc)])
  /\ raced' = (raced \/ (in_head' # in_head /\ pc \in {"putTest", "putStore", "putHead"}))
  /\ UNCHANGED <<in_tail, uart, line_len, pc, c, next, serials, taken>>

----------------------------------------------------------------------------
(* repl_run                                                                 *)

(* serial_rx_ready and serial_read_char.                                    *)
Poll ==
  /\ pc = "poll"
  /\ IF uart # <<>>
     THEN c' = Head(uart) /\ uart' = Tail(uart) /\ pc' = "putNext"
     ELSE pc' = "get" /\ UNCHANGED <<c, uart>>
  /\ UNCHANGED <<ring, shift, line_len, next, serials, keys, accepted, taken, raced>>

(* repl_input_putc in four accesses: next is computed from one read of      *)
(* in_head, the slot from another.                                          *)
PutNext ==
  /\ pc = "putNext"
  /\ next' = Succ(in_head)
  /\ pc' = "putTest"
  /\ UNCHANGED <<ring, uart, shift, line_len, c, serials, keys, accepted, taken, raced>>

PutTest ==
  /\ pc = "putTest"
  /\ IF next # in_tail
     THEN pc' = "putStore" /\ accepted' = accepted \cup {c}
     ELSE pc' = "get" /\ UNCHANGED accepted
  /\ UNCHANGED <<ring, uart, shift, line_len, c, next, serials, keys, taken, raced>>

PutStore ==
  /\ pc = "putStore"
  /\ inbuf' = [inbuf EXCEPT ![in_head] = c]
  /\ pc' = "putHead"
  /\ UNCHANGED <<in_head, in_tail, uart, shift, line_len, c, next, serials, keys,
                 accepted, taken, raced>>

(* Mutant: the index advances from what it is now, not from what was read.  *)
PutHeadAgain ==
  /\ pc = "putHead"
  /\ in_head' = Succ(in_head)
  /\ pc' = "get"
  /\ UNCHANGED <<inbuf, in_tail, uart, shift, line_len, c, next, serials, keys,
                 accepted, taken, raced>>

PutHead ==
  /\ pc = "putHead"
  /\ in_head' = next
  /\ pc' = "get"
  /\ UNCHANGED <<inbuf, in_tail, uart, shift, line_len, c, next, serials, keys,
                 accepted, taken, raced>>

(* repl_input_getc: test, load, advance.                                    *)
Get ==
  /\ pc = "get"
  /\ pc' = IF in_head = in_tail THEN "poll" ELSE "getLoad"
  /\ UNCHANGED <<ring, uart, shift, line_len, c, next, serials, keys, accepted, taken, raced>>

GetLoad ==
  /\ pc = "getLoad"
  /\ c' = inbuf[in_tail]
  /\ pc' = "getTail"
  /\ UNCHANGED <<ring, uart, shift, line_len, next, serials, keys, accepted, taken, raced>>

(* Mutant: the tail stays.                                                  *)
GetTailStuck ==
  /\ pc = "getTail"
  /\ taken' = taken
  /\ pc' = "handle"
  /\ UNCHANGED <<ring, uart, shift, line_len, c, next, serials, keys, accepted, raced>>

GetTail ==
  /\ pc = "getTail"
  /\ in_tail' = Succ(in_tail)
  /\ taken' = Append(taken, c)
  /\ pc' = "handle"
  /\ UNCHANGED <<inbuf, in_head, uart, shift, line_len, c, next, serials, keys, accepted, raced>>

(* Mutant: the last byte of the line buffer is used for a character.        *)
repl_handle_full ==
  /\ pc = "handle"
  /\ line_len' = CASE c.kind = "bs" /\ line_len > 0          -> line_len - 1
                   [] c.kind = "char" /\ line_len < LINE_MAX -> line_len + 1
                   [] OTHER                                  -> line_len
  /\ pc' = IF c.kind = "nl" THEN "exec" ELSE "poll"
  /\ UNCHANGED <<ring, uart, shift, c, next, serials, keys, accepted, taken, raced>>

(* The line editor: a newline runs the command, a backspace at the start of *)
(* the line and a character beyond its end are ignored.                     *)
repl_handle ==
  /\ pc = "handle"
  /\ line_len' = CASE c.kind = "bs" /\ line_len > 0              -> line_len - 1
                   [] c.kind = "char" /\ line_len < LINE_MAX - 1 -> line_len + 1
                   [] OTHER                                      -> line_len
  /\ pc' = IF c.kind = "nl" THEN "exec" ELSE "poll"
  /\ UNCHANGED <<ring, uart, shift, c, next, serials, keys, accepted, taken, raced>>

(* repl_exec terminates the line and runs the command; the REPL does not    *)
(* poll meanwhile, the keyboard interrupt still feeds the ring.             *)
repl_exec ==
  /\ pc = "exec"
  /\ line_len' = 0
  /\ pc' = "poll"
  /\ UNCHANGED <<ring, uart, shift, c, next, serials, keys, accepted, taken, raced>>

(* System call 3 of a program the command started takes characters straight *)
(* from the UART, past the ring, until there is none or it has enough (the  *)
(* program says how many).                                                  *)
SysRead ==
  /\ pc = "exec" /\ uart # <<>>
  /\ uart' = Tail(uart)
  /\ UNCHANGED <<ring, shift, line_len, pc, c, next, serials, keys, accepted, taken, raced>>

----------------------------------------------------------------------------
NoChar == [src |-> "serial", n |-> 0, kind |-> "char"]

Init ==
  /\ inbuf = [i \in 0 .. INBUF - 1 |-> NoChar]
  /\ in_head = 0 /\ in_tail = 0
  /\ uart = <<>> /\ shift = FALSE /\ line_len = 0
  /\ pc = "poll" /\ c = NoChar /\ next = 0
  /\ serials = 0 /\ keys = 0 /\ accepted = {} /\ raced = FALSE
  /\ taken = <<>>

repl_run ==
  \/ Poll \/ PutNext \/ PutTest \/ PutStore \/ PutHead
  \/ Get \/ GetLoad \/ GetTail \/ repl_handle \/ repl_exec

Next ==
  \/ \E k \in Kinds : SerialArrives(k)
  \/ \E sc \in Scancodes : keyboard_irq(sc)
  \/ repl_run
  \/ SysRead

(* The loop keeps running; commands return.                                 *)
Spec == Init /\ [][Next]_vars /\ WF_vars(repl_run)

----------------------------------------------------------------------------
(* Properties *)

(* The values the variables range over.                                     *)
QueueTypeOK ==
  /\ inbuf \in [0 .. INBUF - 1 -> Char]
  /\ in_head \in 0 .. INBUF - 1 /\ in_tail \in 0 .. INBUF - 1
  /\ uart \in Seq(Char) /\ Len(uart) <= FifoSize
  /\ shift \in BOOLEAN
  /\ line_len \in Nat
  /\ pc \in {"poll", "putNext", "putTest", "putStore", "putHead",
             "get", "getLoad", "getTail", "handle", "exec"}
  /\ c \in Char /\ next \in 0 .. INBUF - 1
  /\ serials \in Nat /\ keys \in Nat
  /\ accepted \subseteq Char /\ raced \in BOOLEAN
  /\ taken \in Seq(Char)

(* The characters in the ring, oldest first.                                *)
Queued ==
  [i \in 1 .. (in_head - in_tail + INBUF) % INBUF |->
     inbuf[(in_tail + i - 1) % INBUF]]

(* What the REPL has got followed by what it will get: every character at   *)
(* most once, those of one source in the order they came, and nothing that  *)
(* was never accepted.  A stale slot, a double delivery or an overwritten   *)
(* unread slot would show here, also when both producers are inside         *)
(* repl_input_putc (repl.c:24-40).                                          *)
InOrderAtMostOnce ==
  LET all == taken \o Queued
  IN /\ Range(all) \subseteq accepted
     /\ \A i, j \in DOMAIN all : i < j /\ all[i].src = all[j].src => all[i].n < all[j].n

(* Outside repl_input_putc, whatever the ring had room for was delivered or *)
(* is still in it.  repl.c:17-19 relies on it: "no locks needed".           *)
NoLostInput ==
  pc \notin {"putStore", "putHead"} => accepted = Range(taken \o Queued)

(* The only way to lose one: a keyboard interrupt that stores a character   *)
(* after the polling loop read in_head for next and before it wrote in_head *)
(* back.  Interrupts at any other point, a full ring and wrapping lose      *)
(* nothing that was accepted (repl.c:26-29, 37-38).                         *)
LossOnlyInWindow == raced \/ NoLostInput

(* The terminating zero of line[line_len] fits the buffer, however the      *)
(* line was typed and edited (repl.c:498, 507).                             *)
LineFits == line_len < LINE_MAX

(* The REPL catches up: what is in the ring is consumed.                    *)
InputConsumed == (in_head # in_tail) ~> (in_head = in_tail)
=============================================================================
