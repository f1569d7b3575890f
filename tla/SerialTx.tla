------------------------------ MODULE SerialTx ------------------------------
(***************************************************************************)
(* The transmit side of the serial port (src/src/kernel/serial.c): tasks    *)
(* put characters by polling for an empty transmitter and then writing; an  *)
(* interrupt may come in between.  What the characters are does not matter: *)
(* the transmit FIFO, external, is the number it holds.                     *)
(***************************************************************************)
EXTENDS Integers

CONSTANTS
  Writers,     \* who prints
  TxDepth      \* characters the transmit FIFO takes (16)

ASSUME TxAssumption == TxDepth \in Nat \ {0, 1}

VARIABLES
  fifo,    \* characters waiting in the transmitter
  left,    \* characters each writer still has to put
  ready,   \* writers that saw the transmitter empty and will write next
  lost     \* history: a character was written to a full FIFO

txVars == <<fifo, left, ready, lost>>

TxInit ==
  /\ fifo = 0 /\ lost = FALSE /\ ready = {}
  /\ left = [w \in Writers |-> 0]

(* Mutant: the FIFO is left disabled: the holding register takes one.       *)
NoFifo == 1

(* serial_init enables the FIFO.                                            *)
Fifo == TxDepth

(* The two halves of serial_putc.                                           *)
PutTest(w) ==
  /\ left[w] > 0 /\ w \notin ready /\ fifo = 0
  /\ ready' = ready \cup {w}
  /\ UNCHANGED <<fifo, left, lost>>

PutWrite(w) ==
  /\ w \in ready
  /\ ready' = ready \ {w}
  /\ left' = [left EXCEPT ![w] = @ - 1]
  /\ IF fifo < Fifo THEN fifo' = fifo + 1 /\ UNCHANGED lost
                    ELSE lost' = TRUE /\ UNCHANGED fifo

Transmit ==
  /\ fifo > 0
  /\ fifo' = fifo - 1
  /\ UNCHANGED <<left, ready, lost>>

(* The values the variables range over.                                     *)
TxTypeOK ==
  /\ fifo \in 0 .. TxDepth /\ ready \subseteq Writers
  /\ left \in [Writers -> Nat] /\ lost \in BOOLEAN
=============================================================================
