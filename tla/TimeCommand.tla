---------------------------- MODULE TimeCommand ----------------------------
(***************************************************************************)
(* The time command (cmd_time of src/src/kernel/repl.c): it reads the clock *)
(* and prints it, with interrupts enabled.  The keyboard interrupt prints   *)
(* a line of its own each time (keyboard.c:63-66), on the same serial port  *)
(* and for long enough to let the clock run on under rtc_read.  The handler *)
(* is not interrupted, and the command waits for it to end.                 *)
(***************************************************************************)
EXTENDS Rtc, SerialTx

CONSTANTS
  TimeChars,   \* characters of the line the command prints (21)
  KeyChars,    \* characters of the line the handler prints (10 or 14)
  MaxKeys      \* bound: keyboard interrupts in the course of one command

ASSUME TimeAssumption ==
  /\ Writers = {"command", "keyboard"}
  /\ {TimeChars, KeyChars} \subseteq Nat \ {0} /\ MaxKeys \in Nat

VARIABLE keys   \* bound: keyboard interrupts since the command started

vars == <<rtcVars, txVars, keys>>

InHandler == left["keyboard"] > 0

Init == RtcInit /\ TxInit /\ keys = 0

(* The command calls rtc_read, which starts by looking at UIP.              *)
cmd_time ==
  /\ rpc = "idle" /\ ~InHandler
  /\ rpc' = "uip" /\ keys' = 0 /\ time' = NoTime /\ spoiled' = FALSE /\ delayed' = FALSE
  /\ UNCHANGED <<chip, k, got, began, settled, dated, txVars>>

Read == ~InHandler /\ RtcStep /\ UNCHANGED <<txVars, keys>>

(* kprintf of the result: rpc stays "done" until the last character.        *)
PrintTime ==
  /\ rpc = "done" /\ ~InHandler /\ left["command"] = 0
  /\ left' = [left EXCEPT !["command"] = TimeChars]
  /\ rpc' = "print"
  /\ UNCHANGED <<chip, k, got, time, began, settled, dated, spoiled, delayed, fifo, ready, lost, keys>>

Printed ==
  /\ rpc = "print" /\ ~InHandler /\ left["command"] = 0
  /\ rpc' = "idle"
  /\ UNCHANGED <<chip, k, got, time, began, settled, dated, spoiled, delayed, txVars, keys>>

Put(w) ==
  /\ w = "command" => ~InHandler
  /\ PutTest(w) \/ PutWrite(w)
  /\ UNCHANGED <<rtcVars, keys>>

(* keyboard_irq between any two steps of the command.                       *)
keyboard_irq ==
  /\ ~InHandler /\ keys < MaxKeys
  /\ keys' = keys + 1
  /\ left' = [left EXCEPT !["keyboard"] = KeyChars]
  /\ delayed' = TRUE
  /\ UNCHANGED <<chip, reader, fifo, ready, lost>>

Cpu == cmd_time \/ Read \/ PrintTime \/ Printed \/ Put("command") \/ Put("keyboard")

Devices ==
  \/ Chip /\ UNCHANGED <<txVars, keys>>
  \/ Transmit /\ UNCHANGED <<rtcVars, keys>>

Next == Cpu \/ Devices \/ keyboard_irq

(* The CPU keeps executing, the transmitter sends, and an update that has   *)
(* been announced takes place and ends.                                     *)
Spec ==
  /\ Init /\ [][Next]_vars
  /\ WF_vars(Cpu)
  /\ WF_vars(Transmit /\ UNCHANGED <<rtcVars, keys>>)
  /\ WF_vars((UpdateBegin \/ UpdateEnd) /\ UNCHANGED <<txVars, keys>>)

----------------------------------------------------------------------------

(* The values the variables range over.                                     *)
TimeTypeOK == RtcTypeOK /\ TxTypeOK /\ keys \in 0 .. MaxKeys

(* Reading the seconds twice suffices for the registers read between: when  *)
(* no read fell into an update, the seconds, minutes, hour, day, month and  *)
(* year of the result are those of one date, the one the clock showed as    *)
(* the attempt was accepted (rtc.c:29-48).  The century, read after the     *)
(* loop, is of the date shown then; a missing register means 20xx           *)
(* (rtc.c:50-53).                                                           *)
StableRead ==
  rpc \in {"done", "print"} /\ ~spoiled =>
     time = [Instants[settled] EXCEPT
               !["century"] = IF cmos32 = -1 THEN Instants[dated]["century"] ELSE 20]

(* Only an interrupt that delays rtc_read after it saw UIP clear lets a     *)
(* read fall into an update, or lets the century register, read after the   *)
(* loop, belong to a later date than the rest (rtc.c:30, 50).               *)
SpoiledOnlyByInterrupt ==
  spoiled \/ (rpc \in {"done", "print"} /\ dated # settled) => delayed

(* No character is lost although the handler prints between the command's   *)
(* test for an empty transmitter and its write: the FIFO takes the second   *)
(* character (serial.c:31-33).                                              *)
NothingLost == ~lost

(* The time command ends: neither UIP, retries, nor the transmitter hold it *)
(* up for good (rtc.c:29-41, serial.c:31).                                  *)
TimeReturns == rpc # "idle" ~> rpc = "idle"
=============================================================================
