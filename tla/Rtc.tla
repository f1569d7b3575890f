-------------------------------- MODULE Rtc --------------------------------
(***************************************************************************)
(* The clock of the CMOS chip and the loop of rtc_read (src/src/kernel/     *)
(* rtc.c) that reads it, one register per step.  The chip raises UIP, some  *)
(* time later starts an update during which a register may show the old or  *)
(* the new value, and clears UIP when the update is over.  From UIP to the  *)
(* update there are at least 244 microseconds, far longer than the reads of *)
(* one attempt: an update starts inside an attempt only if an interrupt     *)
(* delayed the attempt.  The interrupts of one attempt do not add up to a   *)
(* minute.  The chip is external, modelled from rtc.c's use.                *)
(***************************************************************************)
EXTENDS Integers, Sequences

CONSTANTS
  Instants,      \* bound: the successive calendar dates the clock shows
  Minute,        \* 60: the seconds after which the seconds may be the same
  CenturyBytes   \* what register 0x32 may hold for good; -1: the century

Registers == {"sec", "min", "hour", "day", "month", "year", "century"}

(* The order of the reads of an attempt, before the seconds again.          *)
Order == <<"sec", "min", "hour", "day", "month", "year">>

ASSUME RtcAssumption ==
  /\ Instants \in Seq([Registers -> Nat]) /\ Instants # <<>>
  /\ Minute \in Nat \ {0}
  /\ \A m, n \in DOMAIN Instants : m < n /\ n < m + Minute => Instants[m].sec # Instants[n].sec
  /\ CenturyBytes \subseteq -1 .. 255

VARIABLES
  clock,      \* the instant the chip shows: an index of Instants
  uip,        \* bit 7 of register 0x0A
  updating,   \* the update is going on
  cmos32,     \* the byte of register 0x32, or -1: the chip keeps it
  rpc,        \* rtc_read: "uip", "read", "again", "century", "done"; "idle"
  k,          \* the next read of Order
  got,        \* s1, min, hour, day, month and year, as read
  time,       \* the result
  began,      \* history: the instant shown when the attempt started
  settled,    \* history: the instant shown when the attempt was accepted
  dated,      \* history: the instant shown when the century was read
  spoiled,    \* history: a read fell into an update
  delayed     \* history: an interrupt since UIP was seen clear

chip == <<clock, uip, updating, cmos32>>
reader == <<rpc, k, got, time, began, settled, dated, spoiled>>
rtcVars == <<chip, reader, delayed>>

(* Registers hold two decimal digits, one per nibble.                       *)
Bcd(v) == ((v \div 10) * 16) + (v % 10)

bcd2bin(v) == (v % 16) + ((v \div 16) * 10)

Byte(n, r) == IF r = "century" /\ cmos32 # -1 THEN cmos32 ELSE Bcd(Instants[n][r])

(* What reading register r may yield.                                       *)
cmos_read(r) == {Byte(clock, r)} \cup (IF updating THEN {Byte(clock + 1, r)} ELSE {})

NoTime == [r \in Registers |-> 0]

RtcInit ==
  /\ clock = 1 /\ uip = FALSE /\ updating = FALSE /\ cmos32 \in CenturyBytes
  /\ rpc = "idle" /\ k = 1 /\ got = NoTime /\ time = NoTime
  /\ began = 1 /\ settled = 1 /\ dated = 1 /\ spoiled = FALSE /\ delayed = FALSE

----------------------------------------------------------------------------
(* The chip *)

InAttempt == rpc \in {"read", "again", "century"}

UipRise ==
  /\ ~uip /\ clock < Len(Instants)
  /\ uip' = TRUE
  /\ UNCHANGED <<clock, updating, cmos32, reader, delayed>>

UpdateBegin ==
  /\ uip /\ ~updating
  /\ InAttempt => delayed /\ clock + 1 < began + Minute
  /\ updating' = TRUE
  /\ UNCHANGED <<clock, uip, cmos32, reader, delayed>>

UpdateEnd ==
  /\ updating
  /\ updating' = FALSE /\ uip' = FALSE /\ clock' = clock + 1
  /\ UNCHANGED <<cmos32, reader, delayed>>

Chip == UipRise \/ UpdateBegin \/ UpdateEnd

----------------------------------------------------------------------------
(* rtc_read *)

(* Mutant: the attempt starts whatever UIP says.                            *)
UipClearIgnored ==
  /\ rpc = "uip"
  /\ rpc' = "read" /\ k' = 1 /\ began' = clock /\ spoiled' = FALSE /\ delayed' = FALSE
  /\ UNCHANGED <<chip, got, time, settled, dated>>

(* The inner loop leaves when UIP is clear.                                 *)
UipClear ==
  /\ rpc = "uip" /\ ~uip
  /\ rpc' = "read" /\ k' = 1 /\ began' = clock /\ spoiled' = FALSE /\ delayed' = FALSE
  /\ UNCHANGED <<chip, got, time, settled, dated>>

ReadRegister ==
  /\ rpc = "read"
  /\ \E b \in cmos_read(Order[k]) : got' = [got EXCEPT ![Order[k]] = b]
  /\ IF k < Len(Order) THEN k' = k + 1 /\ rpc' = "read" ELSE k' = 1 /\ rpc' = "again"
  /\ spoiled' = (spoiled \/ updating)
  /\ UNCHANGED <<chip, time, began, settled, dated, delayed>>

(* Mutant: the attempt is accepted without comparing the seconds.           *)
ReadAgainUnchecked ==
  /\ rpc = "again"
  /\ rpc' = "century"
  /\ settled' = clock /\ spoiled' = (spoiled \/ updating)
  /\ UNCHANGED <<chip, k, got, time, began, dated, delayed>>

(* Mutant: the comparison is the wrong way round.                           *)
ReadAgainInverted ==
  /\ rpc = "again"
  /\ \E b \in cmos_read("sec") : rpc' = IF b # got.sec THEN "century" ELSE "uip"
  /\ settled' = clock /\ spoiled' = (spoiled \/ updating)
  /\ UNCHANGED <<chip, k, got, time, began, dated, delayed>>

(* s2: the attempt counts only if the seconds are still the same.           *)
ReadAgain ==
  /\ rpc = "again"
  /\ \E b \in cmos_read("sec") : rpc' = IF b = got.sec THEN "century" ELSE "uip"
  /\ settled' = clock /\ spoiled' = (spoiled \/ updating)
  /\ UNCHANGED <<chip, k, got, time, began, dated, delayed>>

(* A century outside 19..25 is taken for a missing register.                *)
Century(b) == IF bcd2bin(b) < 19 \/ bcd2bin(b) > 25 THEN 20 ELSE bcd2bin(b)

(* The century is read after the loop, whatever the clock shows by then.    *)
ReadCentury ==
  /\ rpc = "century"
  /\ \E b \in cmos_read("century") :
        time' = [r \in Registers |-> IF r = "century" THEN Century(b) ELSE bcd2bin(got[r])]
  /\ rpc' = "done" /\ got' = NoTime
  /\ dated' = clock /\ spoiled' = (spoiled \/ updating)
  /\ UNCHANGED <<chip, k, began, settled, delayed>>

RtcStep == UipClear \/ ReadRegister \/ ReadAgain \/ ReadCentury

(* The registers of a date hold two digits each.  The century is one that   *)
(* rtc_read accepts, and the byte of a chip without that register is not.   *)
ASSUME CalendarAssumption ==
  /\ \A n \in DOMAIN Instants, r \in Registers : Instants[n][r] \in 0 .. 99
  /\ \A n \in DOMAIN Instants : Instants[n]["century"] \in 19 .. 25
  /\ \A v \in CenturyBytes \ {-1} : Century(v) = 20

(* The values the variables range over.                                     *)
RtcTypeOK ==
  /\ {clock, began, settled, dated} \subseteq DOMAIN Instants
  /\ uip \in BOOLEAN /\ updating \in BOOLEAN
  /\ spoiled \in BOOLEAN /\ delayed \in BOOLEAN
  /\ cmos32 \in CenturyBytes
  /\ rpc \in {"idle", "uip", "read", "again", "century", "done", "print"}
  /\ k \in 1 .. Len(Order)
  /\ got \in [Registers -> 0 .. 255] /\ time \in [Registers -> 0 .. 165]
=============================================================================
