----------------------------- MODULE TimeProofs -----------------------------
(***************************************************************************)
(* The time command for every calendar, every transmitter that takes two    *)
(* characters and every number of keys: what it prints is one instant, only *)
(* an interrupt can spoil a reading, and no character is lost.              *)
(***************************************************************************)
EXTENDS TimeCommand, TLAPS

(* An update that goes on was announced, and there is a date to go on to.   *)
Announced == (updating => uip) /\ (uip => clock < Len(Instants))

(* An attempt nobody delayed sees no update: UIP was clear at its start.    *)
Undisturbed ==
  /\ InAttempt /\ (updating \/ clock # began) => delayed
  /\ rpc = "century" /\ clock # settled => delayed

(* The registers read in this attempt: the first ones of Order.             *)
NRead == IF rpc = "again" THEN Len(Order) ELSE k - 1

(* An attempt lasts less than a minute.                                     *)
WithinMinute ==
  InAttempt => /\ began <= clock /\ clock < began + Minute
               /\ updating => clock + 1 < began + Minute

(* As long as no read fell into an update: the seconds are those of a date  *)
(* the clock showed during the attempt, and if it still shows that date, so *)
(* is everything read after them.                                           *)
ReadSoFar ==
  /\ rpc \in {"read", "again"} /\ ~spoiled /\ NRead > 0 =>
       /\ \E f \in began .. clock : got["sec"] = Bcd(Instants[f]["sec"])
       /\ got["sec"] = Bcd(Instants[clock]["sec"]) =>
            \A m \in 1 .. NRead : got[Order[m]] = Bcd(Instants[clock][Order[m]])
  /\ rpc = "century" /\ ~spoiled =>
       \A r \in Registers \ {"century"} : got[r] = Bcd(Instants[settled][r])

RtcInv ==
  /\ RtcTypeOK
  /\ Announced
  /\ Undisturbed
  /\ WithinMinute
  /\ SpoiledOnlyByInterrupt
  /\ ReadSoFar
  /\ StableRead

(* Who has seen the transmitter empty and not written yet: the handler      *)
(* writes into an empty FIFO, the command behind at most one character.     *)
TxInv ==
  /\ TxTypeOK
  /\ \A w \in ready : left[w] > 0
  /\ "keyboard" \in ready => fifo = 0
  /\ "command" \in ready => fifo <= 1
  /\ NothingLost

----------------------------------------------------------------------------
(* What the operators do                                                    *)

(* A byte of two decimal digits is read back as it was written.             *)
LEMMA BcdInverse ==
  ASSUME NEW v \in 0 .. 99
  PROVE  Bcd(v) \in 0 .. 255 /\ bcd2bin(Bcd(v)) = v
  BY DEF Bcd, bcd2bin

LEMMA BinRange ==
  ASSUME NEW v \in 0 .. 255
  PROVE  bcd2bin(v) \in 0 .. 165
  BY DEF bcd2bin

LEMMA OrderFacts ==
  /\ Len(Order) = 6 /\ Order[1] = "sec"
  /\ \A m \in 1 .. 6 : Order[m] \in Registers \ {"century"}
  /\ \A m \in 1 .. 6 : Order[m] = "sec" => m = 1
  /\ \A m, n \in 1 .. 6 : Order[m] = Order[n] => m = n
  /\ \A r \in Registers \ {"century"} : \E m \in 1 .. 6 : Order[m] = r
  <1>1. \A m \in 1 .. 6 : m = 1 \/ m = 2 \/ m = 3 \/ m = 4 \/ m = 5 \/ m = 6
    OBVIOUS
  <1>2. /\ Order[1] = "sec" /\ Order[2] = "min" /\ Order[3] = "hour"
        /\ Order[4] = "day" /\ Order[5] = "month" /\ Order[6] = "year"
        /\ Len(Order) = 6
    BY DEF Order
  <1> QED
    BY <1>1, <1>2 DEF Registers

(* A date of the calendar, by its registers.                                *)
LEMMA Dates ==
  ASSUME NEW n \in DOMAIN Instants
  PROVE  /\ Instants[n] \in [Registers -> Nat]
         /\ \A r \in Registers : Instants[n][r] \in 0 .. 99
         /\ Instants[n]["century"] \in 19 .. 25
  BY RtcAssumption, CalendarAssumption

LEMMA Indices ==
  /\ Len(Instants) \in Nat /\ DOMAIN Instants = 1 .. Len(Instants)
  /\ 1 \in DOMAIN Instants
  BY RtcAssumption

(* Two dates less than a minute apart differ in the seconds register.       *)
LEMMA SecondsTellDates ==
  ASSUME NEW m \in DOMAIN Instants, NEW n \in DOMAIN Instants, m < n, n < m + Minute
  PROVE  Bcd(Instants[m]["sec"]) # Bcd(Instants[n]["sec"])
  <1>1. Instants[m]["sec"] \in 0 .. 99 /\ Instants[n]["sec"] \in 0 .. 99
    BY Dates DEF Registers
  <1>2. Instants[m]["sec"] # Instants[n]["sec"]
    BY RtcAssumption
  <1> QED
    BY <1>1, <1>2, BcdInverse

(* What the registers may yield.                                            *)
LEMMA ByteRange ==
  ASSUME RtcTypeOK, NEW n \in DOMAIN Instants, NEW r \in Registers
  PROVE  Byte(n, r) \in 0 .. 255
  <1>1. Instants[n][r] \in 0 .. 99
    BY Dates
  <1>2. cmos32 \in -1 .. 255
    BY RtcAssumption DEF RtcTypeOK
  <1>3. Bcd(Instants[n][r]) \in 0 .. 255
    BY <1>1, BcdInverse
  <1> QED
    BY <1>2, <1>3 DEF Byte

LEMMA ReadRange ==
  ASSUME RtcTypeOK, Announced, NEW r \in Registers, NEW b \in cmos_read(r)
  PROVE  b \in 0 .. 255
  <1>1. clock \in DOMAIN Instants /\ updating => clock + 1 \in DOMAIN Instants
    BY Indices DEF RtcTypeOK, Announced
  <1>2. clock \in DOMAIN Instants
    BY DEF RtcTypeOK
  <1> QED
    BY <1>1, <1>2, ByteRange DEF cmos_read

LEMMA ReadExact ==
  ASSUME ~updating, NEW r \in Registers \ {"century"}, NEW b \in cmos_read(r)
  PROVE  b = Bcd(Instants[clock][r])
  BY DEF cmos_read, Byte

----------------------------------------------------------------------------
(* The chip and rtc_read                                                    *)

LEMMA InitRtcInv == RtcInit => RtcInv
  <1> SUFFICES ASSUME RtcInit PROVE RtcInv
    OBVIOUS
  <1>1. RtcTypeOK
    <2>1. NoTime \in [Registers -> 0 .. 255] /\ NoTime \in [Registers -> 0 .. 165]
      BY DEF NoTime
    <2>2. 1 \in 1 .. Len(Order)
      BY OrderFacts
    <2> QED
      BY <2>1, <2>2, Indices DEF RtcInit, RtcTypeOK
  <1> QED
    BY <1>1 DEF RtcInit, RtcInv, Announced, Undisturbed, WithinMinute, InAttempt, SpoiledOnlyByInterrupt,
                ReadSoFar, StableRead

LEMMA UipRiseInv ==
  ASSUME RtcInv, UipRise
  PROVE  RtcInv'
  BY DEF UipRise, reader, RtcInv, RtcTypeOK, Announced, Undisturbed, WithinMinute, InAttempt,
         SpoiledOnlyByInterrupt, ReadSoFar, NRead, StableRead

LEMMA UpdateBeginInv ==
  ASSUME RtcInv, UpdateBegin
  PROVE  RtcInv'
  BY DEF UpdateBegin, reader, RtcInv, RtcTypeOK, Announced, Undisturbed, WithinMinute, InAttempt,
         SpoiledOnlyByInterrupt, ReadSoFar, NRead, StableRead

(* When the clock goes on, no seconds read so far are the ones it shows.    *)
LEMMA UpdateEndInv ==
  ASSUME RtcInv, UpdateEnd
  PROVE  RtcInv'
  <1> USE DEF RtcInv
  <1>1. /\ updating /\ updating' = FALSE /\ uip' = FALSE /\ clock' = clock + 1
        /\ UNCHANGED <<cmos32, rpc, k, got, time, began, settled, dated, spoiled, delayed>>
    BY DEF UpdateEnd, reader
  <1>2. clock + 1 \in DOMAIN Instants /\ clock \in Nat /\ clock \in DOMAIN Instants
    BY <1>1, Indices DEF RtcTypeOK, Announced
  <1>3. RtcTypeOK' /\ Announced'
    <2>1. clock' \in DOMAIN Instants /\ uip' \in BOOLEAN /\ updating' \in BOOLEAN
      BY <1>1, <1>2
    <2>2. RtcTypeOK'
      <3>1. {clock, began, settled, dated}' \subseteq DOMAIN Instants
        BY <1>1, <2>1 DEF RtcTypeOK
      <3>2. /\ spoiled' \in BOOLEAN /\ delayed' \in BOOLEAN /\ cmos32' \in CenturyBytes
            /\ rpc' \in {"idle", "uip", "read", "again", "century", "done", "print"}
        BY <1>1, Zenon DEF RtcTypeOK
      <3>3. k' \in 1 .. Len(Order) /\ got' \in [Registers -> 0 .. 255] /\ time' \in [Registers -> 0 .. 165]
        BY <1>1, Zenon DEF RtcTypeOK
      <3> QED
        BY <2>1, <3>1, <3>2, <3>3, Zenon DEF RtcTypeOK
    <2>3. Announced'
      BY <1>1 DEF Announced
    <2> QED
      BY <2>2, <2>3
  <1>4. Undisturbed' /\ WithinMinute'
    BY <1>1, <1>2, Indices DEF Undisturbed, WithinMinute, InAttempt, RtcTypeOK
  <1>5. ReadSoFar'
    <2>1. ASSUME rpc \in {"read", "again"}, ~spoiled, NRead > 0
          PROVE  /\ \E f \in began .. clock + 1 : got["sec"] = Bcd(Instants[f]["sec"])
                 /\ got["sec"] # Bcd(Instants[clock + 1]["sec"])
      <3>1. PICK f \in began .. clock : got["sec"] = Bcd(Instants[f]["sec"])
        BY <2>1 DEF ReadSoFar
      <3>2. began \in 1 .. clock /\ clock + 1 < began + Minute /\ Minute \in Nat
        BY <1>1, <1>2, <2>1, Indices, RtcAssumption DEF WithinMinute, InAttempt, RtcTypeOK
      <3>3. f \in DOMAIN Instants /\ f < clock + 1 /\ clock + 1 < f + Minute /\ f \in began .. clock + 1
        BY <1>2, <3>1, <3>2, Indices
      <3> QED
        BY <1>2, <3>1, <3>3, SecondsTellDates
    <2>2. NRead' = NRead
      BY <1>1 DEF NRead
    <2> QED
      BY <1>1, <2>1, <2>2 DEF ReadSoFar
  <1> QED
    BY <1>1, <1>3, <1>4, <1>5 DEF SpoiledOnlyByInterrupt, StableRead

LEMMA UipClearInv ==
  ASSUME RtcInv, UipClear
  PROVE  RtcInv'
  <1> USE DEF RtcInv
  <1>1. /\ rpc' = "read" /\ k' = 1 /\ began' = clock /\ spoiled' = FALSE /\ delayed' = FALSE /\ ~uip
        /\ UNCHANGED <<clock, uip, updating, cmos32, got, time, settled, dated>>
    BY DEF UipClear, chip
  <1>2. RtcTypeOK'
    <2>1. k' \in 1 .. Len(Order)
      BY <1>1, OrderFacts
    <2>2. spoiled' \in BOOLEAN /\ delayed' \in BOOLEAN
      BY <1>1
    <2>3. {clock, began, settled, dated}' \subseteq DOMAIN Instants
      BY <1>1 DEF RtcTypeOK
    <2>4. rpc' \in {"idle", "uip", "read", "again", "century", "done", "print"}
      BY <1>1
    <2>5. /\ uip' \in BOOLEAN /\ updating' \in BOOLEAN /\ cmos32' \in CenturyBytes
          /\ got' \in [Registers -> 0 .. 255] /\ time' \in [Registers -> 0 .. 165]
      BY <1>1, Zenon DEF RtcTypeOK
    <2> QED
      BY <2>1, <2>2, <2>3, <2>4, <2>5, Zenon DEF RtcTypeOK
  <1>3. Announced' /\ Undisturbed' /\ WithinMinute' /\ SpoiledOnlyByInterrupt' /\ StableRead'
    BY <1>1, Indices, RtcAssumption DEF RtcTypeOK, Announced, Undisturbed, WithinMinute, InAttempt,
         SpoiledOnlyByInterrupt, StableRead
  <1>4. ReadSoFar'
    BY <1>1 DEF ReadSoFar, NRead
  <1> QED
    BY <1>2, <1>3, <1>4

(* The next register is of the date shown now; if that is still the date    *)
(* the seconds are of, it agrees with all the others.                       *)
LEMMA ReadRegisterInv ==
  ASSUME RtcInv, ReadRegister
  PROVE  RtcInv'
  <1> USE DEF RtcInv
  <1>1. /\ rpc = "read" /\ spoiled' = (spoiled \/ updating)
        /\ UNCHANGED <<clock, uip, updating, cmos32, time, began, settled, dated, delayed>>
        /\ k \in 1 .. 6 /\ Order[k] \in Registers \ {"century"}
    BY OrderFacts DEF ReadRegister, chip, RtcTypeOK
  <1>2. PICK b \in cmos_read(Order[k]) : got' = [got EXCEPT ![Order[k]] = b]
    BY DEF ReadRegister
  <1>3. \/ k < 6 /\ k' = k + 1 /\ rpc' = "read"
        \/ k = 6 /\ k' = 1 /\ rpc' = "again"
    BY <1>1, OrderFacts DEF ReadRegister
  <1>4. b \in 0 .. 255
    BY <1>1, ReadRange
  <1>5. RtcTypeOK'
    <2>1. got' \in [Registers -> 0 .. 255]
      BY <1>1, <1>2, <1>4 DEF RtcTypeOK
    <2>2. k' \in 1 .. 6 /\ rpc' \in {"read", "again"}
      BY <1>1, <1>3
    <2> QED
      BY <1>1, <2>1, <2>2, OrderFacts DEF RtcTypeOK
  <1>6. Announced' /\ Undisturbed' /\ WithinMinute' /\ SpoiledOnlyByInterrupt'
    BY <1>1, <1>3 DEF Announced, Undisturbed, WithinMinute, InAttempt, SpoiledOnlyByInterrupt
  <1>7. NRead = k - 1 /\ NRead' = k
    BY <1>1, <1>3, OrderFacts DEF NRead
  <1>8. ASSUME ~spoiled'
        PROVE  /\ \E f \in began .. clock : got'["sec"] = Bcd(Instants[f]["sec"])
               /\ got'["sec"] = Bcd(Instants[clock]["sec"]) =>
                    \A m \in 1 .. k : got'[Order[m]] = Bcd(Instants[clock][Order[m]])
    <2>1. ~spoiled /\ ~updating
      BY <1>1, <1>8 DEF RtcTypeOK
    <2>2. b = Bcd(Instants[clock][Order[k]])
      BY <1>1, <2>1, ReadExact
    <2>3. got \in [Registers -> 0 .. 255] /\ "sec" \in Registers /\ clock \in began .. clock
      BY <1>1, Indices DEF RtcTypeOK, Registers, WithinMinute, InAttempt
    <2>4. got'[Order[k]] = b
      BY <1>1, <1>2, <2>3
    <2>5. CASE k = 1
      <3>1. got'["sec"] = Bcd(Instants[clock]["sec"])
        BY <2>2, <2>4, <2>5, OrderFacts
      <3>2. \A m \in 1 .. k : m = k
        BY <2>5
      <3> QED
        BY <2>2, <2>3, <2>4, <3>1, <3>2
    <2>6. CASE k > 1
      <3>1. \A m \in 1 .. k - 1 : got'[Order[m]] = got[Order[m]]
        <4> TAKE m \in 1 .. k - 1
        <4>1. m \in 1 .. 6 /\ m # k
          BY <1>1
        <4> QED
          BY <1>1, <1>2, <2>3, <4>1, OrderFacts
      <3>2. got'["sec"] = got["sec"]
        BY <1>1, <1>2, <2>3, <2>6, OrderFacts
      <3>3. NRead > 0
        BY <1>1, <1>7, <2>6
      <3>4. /\ \E f \in began .. clock : got["sec"] = Bcd(Instants[f]["sec"])
            /\ got["sec"] = Bcd(Instants[clock]["sec"]) =>
                 \A m \in 1 .. k - 1 : got[Order[m]] = Bcd(Instants[clock][Order[m]])
        BY <1>1, <1>7, <2>1, <3>3 DEF ReadSoFar
      <3>5. \A m \in 1 .. k : m = k \/ m \in 1 .. k - 1
        BY <1>1
      <3> QED
        BY <2>2, <2>4, <3>1, <3>2, <3>4, <3>5
    <2> QED
      BY <1>1, <2>5, <2>6
  <1>9. ReadSoFar'
    BY <1>1, <1>3, <1>7, <1>8 DEF ReadSoFar
  <1>10. StableRead'
    BY <1>3 DEF StableRead
  <1> QED
    BY <1>5, <1>6, <1>9, <1>10

(* Equal seconds: the date the clock shows now is the one all reads are of. *)
LEMMA ReadAgainInv ==
  ASSUME RtcInv, ReadAgain
  PROVE  RtcInv'
  <1> USE DEF RtcInv
  <1>1. /\ rpc = "again" /\ settled' = clock /\ spoiled' = (spoiled \/ updating)
        /\ UNCHANGED <<clock, uip, updating, cmos32, k, got, time, began, dated, delayed>>
    BY DEF ReadAgain, chip
  <1>2. PICK b \in cmos_read("sec") : rpc' = IF b = got["sec"] THEN "century" ELSE "uip"
    BY DEF ReadAgain
  <1>3. RtcTypeOK' /\ Announced'
    <2>1. RtcTypeOK /\ Announced
      OBVIOUS
    <2>2. rpc' \in {"uip", "century"} /\ spoiled' \in BOOLEAN
      BY <1>1, <1>2, <2>1 DEF RtcTypeOK
    <2>3. RtcTypeOK'
      BY ONLY <1>1, <2>1, <2>2 DEF RtcTypeOK
    <2>4. Announced'
      BY ONLY <1>1, <2>1, <2>2 DEF Announced
    <2> QED
      BY <2>3, <2>4
  <1>4. Undisturbed' /\ WithinMinute' /\ SpoiledOnlyByInterrupt'
    BY <1>1, <1>2 DEF Undisturbed, WithinMinute, InAttempt, SpoiledOnlyByInterrupt
  <1>5. ASSUME rpc' = "century", ~spoiled', NEW r \in Registers \ {"century"}
        PROVE  got[r] = Bcd(Instants[clock][r])
    <2>1. ~spoiled /\ ~updating
      BY <1>1, <1>5 DEF RtcTypeOK
    <2>2. b = Bcd(Instants[clock]["sec"]) /\ b = got["sec"]
      BY <1>2, <1>5, <2>1, ReadExact DEF Registers
    <2>3. NRead = 6 /\ NRead > 0
      BY <1>1, OrderFacts DEF NRead
    <2>4. \A m \in 1 .. 6 : got[Order[m]] = Bcd(Instants[clock][Order[m]])
      BY <1>1, <2>1, <2>2, <2>3 DEF ReadSoFar
    <2> QED
      BY <2>4, OrderFacts
  <1>6. ReadSoFar'
    BY <1>1, <1>2, <1>5 DEF ReadSoFar
  <1>7. StableRead'
    BY <1>2 DEF StableRead
  <1> QED
    BY <1>3, <1>4, <1>6, <1>7

LEMMA ReadCenturyInv ==
  ASSUME RtcInv, ReadCentury
  PROVE  RtcInv'
  <1> USE DEF RtcInv
  <1>1. /\ rpc = "century" /\ rpc' = "done" /\ got' = NoTime
        /\ dated' = clock /\ spoiled' = (spoiled \/ updating)
        /\ UNCHANGED <<clock, uip, updating, cmos32, k, began, settled, delayed>>
    BY DEF ReadCentury, chip
  <1>2. PICK b \in cmos_read("century") :
           time' = [r \in Registers |-> IF r = "century" THEN Century(b) ELSE bcd2bin(got[r])]
    BY DEF ReadCentury
  <1>3. b \in 0 .. 255
    BY ReadRange DEF Registers
  <1>4. RtcTypeOK'
    <2>1. Century(b) \in 0 .. 165
      <3>1. bcd2bin(b) \in 0 .. 165
        BY <1>3, BinRange
      <3> QED
        BY <3>1 DEF Century
    <2>2. \A r \in Registers : bcd2bin(got[r]) \in 0 .. 165
      <3> TAKE r \in Registers
      <3>1. got[r] \in 0 .. 255
        BY DEF RtcTypeOK
      <3> QED
        BY <3>1, BinRange
    <2>3. time' \in [Registers -> 0 .. 165]
      BY <1>2, <2>1, <2>2
    <2>4. NoTime \in [Registers -> 0 .. 255]
      BY DEF NoTime
    <2>5. RtcTypeOK
      OBVIOUS
    <2>6. spoiled' \in BOOLEAN
      BY <1>1, <2>5 DEF RtcTypeOK
    <2>7. /\ {clock', began', settled', dated'} \subseteq DOMAIN Instants
          /\ uip' \in BOOLEAN /\ updating' \in BOOLEAN /\ delayed' \in BOOLEAN
      BY <1>1, <2>5 DEF RtcTypeOK
    <2>8. cmos32' \in CenturyBytes /\ k' \in 1 .. Len(Order) /\ rpc' = "done"
          /\ got' \in [Registers -> 0 .. 255]
      BY <1>1, <2>4, <2>5 DEF RtcTypeOK
    <2> QED
      BY ONLY <2>3, <2>6, <2>7, <2>8 DEF RtcTypeOK
  <1>5. Announced' /\ Undisturbed' /\ WithinMinute' /\ SpoiledOnlyByInterrupt' /\ ReadSoFar'
    BY <1>1 DEF Announced, Undisturbed, WithinMinute, InAttempt, SpoiledOnlyByInterrupt, ReadSoFar, RtcTypeOK
  <1>6. ASSUME ~spoiled'
        PROVE  time' = [Instants[settled] EXCEPT
                          !["century"] = IF cmos32 = -1 THEN Instants[clock]["century"] ELSE 20]
    <2>1. ~spoiled /\ ~updating
      BY <1>1, <1>6 DEF RtcTypeOK
    <2>2. settled \in DOMAIN Instants /\ clock \in DOMAIN Instants
      BY DEF RtcTypeOK
    <2>3. \A r \in Registers \ {"century"} : bcd2bin(got[r]) = Instants[settled][r]
      BY <1>1, <2>1, <2>2, Dates, BcdInverse DEF ReadSoFar
    <2>4. b = Byte(clock, "century")
      BY <2>1 DEF cmos_read
    <2>5. Century(b) = IF cmos32 = -1 THEN Instants[clock]["century"] ELSE 20
      <3>1. CASE cmos32 = -1
        <4>1. Instants[clock]["century"] \in 19 .. 25
          BY <2>2, Dates
        <4>2. bcd2bin(b) = Instants[clock]["century"]
          <5>1. b = Bcd(Instants[clock]["century"]) /\ Instants[clock]["century"] \in 0 .. 99
            BY <2>4, <3>1, <4>1 DEF Byte
          <5> QED
            BY <5>1, BcdInverse
        <4> QED
          BY <3>1, <4>1, <4>2 DEF Century
      <3>2. CASE cmos32 # -1
        BY <2>4, <3>2, CalendarAssumption DEF Byte, RtcTypeOK
      <3> QED
        BY <3>1, <3>2
    <2>6. Instants[settled] \in [Registers -> Nat] /\ "century" \in Registers
      BY <2>2, Dates DEF Registers
    <2> QED
      BY <1>2, <2>3, <2>5, <2>6
  <1>7. StableRead'
    BY <1>1, <1>6 DEF StableRead
  <1> QED
    BY <1>4, <1>5, <1>7

LEMMA RtcStepInv ==
  ASSUME RtcInv, RtcStep
  PROVE  RtcInv'
  BY UipClearInv, ReadRegisterInv, ReadAgainInv, ReadCenturyInv DEF RtcStep

LEMMA ChipInv ==
  ASSUME RtcInv, Chip
  PROVE  RtcInv'
  BY UipRiseInv, UpdateBeginInv, UpdateEndInv DEF Chip

LEMMA SameRtc ==
  ASSUME RtcInv, UNCHANGED rtcVars
  PROVE  RtcInv'
  BY DEF rtcVars, chip, reader, RtcInv, RtcTypeOK, Announced, Undisturbed, WithinMinute, InAttempt,
         SpoiledOnlyByInterrupt, ReadSoFar, NRead, StableRead

----------------------------------------------------------------------------
(* The serial port                                                          *)

LEMMA InitTxInv == TxInit => TxInv
  <1>1. ASSUME TxInit PROVE TxTypeOK
    <2>1. fifo \in 0 .. TxDepth /\ left \in [Writers -> Nat]
      BY <1>1, TxAssumption DEF TxInit
    <2>2. ready \subseteq Writers /\ lost \in BOOLEAN
      BY <1>1 DEF TxInit
    <2> QED
      BY <2>1, <2>2 DEF TxTypeOK
  <1> QED
    BY <1>1 DEF TxInit, TxInv, NothingLost

LEMMA PutInv ==
  ASSUME TxInv, NEW w \in {"command", "keyboard"}, Put(w)
  PROVE  TxInv'
  <1> USE DEF TxInv
  <1>1. /\ fifo \in Nat /\ fifo <= TxDepth /\ TxDepth \in Nat /\ TxDepth >= 2
        /\ left \in [Writers -> Nat] /\ w \in Writers /\ ready \subseteq Writers
        /\ "keyboard" \in Writers
    BY TxAssumption, TimeAssumption DEF TxTypeOK
  <1>2. CASE PutTest(w)
    BY <1>1, <1>2 DEF PutTest, TxTypeOK, NothingLost
  <1>3. CASE PutWrite(w)
    <2>1. w = "command" => "keyboard" \notin ready
      BY <1>1 DEF Put, InHandler
    <2>2. w \in ready /\ ready' = ready \ {w} /\ left' = [left EXCEPT ![w] = left[w] - 1]
      BY <1>3 DEF PutWrite
    <2>3. fifo <= 1 /\ fifo < Fifo
      BY <1>1, <2>2 DEF Fifo
    <2>4. fifo' = fifo + 1 /\ lost' = lost
      BY <1>3, <2>3 DEF PutWrite
    <2>5. left[w] > 0 /\ left' \in [Writers -> Nat]
      BY <1>1, <2>2
    <2>6. TxTypeOK'
      BY <1>1, <2>2, <2>3, <2>4, <2>5 DEF TxTypeOK, Fifo
    <2>7. "keyboard" \notin ready'
      BY <2>1, <2>2
    <2>8. "command" \in ready' => fifo' <= 1
      BY <1>1, <2>2, <2>3, <2>4
    <2>9. \A v \in ready' : left'[v] > 0
      BY <1>1, <2>2
    <2> QED
      BY <2>4, <2>6, <2>7, <2>8, <2>9 DEF NothingLost
  <1> QED
    BY <1>2, <1>3 DEF Put

LEMMA TransmitInv ==
  ASSUME TxInv, Transmit
  PROVE  TxInv'
  BY TxAssumption DEF Transmit, TxInv, TxTypeOK, NothingLost

(* Who has nothing left to put starts a new line.                           *)
LEMMA NewLineInv ==
  ASSUME TxInv, NEW w \in Writers, left[w] = 0, NEW n \in Nat,
         left' = [left EXCEPT ![w] = n], UNCHANGED <<fifo, ready, lost>>
  PROVE  TxInv'
  BY DEF TxInv, TxTypeOK, NothingLost

LEMMA SameTx ==
  ASSUME TxInv, UNCHANGED txVars
  PROVE  TxInv'
  BY DEF txVars, TxInv, TxTypeOK, NothingLost

----------------------------------------------------------------------------
TimeInv == RtcInv /\ TxInv /\ keys \in 0 .. MaxKeys

LEMMA NextTimeInv == TimeInv /\ [Next]_vars => TimeInv'
  <1> SUFFICES ASSUME TimeInv, [Next]_vars PROVE TimeInv'
    OBVIOUS
  <1> USE DEF TimeInv
  <1>0. "command" \in Writers /\ "keyboard" \in Writers /\ TimeChars \in Nat /\ KeyChars \in Nat
        /\ MaxKeys \in Nat
    BY TimeAssumption
  <1>1. CASE cmd_time
    <2>1. RtcInv'
      <3>1. NoTime \in [Registers -> 0 .. 165]
        BY DEF NoTime
      <3> QED
        BY <1>1, <3>1 DEF cmd_time, chip, RtcInv, RtcTypeOK, Announced, Undisturbed, WithinMinute, InAttempt,
                          SpoiledOnlyByInterrupt, ReadSoFar, StableRead
    <2> QED
      BY <1>0, <1>1, <2>1, SameTx DEF cmd_time
  <1>2. CASE Read
    BY <1>2, RtcStepInv, SameTx DEF Read
  <1>3. CASE PrintTime
    <2>1. RtcInv'
      BY <1>3 DEF PrintTime, chip, RtcInv, RtcTypeOK, Announced, Undisturbed, WithinMinute, InAttempt,
                  SpoiledOnlyByInterrupt, ReadSoFar, StableRead
    <2> QED
      BY <1>0, <1>3, <2>1, NewLineInv DEF PrintTime
  <1>4. CASE Printed
    <2>1. RtcInv'
      BY <1>4 DEF Printed, chip, RtcInv, RtcTypeOK, Announced, Undisturbed, WithinMinute, InAttempt,
                  SpoiledOnlyByInterrupt, ReadSoFar, StableRead
    <2> QED
      BY <1>4, <2>1, SameTx DEF Printed
  <1>5. CASE Put("command") \/ Put("keyboard")
    BY <1>5, PutInv, SameRtc DEF Put
  <1>6. CASE Devices
    BY <1>6, ChipInv, SameTx, TransmitInv, SameRtc DEF Devices
  <1>7. CASE keyboard_irq
    <2>1. RtcInv'
      BY <1>7 DEF keyboard_irq, chip, reader, RtcInv, RtcTypeOK, Announced, Undisturbed, WithinMinute,
                  InAttempt, SpoiledOnlyByInterrupt, ReadSoFar, NRead, StableRead
    <2>2. left["keyboard"] = 0
      BY <1>0, <1>7 DEF keyboard_irq, InHandler, TxInv, TxTypeOK
    <2>3. keys' \in 0 .. MaxKeys
      BY <1>0, <1>7 DEF keyboard_irq
    <2>4. TxInv'
      BY <1>0, <1>7, <2>2, NewLineInv DEF keyboard_irq
    <2> QED
      BY <2>1, <2>3, <2>4
  <1>8. CASE UNCHANGED vars
    BY <1>8, SameRtc, SameTx DEF vars
  <1> QED
    BY <1>1, <1>2, <1>3, <1>4, <1>5, <1>6, <1>7, <1>8 DEF Next, Cpu

LEMMA TimeInvHolds == Spec => []TimeInv
  <1>1. Init => TimeInv
    BY InitRtcInv, InitTxInv, TimeAssumption DEF Init, TimeInv
  <1> QED
    BY <1>1, NextTimeInv, PTL DEF Spec

----------------------------------------------------------------------------
(* The values the variables range over, in every reachable state.           *)
THEOREM TimeTypeCorrect == Spec => []TimeTypeOK
  <1>1. TimeInv => TimeTypeOK
    BY DEF TimeInv, RtcInv, TxInv, TimeTypeOK
  <1> QED
    BY <1>1, TimeInvHolds, PTL

(* Reading the seconds twice (rtc.c:29-41) suffices for the six registers   *)
(* of the loop: when no read fell into an update, they are those of the one *)
(* date the clock showed as the attempt was accepted.  The century is of    *)
(* the date shown when register 0x32 was read; a missing one gives 20xx.    *)
THEOREM LoopReadsOneInstant == Spec => []StableRead
  <1>1. TimeInv => StableRead
    BY DEF TimeInv, RtcInv
  <1> QED
    BY <1>1, TimeInvHolds, PTL

(* When no interrupt delayed the attempt, all registers of the result are   *)
(* of one date, the century included: the reading is atomic.                *)
AtomicRead ==
  rpc \in {"done", "print"} /\ ~delayed =>
     time = [Instants[settled] EXCEPT !["century"] = IF cmos32 = -1 THEN @ ELSE 20]

(* Without an interrupt after UIP was seen clear, what rtc_read returns is  *)
(* one date of the clock in every register, also the century (rtc.c:29-53). *)
THEOREM UndelayedReadIsOneInstant == Spec => []AtomicRead
  <1>1. TimeInv => AtomicRead
    BY DEF TimeInv, RtcInv, StableRead, SpoiledOnlyByInterrupt, AtomicRead
  <1> QED
    BY <1>1, TimeInvHolds, PTL

(* Only an interrupt after UIP was seen clear lets a read fall into an      *)
(* update, or separates the century from the other registers (rtc.c:30,50). *)
THEOREM OnlyInterruptsSpoil == Spec => []SpoiledOnlyByInterrupt
  <1>1. TimeInv => SpoiledOnlyByInterrupt
    BY DEF TimeInv, RtcInv
  <1> QED
    BY <1>1, TimeInvHolds, PTL

(* Whatever the handler prints between the command's test for an empty      *)
(* transmitter and its write, a FIFO of two characters loses none           *)
(* (serial.c:31-33).                                                        *)
THEOREM NoCharacterLost == Spec => []NothingLost
  <1>1. TimeInv => NothingLost
    BY DEF TimeInv, TxInv
  <1> QED
    BY <1>1, TimeInvHolds, PTL

RetriesNeedInterrupts == [][rpc = "again" /\ rpc' = "uip" => delayed]_vars

(* What TimeReturns rests on: an attempt that no interrupt delayed is       *)
(* accepted, since its two readings of the seconds agree, so the loop goes  *)
(* round again at most once per interrupt (rtc.c:29-41).                    *)
THEOREM RetriesAreBounded == Spec => RetriesNeedInterrupts
  <1> DEFINE A == rpc = "again" /\ rpc' = "uip" => delayed
  <1>1. TimeInv /\ [Next]_vars => [A]_vars
    <2> SUFFICES ASSUME TimeInv, Next, rpc = "again", rpc' = "uip", ~delayed PROVE FALSE
      OBVIOUS
    <2>1. PICK b \in cmos_read("sec") : rpc' = IF b = got["sec"] THEN "century" ELSE "uip"
      <3>1. ReadAgain
        BY DEF Next, Cpu, cmd_time, Read, RtcStep, UipClear, ReadRegister, ReadCentury, PrintTime,
               Printed, Put, rtcVars, reader, Devices, Chip, UipRise, UpdateBegin, UpdateEnd, keyboard_irq
      <3> QED
        BY <3>1 DEF ReadAgain
    <2>2. ~updating /\ ~spoiled /\ clock = began
      BY DEF TimeInv, RtcInv, Undisturbed, InAttempt, SpoiledOnlyByInterrupt
    <2>3. NRead > 0
      BY OrderFacts DEF NRead
    <2>4. PICK f \in began .. clock : got["sec"] = Bcd(Instants[f]["sec"])
      BY <2>2, <2>3 DEF TimeInv, RtcInv, ReadSoFar
    <2>5. f = clock
      BY <2>2, <2>4, Indices DEF TimeInv, RtcInv, RtcTypeOK
    <2>6. b = got["sec"]
      BY <2>2, <2>4, <2>5, ReadExact DEF Registers
    <2> QED
      BY <2>1, <2>6
  <1> QED
    BY <1>1, TimeInvHolds, PTL DEF Spec, RetriesNeedInterrupts
=============================================================================
