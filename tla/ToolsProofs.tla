---------------------------- MODULE ToolsProofs ----------------------------
(***************************************************************************)
(* Theorems about the command line tools, for every value of the constants *)
(* that the theorem does not restrict.  A behaviour runs one tool, so each *)
(* invariant is about the steps of one program.                            *)
(***************************************************************************)
EXTENDS MCTools, MathProofs

(* Taking the divisor away once keeps the remainder.                       *)
LEMMA ModLess ==
    ASSUME NEW a \in Nat, NEW m \in Nat \ {0}, a >= m
    PROVE  (a - m) % m = a % m
<1>1. a = m * (a \div m) + (a % m) /\ a % m \in 0..(m - 1) /\ a \div m \in Nat
  BY DivModDef
<1>2. a \div m # 0
  BY <1>1
<1>3. a - m = m * (a \div m - 1) + (a % m)
  BY <1>1
<1>4. a - m \in Nat /\ a \div m - 1 \in Nat
  BY <1>1, <1>2
<1> QED
  BY <1>1, <1>3, <1>4, DivModUnique

(* What is below the divisor is its own remainder, and survives one wrap.  *)
LEMMA ModWrap ==
    ASSUME NEW m \in Nat \ {0}, NEW a \in 0..(m - 1)
    PROVE  a % m = a /\ (m + a) % m = a
<1>1. m + a \in Nat /\ m + a = m * 1 + a
  OBVIOUS
<1>2. a \in Nat /\ a = m * 0 + a
  OBVIOUS
<1>3. (m + a) % m = a
  BY <1>1, DivModUnique
<1>4. a % m = a
  BY <1>2, DivModUnique
<1> QED
  BY <1>3, <1>4

-----------------------------------------------------------------------------
(* A behaviour never changes the tool, and every step is a step of that    *)
(* tool's program or leaves the program alone.                             *)
LEMMA OneTool ==
    ASSUME [Next]_all
    PROVE  /\ tool' = tool
           /\ tool = "rtl_sdr" => [Sdr!Next]_(Sdr!vars)
           /\ tool = "rtl_eeprom" => [Eeprom!Next]_(Eeprom!vars)
           /\ tool = "rtl_test -p" => [Ppm!Next]_(Ppm!vars)
           /\ tool = "rtl_power" => [Power!Next]_(Power!vars)
<1>1. CASE Next
  BY <1>1 DEF Next, SdrStep, SdrRest, EepromStep, TestStep, PpmStep, AdsbStep, AdsbRest,
              PowerStep, PowerRest, FmStep
<1>2. CASE UNCHANGED all
  BY <1>2 DEF all, programVars, optionVars, sdrVars, eepromVars, ppmVars, adsbVars, powerVars,
              Sdr!vars, Sdr!options, Sdr!libVars, Eeprom!vars, Ppm!vars,
              Power!vars, Power!optionVars, Power!deviceVars, Power!sumVars
<1> QED
  BY <1>1, <1>2

-----------------------------------------------------------------------------
(* rtl_eeprom.                                                             *)

(* Before the write loop nothing has been written, and the loop stays      *)
(* within what is to be written.                                           *)
EepromInv ==
    /\ Eeprom!TypeOK
    /\ pc \in {"read", "prepare", "ask"} => i = 0
    /\ i <= Eeprom!WriteLen(opts)
    /\ Eeprom!WrittenPrefix

(* The image the tool derives is an image.                                 *)
LEMMA GeneratedIsImage ==
    ASSUME Eeprom!TypeOK, ~opts.flash
    PROVE  Eeprom!Generated(opts) \in Eeprom!Images
<1> USE EepromAssumption DEF EepromAssumption
<1>1. 0 \in Eeprom!Addresses /\ 1 \in Eeprom!Addresses
  BY DEF Eeprom!Addresses
<1>2. buf \in [Eeprom!Addresses -> Bytes] /\ opts \in Eeprom!Options
  BY DEF Eeprom!TypeOK, Eeprom!Images
<1>3. buf[0] \in Nat /\ buf[1] \in Bytes
  BY <1>1, <1>2
<1>4. buf[0] % 2 \in {0, 1}
  BY <1>3
<1>5. Eeprom!NewBt(opts, buf[0] % 2) \in Bytes
  BY <1>4 DEF Eeprom!NewBt, Eeprom!DefaultBt
<1>6. Eeprom!NewStr(opts, buf[1]) \in Bytes
  BY <1>2, <1>3 DEF Eeprom!NewStr, Eeprom!Options
<1> QED
  BY <1>2, <1>5, <1>6 DEF Eeprom!Generated, Eeprom!Images

(* Every turn of the loop extends the prefix by the byte it is at, written *)
(* or found in place.                                                      *)
LEMMA WriteExtends ==
    ASSUME "fetch" \notin Faults, EepromInv, Eeprom!WriteByte
    PROVE  EepromInv'
<1> USE EepromAssumption DEF EepromAssumption
<1>1. /\ pc = "write" /\ i < Eeprom!WriteLen(opts) /\ i \in Nat
      /\ UNCHANGED << rom0, opts, buf >>
      /\ Eeprom!WriteLen(opts) <= Size /\ Eeprom!WriteLen(opts) \in Nat
  BY DEF EepromInv, Eeprom!WriteByte, Eeprom!TypeOK, Eeprom!WriteLen
<1>2. i \in Eeprom!Addresses
  BY <1>1 DEF Eeprom!Addresses
<1>3. /\ rom \in [Eeprom!Addresses -> Bytes] /\ buf \in [Eeprom!Addresses -> Bytes]
      /\ buf[i] \in Bytes
  BY <1>2 DEF EepromInv, Eeprom!TypeOK, Eeprom!Images
<1>4. \A a \in Eeprom!Addresses : a \in Nat /\ rom[a] = IF a < i THEN buf[a] ELSE rom0[a]
  BY <1>1 DEF EepromInv, Eeprom!WrittenPrefix, Eeprom!Addresses
<1>5. CASE rom[i] = buf[i] /\ cell' = buf[i] /\ i' = i + 1 /\ UNCHANGED << rom, pc, rc >>
  BY <1>1, <1>2, <1>3, <1>4, <1>5 DEF EepromInv, Eeprom!WrittenPrefix, Eeprom!TypeOK
<1>6. CASE cell' = buf[i] /\ i' = i + 1 /\ rom' = [rom EXCEPT ![i] = buf[i]] /\ UNCHANGED << pc, rc >>
  <2>1. rom' \in Eeprom!Images
    BY <1>2, <1>3, <1>6 DEF Eeprom!Images
  <2>2. \A a \in Eeprom!Addresses : rom'[a] = IF a < i + 1 THEN buf[a] ELSE rom0[a]
    BY <1>1, <1>2, <1>3, <1>4, <1>6
  <2> QED
    BY <1>1, <1>2, <1>3, <1>6, <2>1, <2>2 DEF EepromInv, Eeprom!WrittenPrefix, Eeprom!TypeOK
<1>7. CASE cell' = buf[i] /\ rc' = -3 /\ pc' = "exit" /\ UNCHANGED << rom, i >>
  BY <1>1, <1>3, <1>7 DEF EepromInv, Eeprom!WrittenPrefix, Eeprom!TypeOK
<1> QED
  BY <1>5, <1>6, <1>7 DEF Eeprom!WriteByte, Eeprom!Target

(* A write of the EEPROM replaces a prefix of its range in order, also     *)
(* when it is cut short, for every size, image and option, as long as a    *)
(* byte is read back as it is.                                             *)
THEOREM EepromWritesPrefix ==
    ASSUME "fetch" \notin Faults
    PROVE  Spec => []WrittenPrefix
<1> DEFINE Inv == tool = "rtl_eeprom" => EepromInv
<1> USE EepromAssumption DEF EepromAssumption
<1>1. Init => Inv
  <2> SUFFICES ASSUME Eeprom!Init PROVE EepromInv
    BY DEF Init
  <2>1. buf \in Eeprom!Images
    BY DEF Eeprom!Init, Eeprom!Images
  <2>2. i \in 0..Size /\ i <= Eeprom!WriteLen(opts)
    BY DEF Eeprom!Init, Eeprom!WriteLen
  <2> QED
    BY <2>1, <2>2 DEF Eeprom!Init, EepromInv, Eeprom!TypeOK, Eeprom!WrittenPrefix
<1>2. ASSUME Inv, [Next]_all PROVE Inv'
  <2> SUFFICES ASSUME tool = "rtl_eeprom", EepromInv, [Eeprom!Next]_(Eeprom!vars) PROVE EepromInv'
    BY <1>2, OneTool
  <2>1. CASE Eeprom!ReadRom
    BY <2>1 DEF Eeprom!ReadRom, EepromInv, Eeprom!TypeOK, Eeprom!WrittenPrefix, Eeprom!Addresses
  <2>2. CASE Eeprom!Prepare
    <3>1. pc = "prepare" /\ i = 0 /\ i' = 0 /\ UNCHANGED << rom, rom0, opts, cell, rc >>
      BY <2>2 DEF Eeprom!Prepare, EepromInv
    <3>2. buf' \in Eeprom!Images /\ pc' \in {"ask", "exit"}
      <4>1. CASE Eeprom!Change(opts) /\ opts.flash /\ pc' = "ask"
                 /\ \E file \in Eeprom!Images, n \in 0..Size :
                      buf' = [a \in Eeprom!Addresses |-> IF a < n THEN file[a] ELSE buf[a]]
        BY <4>1 DEF EepromInv, Eeprom!TypeOK, Eeprom!Images
      <4>2. CASE ~opts.flash /\ pc' = "ask" /\ buf' = Eeprom!Generated(opts)
        BY <4>2, GeneratedIsImage DEF EepromInv
      <4>3. CASE pc' = "exit" /\ UNCHANGED buf
        BY <4>3 DEF EepromInv, Eeprom!TypeOK
      <4> QED
        BY <2>2, <4>1, <4>2, <4>3 DEF Eeprom!Prepare
    <3>3. \A a \in Eeprom!Addresses : rom[a] = rom0[a] /\ ~(a < 0)
      BY <3>1 DEF EepromInv, Eeprom!WrittenPrefix, Eeprom!Addresses
    <3> QED
      BY <3>1, <3>2, <3>3 DEF EepromInv, Eeprom!TypeOK, Eeprom!WrittenPrefix
  <2>3. CASE Eeprom!Ask
    <3>1. \A a \in Eeprom!Addresses : ~(a < 0)
      BY DEF Eeprom!Addresses
    <3> QED
      BY <2>3, <3>1 DEF Eeprom!Ask, EepromInv, Eeprom!TypeOK, Eeprom!WrittenPrefix
  <2>4. CASE Eeprom!WriteByte
    BY <2>4, WriteExtends
  <2>5. CASE Eeprom!Written
    BY <2>5 DEF Eeprom!Written, EepromInv, Eeprom!TypeOK, Eeprom!WrittenPrefix
  <2>6. CASE UNCHANGED Eeprom!vars
    BY <2>6 DEF Eeprom!vars, EepromInv, Eeprom!TypeOK, Eeprom!WrittenPrefix
  <2> QED
    BY <2>1, <2>2, <2>3, <2>4, <2>5, <2>6 DEF Eeprom!Next
<1>3. Inv => WrittenPrefix
  BY DEF EepromInv, WrittenPrefix
<1> QED
  BY <1>1, <1>2, <1>3, PTL DEF Spec

-----------------------------------------------------------------------------
(* rtl_test -p.                                                            *)

(* The counters are natural numbers, and stay 0 until the measurement      *)
(* runs.                                                                   *)
PpmInv ==
    /\ now \in Nat /\ ppm_recent \in Nat /\ started \in Nat /\ seen \in Nat
    /\ nsamples \in Nat /\ nsamples_total \in Nat /\ interval_total \in Int
    /\ ppm_init \in {"NO", "DUMP", "RUN"}
    /\ ppm_init # "RUN" => seen = 0 /\ nsamples = 0 /\ nsamples_total = 0
    /\ Ppm!TotalsAreExact

(* Seconds and the rest of a second, subtracted apart and put together     *)
(* again, are the time that has passed.                                    *)
LEMMA ElapsedIsTime ==
    ASSUME NEW t \in Nat, ppm_recent \in Nat
    PROVE  Ppm!Elapsed(t) = t - ppm_recent
<1> USE TestAssumption DEF TestAssumption
<1>1. /\ t = Second * (t \div Second) + (t % Second)
      /\ t % Second \in 0..(Second - 1) /\ t \div Second \in Nat
  BY DivModDef
<1>2. /\ ppm_recent = Second * (ppm_recent \div Second) + (ppm_recent % Second)
      /\ ppm_recent % Second \in 0..(Second - 1) /\ ppm_recent \div Second \in Nat
  BY DivModDef
<1>3. (t \div Second - ppm_recent \div Second) * Second
        = Second * (t \div Second) - Second * (ppm_recent \div Second)
  BY <1>1, <1>2
<1> QED
  BY <1>1, <1>2, <1>3 DEF Ppm!Elapsed, Ppm!tv_sec, Ppm!tv_nsec

(* Every step of the ppm test keeps the account.                           *)
LEMMA PpmStepKeeps ==
    ASSUME PpmInv, [Ppm!Next]_(Ppm!vars)
    PROVE  PpmInv'
<1> USE DEF PpmInv, Ppm!TotalsAreExact
<1>1. CASE Ppm!Tick
  BY <1>1 DEF Ppm!Tick
<1>2. CASE Ppm!FirstCall
  <2>1. now \div Second \in Nat /\ Second \in Nat /\ PPM_DUMP_TIME \in Nat
    BY DivModDef, TestAssumption DEF TestAssumption
  <2>2. ppm_recent' \in Nat
    BY <1>2, <2>1 DEF Ppm!FirstCall, Ppm!tv_sec
  <2> QED
    BY <1>2, <2>2 DEF Ppm!FirstCall
<1>3. CASE Ppm!DumpCall
  BY <1>3 DEF Ppm!DumpCall
<1>4. CASE Ppm!RunCall
  <2>1. CASE Ppm!tv_sec(now) - Ppm!tv_sec(ppm_recent) < ppm_duration
    BY <1>4, <2>1 DEF Ppm!RunCall
  <2>2. CASE ~(Ppm!tv_sec(now) - Ppm!tv_sec(ppm_recent) < ppm_duration)
    <3>1. Ppm!Elapsed(now) = now - ppm_recent
      BY ElapsedIsTime
    <3> QED
      BY <1>4, <2>2, <3>1 DEF Ppm!RunCall, Ppm!NewPeriod
  <2> QED
    BY <2>1, <2>2
<1>5. CASE UNCHANGED Ppm!vars
  BY <1>5 DEF Ppm!vars
<1> HIDE DEF PpmInv
<1> QED
  BY <1>1, <1>2, <1>3, <1>4, <1>5 DEF Ppm!Next, Ppm!Call

(* The totals of the ppm test cover every buffer and every tick once, for  *)
(* every clock resolution, period and duration.                            *)
THEOREM PpmTotalsExact == Spec => []TotalsAreExact
<1> DEFINE Inv == tool = "rtl_test -p" => PpmInv
<1>1. Init => Inv
  <2>1. Ppm!Init => PpmInv
    BY DEF Ppm!Init, PpmInv, Ppm!TotalsAreExact
  <2> QED
    BY <2>1, Zenon DEF Init
<1>2. ASSUME Inv, [Next]_all PROVE Inv'
  BY <1>2, OneTool, PpmStepKeeps, Zenon
<1>3. Inv => TotalsAreExact
  BY Zenon DEF PpmInv, TotalsAreExact
<1> QED
  BY <1>1, <1>2, <1>3, PTL DEF Spec

-----------------------------------------------------------------------------
(* rtl_sdr.                                                                *)

(* The limits fit the uint32_t bytes_to_read.                              *)
LimitsFit == \A n \in Samples : 2 * n < Word

SdrTypes ==
    /\ samples \in Samples /\ bytes_to_read \in 0..(Word - 1) /\ written \in Nat /\ signals \in Nat
    /\ main \in {"setup", "recording", "finishing", "exited"}

(* Without a last block bytes_to_read stays a whole number of blocks.      *)
NoLastBlock == ~Sdr!HasLastBlock => bytes_to_read % BlockSize = 0

(* While it may still write, bytes_to_read is what is left, never 0, and   *)
(* what is missing from the file besides is a failure.                     *)
LeftIsExact ==
    Sdr!HasLastBlock /\ ~do_exit /\ main \in {"setup", "recording"} =>
        /\ bytes_to_read > 0
        /\ bytes_to_read % BlockSize # 0
        /\ written + bytes_to_read <= 2 * samples
        /\ ~failed => written + bytes_to_read = 2 * samples

(* A recording that ends by itself has a last block and its samples.       *)
EndIsExact ==
    (stream = "CANCELING" \/ do_exit \/ main \in {"finishing", "exited"}) /\ ~failed /\ signals = 0
        => Sdr!HasLastBlock /\ written = 2 * samples

NeverTooMuch == Sdr!HasLastBlock => written <= 2 * samples

SdrInv == SdrTypes /\ NoLastBlock /\ NeverTooMuch /\ LeftIsExact /\ EndIsExact

(* What is subtracted from the bytes to read.                              *)
LEMMA Subtracted ==
    ASSUME NEW n \in 0..bytes_to_read, bytes_to_read \in 1..(Word - 1), Word \in Nat
    PROVE  Sdr!LeftAfter(n) = bytes_to_read - n
<1>1. bytes_to_read - n \in 0..(Word - 1)
  OBVIOUS
<1>2. (Word + (bytes_to_read - n)) % Word = bytes_to_read - n
  BY <1>1, ModWrap
<1>3. Word + bytes_to_read - n = Word + (bytes_to_read - n)
  OBVIOUS
<1> QED
  BY <1>2, <1>3 DEF Sdr!LeftAfter

(* What a block leaves to be read where there is no last one.              *)
LEMMA WholeBlockLeaves ==
    ASSUME SdrInv, ~Sdr!HasLastBlock, NEW len \in 1..BlockSize
    PROVE  /\ ~Sdr!LastBlock(len) /\ Sdr!Wanted(len) = len
           /\ len = BlockSize => /\ Sdr!LeftAfter(len) \in 0..(Word - 1)
                                 /\ Sdr!LeftAfter(len) % BlockSize = 0
<1> USE SdrAssumption DEF SdrAssumption
<1> DEFINE b == bytes_to_read
<1>1. b \in 0..(Word - 1) /\ b % BlockSize = 0 /\ BlockSize \in Nat \ {0} /\ Word \in Nat \ {0}
  BY DEF SdrInv, SdrTypes, NoLastBlock
<1>2. CASE b = 0
  <2>1. Sdr!LeftAfter(len) = 0
    BY <1>2 DEF Sdr!LeftAfter
  <2> QED
    BY <1>1, <1>2, <2>1 DEF Sdr!LastBlock, Sdr!Wanted
<1>3. CASE b > 0
  <2>1. b >= BlockSize
    BY <1>1, <1>3, ModWrap
  <2>2. ~Sdr!LastBlock(len) /\ Sdr!Wanted(len) = len
    BY <1>1, <2>1 DEF Sdr!LastBlock, Sdr!Wanted
  <2>3. ASSUME len = BlockSize
        PROVE  Sdr!LeftAfter(len) \in 0..(Word - 1) /\ Sdr!LeftAfter(len) % BlockSize = 0
    <3>1. Sdr!LeftAfter(len) = b - BlockSize
      BY <1>1, <1>3, <2>1, <2>3, Subtracted
    <3>2. b \in Nat
      BY <1>1
    <3> HIDE DEF b
    <3>3. (b - BlockSize) % BlockSize = b % BlockSize
      BY <1>1, <2>1, <3>2, ModLess
    <3> QED
      BY <1>1, <2>1, <3>1, <3>2, <3>3
  <2> QED
    BY <2>2, <2>3
<1> QED
  BY <1>1, <1>2, <1>3

(* What one leaves before the last.                                        *)
LEMMA BlockLeaves ==
    ASSUME SdrInv, Sdr!HasLastBlock, ~do_exit, main = "recording", NEW len \in 1..BlockSize
    PROVE  /\ Sdr!Wanted(len) \in Nat /\ Sdr!Wanted(len) <= BlockSize
           /\ Sdr!LeftAfter(Sdr!Wanted(len)) = bytes_to_read - Sdr!Wanted(len)
           /\ bytes_to_read - Sdr!Wanted(len) \in 0..(Word - 1)
           /\ Sdr!LastBlock(len) => Sdr!Wanted(len) = bytes_to_read /\ Sdr!Wanted(len) < BlockSize
           /\ ~Sdr!LastBlock(len) => Sdr!Wanted(len) = len
           /\ len = BlockSize /\ ~Sdr!LastBlock(len) =>
                 bytes_to_read - len > 0 /\ (bytes_to_read - len) % BlockSize # 0
<1> USE SdrAssumption DEF SdrAssumption
<1>1. bytes_to_read \in 1..(Word - 1) /\ bytes_to_read % BlockSize # 0
  BY DEF SdrInv, SdrTypes, LeftIsExact
<1>2. Sdr!Wanted(len) \in 0..bytes_to_read /\ Sdr!Wanted(len) <= BlockSize
  BY <1>1 DEF Sdr!Wanted, Sdr!LastBlock
<1>3. Sdr!LeftAfter(Sdr!Wanted(len)) = bytes_to_read - Sdr!Wanted(len)
  BY <1>1, <1>2, Subtracted
<1>4. ASSUME len = BlockSize, ~Sdr!LastBlock(len)
      PROVE  bytes_to_read - len > 0 /\ (bytes_to_read - len) % BlockSize # 0
  <2>1. bytes_to_read >= BlockSize
    BY <1>1, <1>4 DEF Sdr!LastBlock
  <2>2. bytes_to_read \in Nat
    BY <1>1
  <2>3. (bytes_to_read - BlockSize) % BlockSize = bytes_to_read % BlockSize
    BY <2>1, <2>2, ModLess
  <2>4. bytes_to_read - BlockSize # 0
    BY <1>1, <2>3, ModWrap
  <2> QED
    BY <1>1, <1>4, <2>1, <2>3, <2>4
<1> QED
  BY <1>1, <1>2, <1>3, <1>4 DEF Sdr!Wanted, Sdr!LastBlock

(* A block delivered by the stream.                                        *)
LEMMA CallbackKeepsCount ==
    ASSUME SdrInv, NEW len \in Sdr!Lengths, Sdr!RtlsdrCallback(len)
    PROVE  SdrInv'
<1> USE SdrAssumption DEF SdrAssumption
<1> DEFINE n == Sdr!Wanted(len)  h == Sdr!HasLastBlock
<1>1. /\ main = "recording" /\ main' = main /\ ~do_exit /\ len = BlockSize /\ len \in 1..BlockSize
      /\ samples' = samples /\ signals' = signals /\ samples \in Nat /\ written \in Nat
      /\ bytes_to_read' = Sdr!LeftAfter(n) /\ (do_exit' <=> Sdr!LastBlock(len))
  <2>1. do_exit' <=> Sdr!LastBlock(len)
    BY Zenon DEF Sdr!RtlsdrCallback
  <2> QED
    BY <2>1 DEF Sdr!RtlsdrCallback, Sdr!Lengths, Sdr!options, SdrInv, SdrTypes
<1>2. Sdr!HasLastBlock' <=> h
  BY <1>1 DEF Sdr!HasLastBlock
<1>3. ~h => /\ ~Sdr!LastBlock(len) /\ n = len
            /\ bytes_to_read' \in 0..(Word - 1) /\ bytes_to_read' % BlockSize = 0
  BY <1>1, WholeBlockLeaves
<1>4. h => /\ n \in Nat /\ bytes_to_read' = bytes_to_read - n /\ bytes_to_read' \in 0..(Word - 1)
           /\ Sdr!LastBlock(len) => n = bytes_to_read
           /\ ~Sdr!LastBlock(len) => bytes_to_read' > 0 /\ bytes_to_read' % BlockSize # 0
           /\ written + bytes_to_read <= 2 * samples
           /\ ~failed => written + bytes_to_read = 2 * samples
  BY <1>1, BlockLeaves DEF SdrInv, LeftIsExact
<1>5. n \in Nat /\ bytes_to_read \in Nat /\ bytes_to_read' \in 0..(Word - 1)
  BY <1>1, <1>3, <1>4 DEF SdrInv, SdrTypes
<1> HIDE DEF n, h
<1>6. CASE /\ written' = written + n /\ UNCHANGED failed
           /\ IF Sdr!LastBlock(len) THEN Sdr!CancelAsync ELSE UNCHANGED Sdr!libVars
  <2>1. SdrTypes' /\ NoLastBlock' /\ NeverTooMuch' /\ LeftIsExact'
    BY <1>1, <1>2, <1>3, <1>4, <1>5, <1>6 DEF SdrInv, SdrTypes, NoLastBlock, NeverTooMuch, LeftIsExact
  <2>2. EndIsExact'
    <3>1. CASE Sdr!LastBlock(len)
      BY <1>1, <1>2, <1>3, <1>4, <1>5, <1>6, <3>1 DEF EndIsExact
    <3>2. CASE ~Sdr!LastBlock(len)
      <4>1. ~(stream = "CANCELING" /\ ~failed /\ signals = 0)
        <5>1. stream = "CANCELING" /\ ~failed /\ signals = 0 => h /\ written = 2 * samples
          BY DEF SdrInv, EndIsExact, h
        <5>2. h => bytes_to_read > 0
          BY <1>1 DEF SdrInv, LeftIsExact, h
        <5> QED
          BY <1>1, <1>4, <1>5, <5>1, <5>2
      <4> QED
        BY <1>1, <1>6, <3>2, <4>1 DEF EndIsExact, Sdr!libVars
    <3> QED
      BY <3>1, <3>2
  <2> QED
    BY <2>1, <2>2 DEF SdrInv
<1>7. ASSUME NEW k \in 0..(n - 1), written' = written + k, failed'
      PROVE  SdrInv'
  <2>1. SdrTypes' /\ NoLastBlock' /\ NeverTooMuch' /\ LeftIsExact'
    BY <1>1, <1>2, <1>3, <1>4, <1>5, <1>7 DEF SdrInv, SdrTypes, NoLastBlock, NeverTooMuch, LeftIsExact
  <2>2. EndIsExact'
    BY <1>7 DEF EndIsExact
  <2> QED
    BY <2>1, <2>2 DEF SdrInv
<1> QED
  BY <1>6, <1>7 DEF Sdr!RtlsdrCallback, n

(* A block read synchronously.                                             *)
LEMMA SyncReadKeepsCount ==
    ASSUME SdrInv, NEW len \in Sdr!Lengths, Sdr!SyncRead(len)
    PROVE  SdrInv'
<1> USE SdrAssumption DEF SdrAssumption
<1> DEFINE n == Sdr!Wanted(len)  h == Sdr!HasLastBlock
<1>1. /\ main = "recording" /\ ~do_exit /\ len \in 1..BlockSize
      /\ samples' = samples /\ signals' = signals /\ stream' = stream
      /\ samples \in Nat /\ written \in Nat
      /\ (do_exit' <=> Sdr!LastBlock(len)) /\ bytes_to_read \in 0..(Word - 1)
  BY DEF Sdr!SyncRead, Sdr!Lengths, Sdr!options, Sdr!libVars, SdrInv, SdrTypes
<1>2. Sdr!HasLastBlock' <=> h
  BY <1>1 DEF Sdr!HasLastBlock
<1>3. ~h => /\ ~Sdr!LastBlock(len) /\ n = len /\ bytes_to_read % BlockSize = 0
            /\ n = BlockSize => Sdr!LeftAfter(n) \in 0..(Word - 1) /\ Sdr!LeftAfter(n) % BlockSize = 0
  BY <1>1, WholeBlockLeaves DEF SdrInv, NoLastBlock
<1>4. h => /\ n \in Nat /\ n <= BlockSize
           /\ Sdr!LeftAfter(n) = bytes_to_read - n /\ bytes_to_read - n \in 0..(Word - 1)
           /\ Sdr!LastBlock(len) => n = bytes_to_read /\ n < BlockSize
           /\ ~Sdr!LastBlock(len) => n = len
           /\ len = BlockSize /\ ~Sdr!LastBlock(len) =>
                 bytes_to_read - n > 0 /\ (bytes_to_read - n) % BlockSize # 0
           /\ bytes_to_read > 0 /\ bytes_to_read % BlockSize # 0
           /\ written + bytes_to_read <= 2 * samples
           /\ ~failed => written + bytes_to_read = 2 * samples
  BY <1>1, BlockLeaves DEF SdrInv, LeftIsExact
<1>5. ~(stream = "CANCELING" /\ ~failed /\ signals = 0)
  <2>1. stream = "CANCELING" /\ ~failed /\ signals = 0 => h /\ written = 2 * samples
    BY DEF SdrInv, EndIsExact
  <2> HIDE DEF h, n
  <2> QED
    BY <1>1, <1>4, <2>1
<1>6. n \in Nat /\ n <= BlockSize
  BY <1>1, <1>3, <1>4
<1> HIDE DEF n, h
<1>7. CASE /\ written' = written + n
           /\ failed' = (failed \/ (n < BlockSize /\ ~Sdr!LastBlock(len)))
           /\ IF n < BlockSize THEN main' = "finishing" /\ UNCHANGED bytes_to_read
                               ELSE bytes_to_read' = Sdr!LeftAfter(n) /\ UNCHANGED main
  <2>1. failed' <=> (failed \/ (n < BlockSize /\ ~Sdr!LastBlock(len)))
    BY <1>7, Zenon
  <2>2. CASE n < BlockSize
    <3>1. SdrTypes' /\ NoLastBlock' /\ NeverTooMuch' /\ LeftIsExact'
      BY <1>1, <1>2, <1>3, <1>4, <1>6, <1>7, <2>2, <2>1
         DEF SdrInv, SdrTypes, NoLastBlock, NeverTooMuch, LeftIsExact
    <3>2. EndIsExact'
      BY <1>1, <1>2, <1>3, <1>4, <1>6, <1>7, <2>2, <2>1 DEF EndIsExact
    <3> QED
      BY <3>1, <3>2 DEF SdrInv
  <2>3. CASE n = BlockSize
    <3>1. ~Sdr!LastBlock(len) /\ len = BlockSize
      BY <1>1, <1>3, <1>4, <2>3
    <3>2. SdrTypes' /\ NoLastBlock' /\ NeverTooMuch' /\ LeftIsExact'
      BY <1>1, <1>2, <1>3, <1>4, <1>6, <1>7, <2>3, <2>1, <3>1
         DEF SdrInv, SdrTypes, NoLastBlock, NeverTooMuch, LeftIsExact
    <3>3. EndIsExact'
      BY <1>1, <1>5, <1>7, <2>3, <2>1, <3>1 DEF EndIsExact
    <3> QED
      BY <3>2, <3>3 DEF SdrInv
  <2> QED
    BY <1>1, <1>6, <2>2, <2>3
<1>8. ASSUME NEW k \in 0..(n - 1), written' = written + k, main' = "finishing", failed',
             UNCHANGED bytes_to_read
      PROVE  SdrInv'
  <2>1. SdrTypes' /\ NoLastBlock' /\ NeverTooMuch' /\ LeftIsExact'
    BY <1>1, <1>2, <1>3, <1>4, <1>6, <1>8 DEF SdrInv, SdrTypes, NoLastBlock, NeverTooMuch, LeftIsExact
  <2>2. EndIsExact'
    BY <1>8 DEF EndIsExact
  <2> QED
    BY <2>1, <2>2 DEF SdrInv
<1> QED
  BY <1>7, <1>8 DEF Sdr!SyncRead, n

(* Every step of the recorder keeps the count.                             *)
LEMMA SdrStepKeeps ==
    ASSUME SdrInv, [Sdr!Next]_(Sdr!vars)
    PROVE  SdrInv'
<1> USE SdrAssumption DEF SdrAssumption
<1> DEFINE KeepsLimit == samples' = samples /\ (Sdr!HasLastBlock' <=> Sdr!HasLastBlock)
<1>1. samples' = samples => KeepsLimit
  BY DEF Sdr!HasLastBlock
<1> USE DEF SdrTypes, NoLastBlock, NeverTooMuch, LeftIsExact, EndIsExact
<1>2. CASE Sdr!Start
  BY <1>1, <1>2 DEF SdrInv, Sdr!Start, Sdr!Lib!Start, Sdr!libVars, Sdr!options
<1>3. CASE Sdr!EndAsync
  BY <1>1, <1>3 DEF SdrInv, Sdr!EndAsync, Sdr!Lib!Finish, Sdr!options
<1>4. CASE Sdr!StreamFails
  BY <1>1, <1>4 DEF SdrInv, Sdr!StreamFails, Sdr!Lib!RequestCancel, Sdr!options
<1>5. CASE Sdr!SyncReadFails \/ Sdr!SyncExit
  BY <1>1, <1>5 DEF SdrInv, Sdr!SyncReadFails, Sdr!SyncExit, Sdr!libVars, Sdr!options
<1>6. CASE Sdr!Finish
  BY <1>1, <1>6 DEF SdrInv, Sdr!Finish, Sdr!Lib!Close, Sdr!options
<1>7. CASE Sdr!Sighandler
  BY <1>1, <1>7 DEF SdrInv, Sdr!Sighandler, Sdr!options
<1>8. ASSUME NEW len \in Sdr!Lengths, Sdr!RtlsdrCallback(len) \/ Sdr!SyncRead(len)
      PROVE  SdrInv'
  BY <1>8, CallbackKeepsCount, SyncReadKeepsCount
<1>9. CASE UNCHANGED Sdr!vars
  BY <1>1, <1>9 DEF SdrInv, Sdr!vars, Sdr!options, Sdr!libVars
<1> QED
  BY <1>2, <1>3, <1>4, <1>5, <1>6, <1>7, <1>8, <1>9 DEF Sdr!Next, Sdr!Recording

(* A recording whose limit leaves a last block never holds more than -n    *)
(* samples, and what ends without a failure or a signal holds every one of *)
(* them and had a last block to end at: with whole blocks, as without a    *)
(* limit, none ends by itself.  In both modes, for every block size and    *)
(* for all limits that fit 32 bits (rtl_sdr.c:84-108, 246-277).            *)
THEOREM SdrRecordsExactly ==
    ASSUME LimitsFit
    PROVE  Spec => []RecordingExact
<1> DEFINE Inv == tool = "rtl_sdr" => SdrInv
<1>1. Init => Inv
  <2> SUFFICES ASSUME Sdr!Init PROVE SdrInv
    BY DEF Init
  <2> USE SdrAssumption DEF SdrAssumption
  <2>1. samples \in Samples /\ samples \in Nat /\ 2 * samples \in 0..(Word - 1)
    BY DEF LimitsFit, Sdr!Init
  <2>2. bytes_to_read = 2 * samples /\ bytes_to_read = samples + samples
    BY <2>1, ModWrap DEF Sdr!Init
  <2>3. Sdr!HasLastBlock <=> bytes_to_read % BlockSize # 0
    BY <2>2 DEF Sdr!HasLastBlock
  <2>4. Sdr!HasLastBlock => bytes_to_read > 0
    BY <2>1, <2>2, <2>3, ModWrap
  <2> QED
    BY <2>1, <2>2, <2>3, <2>4
       DEF Sdr!Init, Sdr!Lib!Init, SdrInv, SdrTypes, NoLastBlock, NeverTooMuch, LeftIsExact, EndIsExact
<1>2. ASSUME Inv, [Next]_all PROVE Inv'
  BY <1>2, OneTool, SdrStepKeeps
<1>3. Inv => RecordingExact
  BY DEF SdrInv, NeverTooMuch, EndIsExact, RecordingExact, Sdr!RecordingExact
<1> QED
  BY <1>1, <1>2, <1>3, PTL DEF Spec

-----------------------------------------------------------------------------
(* rtl_power.                                                              *)

(* What waits to be read is what the tuner receives, and the tuner is      *)
(* where the library says, unless it says nothing.                         *)
TunerIsKnown == fifo = at /\ (dev_freq # 0 => at = dev_freq)

SumsAreOwn == \A h \in Power!AllHops : avg[h] \subseteq {h} \/ h \in faulty

(* A pass has sampled every hop before the next one to visit; only signals *)
(* count do_exit up while it runs.                                         *)
PassSamples ==
    /\ main = "scan" => /\ \A h \in Power!AllHops : h < hop => sampled[h]
                        /\ do_exit <= signals
    /\ gaps => signals > 1

(* The next report is due at a multiple of the interval, later than every  *)
(* report so far, except just after one.                                   *)
TickIsAhead ==
    /\ \E k \in Nat : next_tick = Interval * k
    /\ \A r \in DOMAIN reports : reports[r] \in Nat /\ reports[r] <= time
    /\ main # "ticks" => \A r \in DOMAIN reports : reports[r] < next_tick

PowerInv ==
    /\ Power!TypeOK /\ TunerIsKnown /\ SumsAreOwn /\ PassSamples
    /\ TickIsAhead /\ Power!ReportsSpaced

(* A visit adds the hop's own samples, or marks the hop as faulty.         *)
LEMMA VisitKeepsApart ==
    ASSUME PowerInv, Power!Visit
    PROVE  PowerInv'
<1> USE PowerAssumption DEF PowerAssumption
<1>1. PICK tuning \in Power!Tunings(hop) : \E read \in Power!Reads(tuning, buf8[hop]) :
         /\ faults' = faults + (IF tuning.ok THEN 0 ELSE 1) + (IF read.ok THEN 0 ELSE 1)
         /\ dev_freq' = tuning.freq /\ at' = tuning.at /\ fifo' = tuning.at
         /\ buf8' = [buf8 EXCEPT ![hop] = read.data]
         /\ avg' = [avg EXCEPT ![hop] = @ \cup read.data]
         /\ faulty' = IF tuning.ok /\ read.ok THEN faulty ELSE faulty \cup {hop}
  BY DEF Power!Visit
<1>2. PICK read \in Power!Reads(tuning, buf8[hop]) :
         /\ faults' = faults + (IF tuning.ok THEN 0 ELSE 1) + (IF read.ok THEN 0 ELSE 1)
         /\ dev_freq' = tuning.freq /\ at' = tuning.at /\ fifo' = tuning.at
         /\ buf8' = [buf8 EXCEPT ![hop] = read.data]
         /\ avg' = [avg EXCEPT ![hop] = @ \cup read.data]
         /\ faulty' = IF tuning.ok /\ read.ok THEN faulty ELSE faulty \cup {hop}
  BY <1>1
<1>3. /\ main = "scan" /\ hop \in 1..Hops /\ hop' = hop + 1
      /\ sampled' = [sampled EXCEPT ![hop] = TRUE]
      /\ UNCHANGED << single, exit_after, main, do_exit, time, next_tick, reports, gaps, signals >>
      /\ hop \in Power!AllHops /\ hop \in Power!Freqs
  BY DEF Power!Visit, Power!optionVars, PowerInv, Power!TypeOK, Power!AllHops, Power!Freqs
<1>4. /\ tuning.freq \in Power!Freqs /\ tuning.at \in Power!Freqs /\ tuning.fifo \in Power!Freqs
      /\ tuning.freq # 0 => tuning.at = tuning.freq
      /\ tuning.ok => tuning.at = hop /\ tuning.fifo = hop
  <2>1. CASE dev_freq = hop
    BY <1>1, <1>3, <2>1 DEF Power!Tunings, PowerInv, TunerIsKnown, Power!TypeOK
  <2>2. CASE dev_freq # hop
    BY <1>1, <1>3, <2>2 DEF Power!Tunings, Power!Flushed, PowerInv, Power!TypeOK, Power!Freqs
  <2> QED
    BY <2>1, <2>2
<1>5. /\ read.data \in SUBSET Power!Freqs
      /\ tuning.ok /\ read.ok => read.data = {hop}
  <2>1. buf8[hop] \in SUBSET Power!Freqs
    BY <1>3 DEF PowerInv, Power!TypeOK
  <2>2. CASE read = [data |-> {tuning.fifo, tuning.at}, ok |-> TRUE]
    BY <1>4, <2>2
  <2>3. CASE read \in {[data |-> buf8[hop] \cup new, ok |-> FALSE] : new \in {{}, {tuning.fifo, tuning.at}}}
    BY <1>4, <2>1, <2>3
  <2> QED
    BY <1>2, <2>2, <2>3 DEF Power!Reads
<1>6. Power!TypeOK'
  <2>1. faults' \in Nat /\ faulty' \subseteq Power!AllHops
    BY <1>2, <1>3 DEF PowerInv, Power!TypeOK
  <2>2. buf8' \in [Power!AllHops -> SUBSET Power!Freqs] /\ avg' \in [Power!AllHops -> SUBSET Power!Freqs]
    BY <1>2, <1>3, <1>5 DEF PowerInv, Power!TypeOK
  <2>3. sampled' \in [Power!AllHops -> BOOLEAN] /\ hop' \in 1..(Hops + 1)
    BY <1>3 DEF PowerInv, Power!TypeOK
  <2>4. dev_freq' \in Power!Freqs /\ at' \in Power!Freqs /\ fifo' \in Power!Freqs
    BY <1>2, <1>4
  <2> QED
    BY <1>3, <2>1, <2>2, <2>3, <2>4 DEF PowerInv, Power!TypeOK
<1>7. TunerIsKnown'
  BY <1>2, <1>4 DEF TunerIsKnown
<1>8. SumsAreOwn'
  BY <1>2, <1>3, <1>5 DEF PowerInv, SumsAreOwn, Power!TypeOK
<1>9. PassSamples'
  BY <1>3 DEF PowerInv, PassSamples, Power!TypeOK, Power!AllHops
<1>10. TickIsAhead' /\ Power!ReportsSpaced'
  BY <1>3 DEF PowerInv, TickIsAhead, Power!ReportsSpaced
<1> QED
  BY <1>6, <1>7, <1>8, <1>9, <1>10 DEF PowerInv

(* The next tick is a multiple of the interval after now.                  *)
LEMMA NextTickIsAhead ==
    ASSUME NEW k \in Nat, next_tick = Interval * k, next_tick \in Nat, time \in Nat
    PROVE  /\ Power!NextTick(next_tick, time) \in Nat
           /\ Power!NextTick(next_tick, time) > time
           /\ \E j \in Nat : Power!NextTick(next_tick, time) = Interval * j
<1> USE PowerAssumption DEF PowerAssumption
<1>1. CASE time < next_tick
  BY <1>1 DEF Power!NextTick
<1>2. CASE time >= next_tick
  <2> DEFINE late == time - next_tick
             q == late \div Interval
  <2>1. Power!NextTick(next_tick, time) = next_tick + Interval * (1 + q)
    BY <1>2 DEF Power!NextTick
  <2>2. late \in Nat /\ time = next_tick + late
    BY <1>2
  <2> HIDE DEF late
  <2>3. late = Interval * q + (late % Interval) /\ late % Interval \in 0..(Interval - 1) /\ q \in Nat
    BY <2>2, DivModDef
  <2> HIDE DEF q
  <2>4. Interval * (1 + q) = Interval + Interval * q /\ Interval * q \in Nat
    BY <2>3
  <2>5. next_tick + Interval * (1 + q) = Interval * (k + (1 + q)) /\ k + (1 + q) \in Nat
    BY <2>3
  <2>6. \E j \in Nat : next_tick + Interval * (1 + q) = Interval * j
    BY <2>5
  <2>7. next_tick + Interval * (1 + q) > time /\ next_tick + Interval * (1 + q) \in Nat
    BY <2>2, <2>3, <2>4
  <2> QED
    BY <2>1, <2>6, <2>7
<1> QED
  BY <1>1, <1>2

(* Times on both sides of a multiple of the interval are in different      *)
(* intervals.                                                              *)
LEMMA AcrossTick ==
    ASSUME NEW k \in Nat, NEW a \in Nat, NEW b \in Nat, a < Interval * k, Interval * k <= b
    PROVE  a \div Interval < b \div Interval
<1> USE PowerAssumption DEF PowerAssumption
<1>1. /\ a = Interval * (a \div Interval) + (a % Interval)
      /\ a % Interval \in 0..(Interval - 1) /\ a \div Interval \in Nat
  BY DivModDef
<1>2. /\ b = Interval * (b \div Interval) + (b % Interval)
      /\ b % Interval \in 0..(Interval - 1) /\ b \div Interval \in Nat
  BY DivModDef
<1>3. a \div Interval >= k => Interval * (a \div Interval) >= Interval * k
  BY <1>1
<1>4. b \div Interval + 1 <= k => Interval * (b \div Interval + 1) <= Interval * k
  BY <1>2
<1>5. Interval * (b \div Interval + 1) = Interval * (b \div Interval) + Interval
  BY <1>2
<1>6. a \div Interval < k
  BY <1>1, <1>3
<1>7. k <= b \div Interval
  BY <1>2, <1>4, <1>5
<1> QED
  BY <1>1, <1>2, <1>6, <1>7

(* The end of a pass, with or without a report.                            *)
LEMMA ReportKeepsSpacing ==
    ASSUME PowerInv, Power!ScanEnds
    PROVE  PowerInv'
<1> USE PowerAssumption DEF PowerAssumption
<1>1. CASE time < next_tick
  BY <1>1 DEF Power!ScanEnds, PowerInv, Power!TypeOK, TunerIsKnown, SumsAreOwn, PassSamples, TickIsAhead,
              Power!ReportsSpaced, Power!deviceVars, Power!optionVars
<1>2. CASE ~(time < next_tick)
  <2>1. /\ main = "scan" /\ (hop > Hops \/ do_exit >= 2) /\ main' = "ticks"
        /\ avg' = [h \in Power!AllHops |-> {}] /\ sampled' = [h \in Power!AllHops |-> FALSE]
        /\ faulty' = {} /\ reports' = Power!Append(reports, time)
        /\ gaps' = (gaps \/ \E h \in Power!AllHops : ~sampled[h])
        /\ UNCHANGED << single, exit_after, do_exit, hop, time, next_tick, dev_freq, at, fifo, buf8, signals, faults >>
    BY <1>2 DEF Power!ScanEnds, Power!deviceVars, Power!optionVars
  <2>2. time >= next_tick /\ time \in Nat /\ reports \in Power!Seq(Nat)
    BY <1>2 DEF PowerInv, Power!TypeOK
  <2>3. /\ reports' \in Power!Seq(Nat) /\ DOMAIN reports = 1..Power!Len(reports)
        /\ DOMAIN reports' = 1..(Power!Len(reports) + 1) /\ Power!Len(reports) \in Nat
        /\ \A r \in 1..Power!Len(reports) : reports'[r] = reports[r]
        /\ reports'[Power!Len(reports) + 1] = time
    BY <2>1, <2>2
  <2>4. PICK k \in Nat : next_tick = Interval * k
    BY DEF PowerInv, TickIsAhead
  <2>5. /\ \A r \in DOMAIN reports : reports[r] \in Nat /\ reports[r] < next_tick
        /\ \A r \in DOMAIN reports : reports[r] <= time
    BY <2>1 DEF PowerInv, TickIsAhead
  <2>6. \A r \in DOMAIN reports : reports[r] \div Interval < time \div Interval
    BY <2>2, <2>4, <2>5, AcrossTick
  <2>7. Power!ReportsSpaced'
    <3> SUFFICES ASSUME NEW q \in DOMAIN reports', NEW r \in DOMAIN reports', q < r
                 PROVE  reports'[q] \div Interval < reports'[r] \div Interval
      BY DEF Power!ReportsSpaced
    <3>1. CASE r \in DOMAIN reports
      BY <2>3, <3>1 DEF PowerInv, Power!ReportsSpaced
    <3>2. CASE r \notin DOMAIN reports
      BY <2>3, <2>6, <3>2
    <3> QED
      BY <3>1, <3>2
  <2>8. TickIsAhead'
    <3>1. \E j \in Nat : next_tick' = Interval * j
      BY <2>1, <2>4
    <3>2. \A r \in DOMAIN reports' : reports'[r] \in Nat /\ reports'[r] <= time'
      BY <2>1, <2>2, <2>3, <2>5
    <3> QED
      BY <2>1, <3>1, <3>2 DEF TickIsAhead
  <2>9. PassSamples'
    <3>1. (\E h \in Power!AllHops : ~sampled[h]) => signals > 1
      BY <2>1 DEF PowerInv, Power!TypeOK, PassSamples, Power!AllHops
    <3> QED
      BY <2>1, <3>1 DEF PowerInv, PassSamples
  <2>10. Power!TypeOK'
    <3>1. gaps' \in BOOLEAN
      BY <2>1 DEF PowerInv, Power!TypeOK
    <3>2. avg' \in [Power!AllHops -> SUBSET Power!Freqs] /\ sampled' \in [Power!AllHops -> BOOLEAN]
      BY <2>1
    <3> QED
      BY <2>1, <2>3, <3>1, <3>2 DEF PowerInv, Power!TypeOK
  <2>11. TunerIsKnown' /\ SumsAreOwn'
    BY <2>1 DEF PowerInv, TunerIsKnown, SumsAreOwn
  <2> QED
    BY <2>7, <2>8, <2>9, <2>10, <2>11 DEF PowerInv
<1> QED
  BY <1>1, <1>2

(* The other steps.                                                        *)
LEMMA PowerStepKeeps ==
    ASSUME PowerInv, [Power!Next]_(Power!vars)
    PROVE  PowerInv'
<1> USE PowerAssumption DEF PowerAssumption
<1>1. CASE Power!Loop
  <2>1. PassSamples'
    BY <1>1 DEF Power!Loop, Power!LoopEnds, PowerInv, Power!TypeOK, PassSamples, Power!sumVars, Power!AllHops
  <2>2. TickIsAhead' /\ Power!ReportsSpaced'
    BY <1>1 DEF Power!Loop, PowerInv, TickIsAhead, Power!ReportsSpaced
  <2>3. Power!TypeOK' /\ TunerIsKnown' /\ SumsAreOwn'
    BY <1>1 DEF Power!Loop, PowerInv, Power!TypeOK, TunerIsKnown, SumsAreOwn, Power!deviceVars,
                Power!optionVars, Power!sumVars
  <2> QED
    BY <2>1, <2>2, <2>3 DEF PowerInv
<1>2. CASE Power!Ticks
  <2>1. PICK k \in Nat : next_tick = Interval * k
    BY DEF PowerInv, TickIsAhead
  <2>2. time \in Nat /\ next_tick \in Nat
    BY DEF PowerInv, Power!TypeOK
  <2>3. /\ next_tick' \in Nat /\ next_tick' > time
        /\ \E j \in Nat : next_tick' = Interval * j
    BY <1>2, <2>1, <2>2, NextTickIsAhead DEF Power!Ticks
  <2>4. TickIsAhead'
    BY <1>2, <2>2, <2>3 DEF Power!Ticks, PowerInv, TickIsAhead
  <2>5. Power!TypeOK'
    BY <1>2, <2>3 DEF Power!Ticks, PowerInv, Power!TypeOK, Power!deviceVars, Power!optionVars, Power!sumVars
  <2>6. TunerIsKnown' /\ SumsAreOwn' /\ PassSamples' /\ Power!ReportsSpaced'
    BY <1>2 DEF Power!Ticks, PowerInv, TunerIsKnown, SumsAreOwn, PassSamples, Power!ReportsSpaced,
                Power!deviceVars, Power!optionVars, Power!sumVars
  <2> QED
    BY <2>4, <2>5, <2>6 DEF PowerInv
<1>3. CASE Power!Sighandler
  BY <1>3 DEF Power!Sighandler, PowerInv, Power!TypeOK, TunerIsKnown, SumsAreOwn, PassSamples,
              TickIsAhead, Power!ReportsSpaced, Power!deviceVars, Power!optionVars, Power!sumVars
<1>4. CASE Power!ClockTicks
  BY <1>4 DEF Power!ClockTicks, PowerInv, Power!TypeOK, TunerIsKnown, SumsAreOwn, PassSamples,
              TickIsAhead, Power!ReportsSpaced, Power!deviceVars, Power!optionVars, Power!sumVars
<1>5. CASE UNCHANGED Power!vars
  BY <1>5 DEF Power!vars, PowerInv, Power!TypeOK, TunerIsKnown, SumsAreOwn, PassSamples,
              TickIsAhead, Power!ReportsSpaced, Power!deviceVars, Power!optionVars, Power!sumVars
<1> QED
  BY <1>1, <1>2, <1>3, <1>4, <1>5, VisitKeepsApart, ReportKeepsSpacing DEF Power!Next, Power!Main

(* In every scan of rtl_power a hop's sums hold its own samples unless a   *)
(* call failed on that very hop, no hop is reported empty before a second  *)
(* signal, and no two reports fall into one interval: for every plan,      *)
(* interval, pace of the clock and sequence of failing calls.              *)
THEOREM PowerSweepSound == Spec => []SweepSound
<1> DEFINE Inv == tool = "rtl_power" => PowerInv
<1>1. Init => Inv
  <2> SUFFICES ASSUME Power!Init PROVE PowerInv
    BY DEF Init
  <2> USE PowerAssumption DEF PowerAssumption
  <2>1. \E k \in Nat : next_tick = Interval * k
    <3>1. next_tick = Interval * 1
      BY DEF Power!Init
    <3> QED
      BY <3>1
  <2>2. Power!TypeOK
    <3>1. 0 \in Power!Freqs /\ hop \in 1..(Hops + 1)
      BY DEF Power!Init, Power!Freqs
    <3>2. /\ buf8 \in [Power!AllHops -> SUBSET Power!Freqs] /\ avg \in [Power!AllHops -> SUBSET Power!Freqs]
          /\ sampled \in [Power!AllHops -> BOOLEAN] /\ reports \in Power!Seq(Nat)
      BY <3>1 DEF Power!Init
    <3> QED
      BY <3>1, <3>2 DEF Power!Init, Power!TypeOK
  <2>3. TickIsAhead /\ Power!ReportsSpaced
    <3>1. DOMAIN reports = {}
      BY DEF Power!Init
    <3> QED
      BY <2>1, <3>1 DEF TickIsAhead, Power!ReportsSpaced
  <2> QED
    BY <2>2, <2>3 DEF Power!Init, PowerInv, TunerIsKnown, SumsAreOwn, PassSamples
<1>2. ASSUME Inv, [Next]_all PROVE Inv'
  BY <1>2, OneTool, PowerStepKeeps
<1>3. Inv => SweepSound
  BY DEF PowerInv, SumsAreOwn, PassSamples, SweepSound, Power!HopsKeptApart
<1> QED
  BY <1>1, <1>2, <1>3, PTL DEF Spec

-----------------------------------------------------------------------------
(* rtl_test.                                                               *)

(* What underrun_test keeps, and the history.                              *)
Tests == [source : 0..(Counter - 1), bcnt : 0..(Counter - 1), uninit : BOOLEAN,
          dropped : Nat, lost : Nat, visible : BOOLEAN]

(* The expected byte is the one the dongle sends next.                     *)
Follows(t) ==
    /\ ~t.uninit => t.bcnt = t.source
    /\ t.uninit => t.lost = 0 /\ t.dropped = 0 /\ ~t.visible

(* Exactly a real loss is counted.                                         *)
Sees(t) ==
    /\ t.lost = 0 => t.dropped = 0
    /\ t.visible => t.dropped > 0

(* A byte counts as missing exactly when it is not the one expected.       *)
LEMMA MissingIs ==
    ASSUME NEW x \in Nat, NEW y \in Nat
    PROVE  /\ Test!Missing(x, y) \in Nat
           /\ Test!Missing(x, y) = 0 <=> x = y
BY DEF Test!Missing

(* A value of the test counter.                                            *)
Small(x) == x \in Nat /\ x < Counter

(* One byte of the stream keeps this (NextByte).                           *)
LEMMA ByteKept ==
    ASSUME NEW t \in Tests, NEW drop \in Nat, Follows(t), Sees(t)
    PROVE  /\ Test!NextByte(t, drop) \in Tests
           /\ Follows(Test!NextByte(t, drop)) /\ Sees(Test!NextByte(t, drop))
<1> DEFINE byte == (t.source + drop) % Counter
           expected == IF t.uninit THEN byte ELSE t.bcnt
           next == (byte + 1) % Counter
           miss == Test!Missing(expected, byte)
           loss == IF t.uninit THEN t.lost ELSE t.lost + drop
           shown == t.visible \/ (~t.uninit /\ drop % Counter # 0)
           n == Test!NextByte(t, drop)
<1>1. Counter \in Nat \ {0} /\ Counter > 1
  BY TestAssumption DEF TestAssumption
<1>2. /\ Small(t.source) /\ Small(t.bcnt) /\ t.dropped \in Nat /\ t.lost \in Nat
      /\ t.uninit \in BOOLEAN /\ t.visible \in BOOLEAN
  BY <1>1 DEF Tests, Small
<1>3. n = [source |-> next, bcnt |-> next, uninit |-> FALSE, dropped |-> t.dropped + miss,
           lost |-> loss, visible |-> shown]
  BY DEF Test!NextByte, Test!Following
<1>4. byte \in 0..(Counter - 1)
  <2>1. t.source + drop \in Nat
    BY <1>2 DEF Small
  <2> QED
    BY <1>1, <2>1, DivModDef
<1>5. next \in 0..(Counter - 1)
  <2> HIDE DEF byte
  <2>1. byte + 1 \in Nat
    BY <1>1, <1>4
  <2> QED
    BY <1>1, <2>1, DivModDef
<1> HIDE DEF next
<1>6. expected \in Nat /\ byte \in Nat
  <2> HIDE DEF byte
  <2> QED
    BY <1>1, <1>2, <1>4 DEF Small
<1>7. miss \in Nat /\ (miss = 0 <=> expected = byte)
  <2> HIDE DEF expected, byte
  <2> QED
    BY <1>6, MissingIs
<1>8. ~t.uninit => (drop % Counter = 0 <=> byte = t.bcnt)
  <2> SUFFICES ASSUME ~t.uninit PROVE drop % Counter = 0 <=> byte = t.bcnt
    OBVIOUS
  <2>1. t.bcnt = t.source
    BY DEF Follows
  <2> DEFINE a == t.source
             q == drop \div Counter
             r == drop % Counter
  <2>2. drop = Counter * q + r /\ r \in 0..(Counter - 1) /\ q \in Nat
    BY <1>1, DivModDef
  <2>3. a \in 0..(Counter - 1)
    BY <1>1, <1>2 DEF Small
  <2>4. byte = (a + drop) % Counter
    OBVIOUS
  <2> HIDE DEF a, q, r, byte
  <2>5. CASE a + r < Counter
    <3>1. a + drop = Counter * q + (a + r) /\ a + r \in 0..(Counter - 1) /\ a + drop \in Nat
      BY <1>1, <2>2, <2>3, <2>5
    <3>2. (a + drop) % Counter = a + r
      BY <1>1, <2>2, <3>1, DivModUnique
    <3> QED
      BY <1>1, <2>1, <2>2, <2>3, <2>4, <3>2 DEF a, r
  <2>6. CASE a + r >= Counter
    <3>1. /\ a + drop = Counter * (q + 1) + (a + r - Counter) /\ a + r - Counter \in 0..(Counter - 1)
          /\ a + drop \in Nat /\ q + 1 \in Nat
      <4>1. Counter * (q + 1) = Counter * q + Counter
        BY <1>1, <2>2
      <4> QED
        BY <1>1, <2>2, <2>3, <2>6, <4>1
    <3>2. (a + drop) % Counter = a + r - Counter
      BY <1>1, <3>1, DivModUnique
    <3>3. a + r - Counter # a /\ r # 0
      BY <1>1, <2>2, <2>3, <2>6
    <3> QED
      BY <2>1, <2>4, <3>2, <3>3 DEF a, r
  <2> QED
    BY <1>1, <2>2, <2>3, <2>5, <2>6
<1>9. loss \in Nat /\ shown \in BOOLEAN
  BY <1>2
<1>10. t.dropped + miss \in Nat
  <2> HIDE DEF miss
  <2> QED
    BY <1>2, <1>7
<1>11. n \in Tests
  <2> HIDE DEF n, miss, loss, shown
  <2> QED
    BY <1>3, <1>5, <1>9, <1>10, Zenon DEF Tests
<1>12. /\ n.source = n.bcnt /\ (n.uninit <=> FALSE) /\ n.dropped = t.dropped + miss /\ n.lost = loss
       /\ (n.visible <=> shown)
  <2> HIDE DEF n, miss, loss, shown
  <2> QED
    BY <1>3, Zenon
<1>13. Follows(n)
  <2> HIDE DEF n, miss, loss, shown
  <2> QED
    BY <1>12 DEF Follows
<1>14. (loss = 0 => t.dropped + miss = 0) /\ (shown => t.dropped + miss > 0)
  <2>1. CASE t.uninit
    <3>1. t.lost = 0 /\ t.dropped = 0 /\ ~t.visible
      BY <2>1 DEF Follows
    <3>2. expected = byte /\ loss = 0 /\ ~shown
      BY <2>1, <3>1
    <3> HIDE DEF expected, byte, miss, loss, shown
    <3> QED
      BY <3>1, <3>2, <1>7
  <2>2. CASE ~t.uninit
    <3>1. expected = t.bcnt /\ loss = t.lost + drop /\ (shown <=> t.visible \/ drop % Counter # 0)
      BY <2>2
    <3>2. drop = 0 => drop % Counter = 0
      BY <1>1
    <3>3. (drop % Counter = 0 <=> byte = t.bcnt)
      BY <1>8, <2>2
    <3>4. (t.lost = 0 => t.dropped = 0) /\ (t.visible => t.dropped > 0)
      BY DEF Sees
    <3> HIDE DEF expected, byte, miss, loss, shown
    <3>5. loss = 0 => t.lost = 0 /\ drop = 0
      BY <1>2, <3>1
    <3>6. loss = 0 => t.dropped = 0 /\ miss = 0
      BY <1>7, <3>1, <3>2, <3>3, <3>4, <3>5
    <3>7. shown => t.dropped > 0 \/ miss # 0
      BY <1>7, <3>1, <3>3, <3>4
    <3> QED
      BY <1>2, <1>7, <3>6, <3>7
  <2> QED
    BY <1>2, <2>1, <2>2
<1> HIDE DEF n, miss, loss, shown
<1>15. Sees(n)
  BY <1>12, <1>14 DEF Sees
<1> QED
  BY <1>11, <1>13, <1>15 DEF n

(* All of it.                                                              *)
Seen(t) == t \in Tests /\ Follows(t) /\ Sees(t)

(* So does a buffer, whatever was dropped in it (underrun_test,            *)
(* rtl_test.c:125-151).                                                    *)
LEMMA HeardKept ==
    ASSUME NEW t, Seen(t), NEW drops \in Test!Buffers
    PROVE  Seen(Test!Heard(t, drops))
<1>1. BufLen \in Nat \ {0}
  BY TestAssumption DEF TestAssumption
<1>2. \A k \in 1..BufLen : drops[k] \in Nat
  BY TestAssumption DEF TestAssumption, Test!Buffers
<1> DEFINE L == BufLen
           V == {x \in Tests : Follows(x) /\ Sees(x)}
           Turn(n, x) == Test!NextByte(x, drops[n])
           F == [n \in Nat |-> [x \in V |-> IF n + 1 \in 1..L THEN Turn(n + 1, x) ELSE x]]
<1>3. t \in V
  BY DEF Seen
<1>4. ASSUME NEW x \in V, NEW n \in 1..L PROVE Turn(n, x) \in V
  BY <1>2, ByteKept
<1> HIDE DEF V
<1>5. Turns(F, V)
  <2> HIDE DEF Turn
  <2> QED
    BY <1>4 DEF Turns
<1> HIDE DEF F
<1>6. PICK h : Repeats(h, V, t, F)
  BY <1>3, <1>5, Recursion
<1>7. \A n \in 1..L : h[n] = Turn(n, h[n - 1])
  <2> SUFFICES ASSUME NEW n \in 1..L PROVE h[n] = Turn(n, h[n - 1])
    OBVIOUS
  <2> DEFINE m == n - 1
  <2>1. m \in Nat /\ m + 1 = n
    BY <1>1
  <2> HIDE DEF m, Turn
  <2>2. h[m] \in V /\ h[m + 1] = F[m][h[m]]
    BY <2>1, <1>6 DEF Repeats
  <2>3. h[m + 1] = Turn(m + 1, h[m])
    BY <2>1, <2>2 DEF F
  <2> QED
    BY <2>1, <2>3 DEF m
<1> DEFINE Done(f) == [k \in 0..L |-> IF k = 0 THEN t ELSE Test!NextByte(f[k - 1], drops[k])]
           c == [n \in 0..L |-> h[n]]
<1>8. c = Done(c)
  <2>1. h[0] = t
    BY <1>6 DEF Repeats
  <2>2. \A n \in 0..L : c[n] = Done(c)[n]
    <3> SUFFICES ASSUME NEW n \in 0..L PROVE c[n] = Done(c)[n]
      OBVIOUS
    <3>1. CASE n = 0
      BY <3>1, <2>1
    <3>2. CASE n # 0
      <4>1. n \in 1..L /\ n - 1 \in 0..L
        BY <3>2, <1>1
      <4>2. c[n] = h[n] /\ c[n - 1] = h[n - 1]
        BY <4>1
      <4> QED
        BY <3>2, <4>1, <4>2, <1>7
    <3> QED
      BY <3>1, <3>2
  <2> DEFINE dc == Done(c)
  <2>3. c = [n \in 0..L |-> c[n]] /\ dc = [n \in 0..L |-> dc[n]]
    OBVIOUS
  <2>4. \A n \in 0..L : c[n] = dc[n]
    BY <2>2
  <2> HIDE DEF c, Done, dc
  <2>5. c = dc
    BY <2>3, <2>4
  <2> QED
    BY <2>5 DEF dc
<1> DEFINE after == CHOOSE f : f = Done(f)
<1>9. after = Done(after)
  <2> HIDE DEF c, Done
  <2> QED
    BY <1>8
<1>10. Test!Heard(t, drops) = after[L]
  BY DEF Test!Heard
<1> HIDE DEF c, after, Turn
<1>11. \A n \in 0..L : after[n] \in V
  <2> DEFINE E == {n \in Nat : n \in 0..L => after[n] \in V}
  <2>1. 0 \in E
    BY <1>1, <1>3, <1>9
  <2>2. ASSUME NEW n \in Nat, n \in E PROVE n + 1 \in E
    <3> SUFFICES ASSUME n + 1 \in 0..L PROVE after[n + 1] \in V
      OBVIOUS
    <3> DEFINE m == n + 1
    <3>1. after[n] \in V /\ m \in 1..L /\ m - 1 = n /\ m # 0 /\ m \in 0..L
      BY <1>1, <2>2
    <3> HIDE DEF m
    <3>2. after[m] = Turn(m, after[m - 1])
      BY <3>1, <1>9 DEF Turn
    <3>3. after[m] \in V
      BY <3>1, <3>2, <1>4
    <3> QED
      BY <3>3 DEF m
  <2> HIDE DEF E, Done
  <2>3. \A n \in Nat : n \in E
    BY <2>1, <2>2, Induction
  <2> QED
    BY <1>1, <2>3 DEF E
<1> QED
  BY <1>1, <1>10, <1>11 DEF V, Seen

(* The inductive invariant of rtl_test.                                    *)
TestInv ==
    /\ source \in 0..(Counter - 1) /\ bcnt \in 0..(Counter - 1) /\ uninit \in BOOLEAN
    /\ dropped_samples \in Nat /\ lost \in Nat /\ visible \in BOOLEAN
    /\ ~uninit => bcnt = source
    /\ uninit => lost = 0 /\ dropped_samples = 0 /\ ~visible
    /\ lost = 0 => dropped_samples = 0
    /\ visible => dropped_samples > 0

(* The record underrun_test works on, part by part.                        *)
LEMMA SeenIs ==
    ASSUME NEW a, NEW b, NEW u, NEW d, NEW l, NEW v
    PROVE  LET t == [source |-> a, bcnt |-> b, uninit |-> u, dropped |-> d, lost |-> l, visible |-> v]
           IN  /\ t \in Tests <=> /\ a \in 0..(Counter - 1) /\ b \in 0..(Counter - 1)
                                  /\ u \in BOOLEAN /\ d \in Nat /\ l \in Nat /\ v \in BOOLEAN
               /\ t.source = a /\ t.bcnt = b /\ t.uninit = u /\ t.dropped = d /\ t.lost = l
               /\ t.visible = v
BY Zenon DEF Tests

(* A buffer keeps the invariant.                                           *)
LEMMA ReadKeeps ==
    ASSUME TestInv, NEW drops \in Test!Buffers, Test!UnderrunTest(drops)
    PROVE  TestInv'
<1> DEFINE t == Test!Tested
           n == Test!Heard(t, drops)
<1>1. Seen(t)
  <2>1. t \in Tests
    BY SeenIs DEF TestInv, Test!Tested
  <2>2. t.source = source /\ t.bcnt = bcnt /\ t.uninit = uninit /\ t.dropped = dropped_samples
        /\ t.lost = lost /\ t.visible = visible
    BY SeenIs DEF Test!Tested
  <2> HIDE DEF t
  <2> QED
    BY <2>1, <2>2 DEF TestInv, Seen, Follows, Sees
<1> HIDE DEF t
<1>2. Seen(n)
  BY <1>1, HeardKept
<1>3. /\ source' = n.source /\ bcnt' = n.bcnt /\ uninit' = n.uninit
      /\ dropped_samples' = n.dropped /\ lost' = n.lost /\ visible' = n.visible
  BY DEF t, Test!UnderrunTest
<1> HIDE DEF n
<1>4. /\ n.source \in 0..(Counter - 1) /\ n.bcnt \in 0..(Counter - 1) /\ n.uninit \in BOOLEAN
      /\ n.dropped \in Nat /\ n.lost \in Nat /\ n.visible \in BOOLEAN
  BY <1>2, Zenon DEF Seen, Tests
<1> QED
  BY <1>2, <1>3, <1>4 DEF TestInv, Seen, Follows, Sees

(* rtl_test counts a loss when, and only when, bytes were lost, wherever   *)
(* in or between buffers; only a loss of a whole number of counter turns   *)
(* is unseen, for every length of the buffers, range of the counter and    *)
(* sequence of losses (rtl_test.c:125-151).                                *)
THEOREM LossesAreSeen == Spec => []LossIsSeen
<1> DEFINE Inv == tool = "rtl_test" => TestInv
<1>1. Init => Inv
  <2> SUFFICES ASSUME Test!Init PROVE TestInv
    BY DEF Init
  <2>1. 0 \in 0..(Counter - 1) /\ 0 \in Nat
    BY TestAssumption DEF TestAssumption
  <2>2. source \in 0..(Counter - 1) /\ bcnt = 0 /\ (uninit <=> TRUE) /\ dropped_samples = 0 /\ lost = 0
        /\ (visible <=> FALSE) /\ uninit \in BOOLEAN /\ visible \in BOOLEAN
    BY DEF Test!Init
  <2> QED
    BY <2>1, <2>2 DEF TestInv
<1>2. ASSUME Inv, [Next]_all PROVE Inv'
  <2>1. CASE TestStep
    <3> SUFFICES ASSUME TestInv, Test!Next PROVE TestInv'
      BY <1>2, <2>1 DEF TestStep
    <3>1. CASE Test!Read
      <4>1. PICK drops \in Test!Buffers : Test!UnderrunTest(drops)
        BY <3>1 DEF Test!Read
      <4> QED
        BY <4>1, ReadKeeps
    <3>2. CASE UNCHANGED testVars
      BY <3>2 DEF testVars, TestInv
    <3>3. Test!Next => Test!Read \/ UNCHANGED testVars
      BY DEF Test!Next, Test!Start, Test!EndAsync, Test!StreamFails, Test!EndSync, Test!Report,
             Test!Sighandler, Test!testVars, testVars
    <3> QED
      BY <3>1, <3>2, <3>3
  <2>2. CASE UNCHANGED << tool, testVars >>
    BY <1>2, <2>2 DEF testVars, TestInv
  <2>3. [Next]_all => TestStep \/ UNCHANGED << tool, testVars >> \/ (tool # "rtl_test" /\ tool' = tool)
    BY DEF Next, SdrStep, SdrRest, EepromStep, TestStep, PpmStep, AdsbStep, AdsbRest,
           PowerStep, PowerRest, FmStep, all
  <2> QED
    BY <1>2, <2>1, <2>2, <2>3
<1>3. Inv => LossIsSeen
  BY DEF TestInv, LossIsSeen, Test!LossIsSeen
<1> QED
  BY <1>1, <1>2, <1>3, PTL DEF Spec

-----------------------------------------------------------------------------
(* rtl_fm.                                                                 *)

(* Dividing a sum is dividing one summand and going on with its remainder. *)
LEMMA DivSplit ==
    ASSUME NEW a \in Nat, NEW b \in Nat, NEW d \in Nat \ {0}
    PROVE  /\ (a + b) \div d = a \div d + ((a % d) + b) \div d
           /\ (a + b) % d = ((a % d) + b) % d
<1> DEFINE q == a \div d  r == a % d  t == r + b
<1>1. a = d * q + r /\ r \in 0..(d - 1) /\ q \in Nat
  BY DivModDef
<1>2. t \in Nat
  BY <1>1
<1>3. t = d * (t \div d) + (t % d) /\ t % d \in 0..(d - 1) /\ t \div d \in Nat
  BY <1>2, DivModDef
<1> DEFINE p == t \div d  s == t % d
<1>4. p \in Nat /\ s \in 0..(d - 1) /\ t = d * p + s
  BY <1>3
<1> HIDE DEF p, s
<1>5. a + b = d * q + t
  BY <1>1, <1>2
<1> HIDE DEF q, r, t
<1>6. d * (q + p) = d * q + d * p /\ q + p \in Nat
  BY <1>1, <1>4
<1>7. a + b = d * (q + p) + s
  BY <1>1, <1>2, <1>4, <1>5, <1>6
<1>8. (a + b) % d = s /\ (a + b) \div d = q + p
  BY <1>4, <1>6, <1>7, DivModUnique
<1> QED
  BY <1>8 DEF q, r, t, p, s

(* Dividing by two numbers in turn is dividing by their product, where     *)
(* nothing is left over.                                                   *)
LEMMA DivTwice ==
    ASSUME NEW d \in Nat \ {0}, NEW m \in Nat \ {0}, NEW k \in Nat
    PROVE  /\ ((d * m) * k) \div d = m * k
           /\ (m * k) \div m = k
           /\ ((d * m) * k) \div (d * m) = k
           /\ ((d * m) * k) % (d * m) = 0
           /\ d * m \in Nat \ {0}
<1>1. d * m \in Nat /\ d * m # 0
  OBVIOUS
<1>2. m * k \in Nat /\ (d * m) * k \in Nat /\ (d * m) * k = d * (m * k)
  OBVIOUS
<1>3. ((d * m) * k) \div d = m * k
  <2>1. (d * m) * k = d * (m * k) + 0
    BY <1>2
  <2> QED
    BY <1>2, <2>1, DivModUnique
<1>4. (m * k) \div m = k
  <2>1. m * k = m * k + 0
    BY <1>2
  <2> QED
    BY <1>2, <2>1, DivModUnique
<1>5. ((d * m) * k) \div (d * m) = k /\ ((d * m) * k) % (d * m) = 0
  <2> DEFINE n == d * m
  <2>1. n \in Nat \ {0}
    BY <1>1
  <2> HIDE DEF n
  <2>2. n * k \in Nat /\ n * k = n * k + 0
    BY <2>1
  <2>3. (n * k) \div n = k /\ (n * k) % n = 0
    BY <2>1, <2>2, DivModUnique
  <2> QED
    BY <2>3 DEF n
<1> QED
  BY <1>1, <1>3, <1>4, <1>5

(* The options of rtl_fm; the slowest rate is that at which -F passes need *)
(* no more than ten histories.                                             *)
FmOptions ==
    /\ rate_out \in Nat /\ rate_out >= 978 /\ rate_out2 \in Nat
    /\ post_downsample \in 1..16 /\ fir \in BOOLEAN

(* The rate of the dongle and the boxcar of optimal_settings.              *)
LEMMA Captured ==
    ASSUME FmOptions
    PROVE  /\ Fm!rate_in \in Nat \ {0} /\ Fm!rate_in >= 978
           /\ Fm!Boxcar \in 1..1023
<1> DEFINE r == Fm!rate_in  q == 1000000 \div r
<1>1. r \in Nat /\ r >= 978
  <2>1. r = rate_out * post_downsample
    BY DEF Fm!rate_in
  <2>2. rate_out \in Nat /\ rate_out >= 978 /\ post_downsample \in Nat /\ post_downsample >= 1
    BY DEF FmOptions
  <2>3. rate_out * post_downsample >= 978 * post_downsample
    BY <2>2
  <2> QED
    BY <2>1, <2>2, <2>3
<1>2. 1000000 = r * q + (1000000 % r) /\ 1000000 % r \in 0..(r - 1) /\ q \in Nat
  <2> DEFINE m == 1000000
  <2>1. m \in Nat /\ r \in Nat \ {0}
    BY <1>1, SMT
  <2> HIDE DEF r, m
  <2>2. m = r * (m \div r) + (m % r) /\ m % r \in 0..(r - 1) /\ m \div r \in Nat
    BY <2>1, DivModDef
  <2> QED
    BY <2>2 DEF m
<1> HIDE DEF q, r
<1>3. q <= 1022
  <2>1. q >= 1023 => r * q >= 978 * 1023
    BY <1>1, <1>2, SMT
  <2> QED
    BY <1>1, <1>2, <2>1, SMT
<1>4. Fm!Boxcar = q + 1
  BY DEF q, r, Fm!Boxcar
<1> QED
  BY <1>1, <1>2, <1>3, <1>4, SMT DEF r

(* p is the integer part of log2(b).                                       *)
Halvings(p, b) == 2^p <= b /\ b < 2^(p + 1)

(* Every boxcar has one.                                                   *)
LEMMA HalvingsFound ==
    ASSUME NEW b \in 1..1023
    PROVE  \E p \in 0..9 : Halvings(p, b)
<1>1. CASE b < 32
  <2>1. /\ b < 2 => Halvings(0, b)
        /\ b >= 2 /\ b < 4 => Halvings(1, b)
        /\ b >= 4 /\ b < 8 => Halvings(2, b)
        /\ b >= 8 /\ b < 16 => Halvings(3, b)
        /\ b >= 16 => Halvings(4, b)
    BY <1>1, SMT DEF Halvings
  <2>2. b < 2 \/ (b >= 2 /\ b < 4) \/ (b >= 4 /\ b < 8) \/ (b >= 8 /\ b < 16) \/ b >= 16
    BY SMT
  <2> QED
    BY <2>1, <2>2, SMT
<1>2. CASE b >= 32
  <2>1. /\ b < 64 => Halvings(5, b)
        /\ b >= 64 /\ b < 128 => Halvings(6, b)
        /\ b >= 128 /\ b < 256 => Halvings(7, b)
        /\ b >= 256 /\ b < 512 => Halvings(8, b)
        /\ b >= 512 => Halvings(9, b)
    BY <1>2, SMT DEF Halvings
  <2>2. b < 64 \/ (b >= 64 /\ b < 128) \/ (b >= 128 /\ b < 256) \/ (b >= 256 /\ b < 512) \/ b >= 512
    BY SMT
  <2> QED
    BY <2>1, <2>2, SMT
<1> QED
  BY <1>1, <1>2, SMT

(* It has only one, which is at most 9.                                    *)
LEMMA HalvingsBound ==
    ASSUME NEW b \in 1..1023, NEW p \in 0..20, Halvings(p, b)
    PROVE  p \in 0..9
<1>1. p \in {0,1,2,3,4,5,6,7,8,9,10,11,12,13,14,15,16,17,18,19,20}
  BY SMT
<1>2. CASE p \in 0..9
  BY <1>2
<1>3. CASE p \in {10,11,12,13,14}
  <2>1. 2^10 <= b \/ 2^11 <= b \/ 2^12 <= b \/ 2^13 <= b \/ 2^14 <= b
    BY <1>3 DEF Halvings
  <2> QED
    BY <2>1, SMT
<1>4. CASE p \in {15,16,17,18,19,20}
  <2>1. 2^15 <= b \/ 2^16 <= b \/ 2^17 <= b \/ 2^18 <= b \/ 2^19 <= b \/ 2^20 <= b
    BY <1>4 DEF Halvings
  <2> QED
    BY <2>1, SMT
<1> QED
  BY <1>1, <1>2, <1>3, <1>4, SMT

(* -F needs at most ten passes.                                            *)
LEMMA Passes ==
    ASSUME FmOptions, fir
    PROVE  /\ Fm!downsample_passes \in 1..10
           /\ Fm!downsample = 2^(Fm!downsample_passes)
<1> DEFINE b == Fm!Boxcar
           p == CHOOSE x \in 0..20 : 2^x <= b /\ b < 2^(x + 1)
<1>1. b \in 1..1023
  BY Captured
<1>2. Fm!downsample_passes = 1 + p
  BY DEF Fm!downsample_passes
<1> HIDE DEF b
<1>3. p \in 0..20 /\ Halvings(p, b)
  <2>1. PICK x \in 0..9 : Halvings(x, b)
    BY <1>1, HalvingsFound
  <2>2. x \in 0..20 /\ 2^x <= b /\ b < 2^(x + 1)
    BY <2>1 DEF Halvings
  <2> QED
    BY <2>2, Zenon DEF Halvings
<1> HIDE DEF p
<1>4. p \in 0..9
  BY <1>1, <1>3, HalvingsBound
<1>5. Fm!downsample = 2^(Fm!downsample_passes)
  BY DEF Fm!downsample
<1> QED
  BY <1>1, <1>2, <1>4, <1>5, SMT

(* How much ten passes or fewer cut down.                                  *)
Powers == {2, 4, 8, 16, 32, 64, 128, 256, 512, 1024}

(* The powers of two are these.                                            *)
LEMMA PowersOfTwo ==
    ASSUME NEW p \in 1..10
    PROVE  2^p \in Powers
<1>1. p \in {1, 2, 3, 4, 5, 6, 7, 8, 9, 10}
  BY SMT
<1> DEFINE q == 2^p
<1> HIDE DEF q
<1>101. p = 1 => q = 2
  BY SMT DEF q
<1>102. p = 2 => q = 4
  BY SMT DEF q
<1>103. p = 3 => q = 8
  BY SMT DEF q
<1>104. p = 4 => q = 16
  BY SMT DEF q
<1>105. p = 5 => q = 32
  BY SMT DEF q
<1>106. p = 6 => q = 64
  BY SMT DEF q
<1>107. p = 7 => q = 128
  BY SMT DEF q
<1>108. p = 8 => q = 256
  BY SMT DEF q
<1>109. p = 9 => q = 512
  BY SMT DEF q
<1>110. p = 10 => q = 1024
  BY SMT DEF q
<1>2. q \in Powers
  BY <1>1, <1>101, <1>102, <1>103, <1>104, <1>105, <1>106, <1>107, <1>108, <1>109, <1>110, SMT DEF Powers
<1> QED
  BY <1>2 DEF q

(* With a power of two of the oversampling they divide a block.            *)
LEMMA WholePasses ==
    ASSUME NEW q \in Powers, NEW w \in {1, 2, 4, 8, 16}
    PROVE  \E k \in Nat : Fm!BlockSamples = (q * w) * k
<1>1. PICK a \in {1, 2, 4, 8, 16, 32, 64, 128, 256, 512} : 1024 = q * a
  <2>1. CASE q \in {2, 4, 8, 16, 32}
    BY <2>1, SMT
  <2>2. CASE q \in {64, 128, 256, 512, 1024}
    BY <2>2, SMT
  <2> QED
    BY <2>1, <2>2 DEF Powers
<1>2. PICK b \in {8, 16, 32, 64, 128} : 128 = w * b
  BY SMT
<1>3. q \in Nat /\ w \in Nat /\ a \in Nat /\ b \in Nat
  BY <1>1, <1>2, SMT DEF Powers
<1>4. (q * w) * (a * b) = (q * a) * (w * b) /\ a * b \in Nat
  BY <1>3
<1>5. (q * a) * (w * b) = 1024 * 128
  BY <1>1, <1>2
<1>6. Fm!BlockSamples = 1024 * 128
  BY SMT DEF Fm!BlockSamples
<1> QED
  BY <1>4, <1>5, <1>6

(* A block has samples.                                                    *)
LEMMA BlockLength == Fm!BlockSamples \in Nat
BY SMT DEF Fm!BlockSamples

(* The first filter cuts the rate down by a positive factor, and with -F   *)
(* by a power of two.                                                      *)
LEMMA DownsampleNat ==
    ASSUME FmOptions
    PROVE  /\ Fm!downsample \in Nat \ {0}
           /\ fir => Fm!downsample \in Powers
<1>1. CASE fir
  <2>1. Fm!downsample_passes \in 1..10 /\ Fm!downsample = 2^(Fm!downsample_passes)
    BY <1>1, Passes
  <2>2. Fm!downsample \in Powers
    BY <2>1, PowersOfTwo
  <2> QED
    BY <2>2, SMT DEF Powers
<1>2. CASE ~fir
  <2>1. Fm!downsample = Fm!Boxcar
    BY <1>2 DEF Fm!downsample
  <2> QED
    BY <1>2, <2>1, Captured
<1> QED
  BY <1>1, <1>2

(* The inductive invariant of rtl_fm: the indices the filters carry over   *)
(* are the remainders of what they were given.                             *)
FmInv ==
    /\ FmOptions
    /\ {blocks, audio, produced, prev_index, prev_lpr_index} \subseteq Nat
    /\ Fm!received % Fm!downsample = IF fir THEN 0 ELSE prev_index
    /\ Fm!Lost >= 0 /\ Fm!Lost <= blocks * (post_downsample - 1)
    /\ Fm!WholeSteps => Fm!Lost = 0
    /\ IF rate_out2 > 0
       THEN produced = (audio * rate_out2) \div rate_out /\ prev_lpr_index = (audio * rate_out2) % rate_out
       ELSE produced = audio

(* What a block brings through the first filter, and past the second.      *)
Passed == Fm!Lowpassed(Fm!BlockSamples)
Demodulated == Fm!Simple(Passed)

(* The first filter makes of the blocks what it would make of them as one. *)
LEMMA PassedOn ==
    ASSUME FmInv
    PROVE  /\ Passed \in Nat
           /\ (Fm!received + Fm!BlockSamples) \div Fm!downsample = Fm!received \div Fm!downsample + Passed
           /\ (Fm!received + Fm!BlockSamples) % Fm!downsample
                = IF fir THEN 0 ELSE (prev_index + Fm!BlockSamples) % Fm!downsample
           /\ Fm!received \in Nat /\ Fm!received \div Fm!downsample \in Nat
<1> DEFINE d == Fm!downsample  n == Fm!BlockSamples  r == Fm!received
           before == IF fir THEN 0 ELSE prev_index
<1>1. d \in Nat \ {0} /\ n \in Nat /\ before \in Nat /\ fir \in BOOLEAN
  BY DownsampleNat, BlockLength DEF FmInv, FmOptions
<1>2. r \in Nat
  <2>1. n \in Nat /\ blocks \in Nat
    BY BlockLength DEF FmInv
  <2> HIDE DEF n
  <2>2. blocks * n \in Nat
    BY <2>1
  <2> QED
    BY <2>2 DEF n, Fm!received
<1>3. r % d = before
  BY DEF FmInv
<1>4. Passed = (before + n) \div d
  <2>1. 0 + n = n
    BY <1>1
  <2> QED
    BY <2>1 DEF Passed, Fm!Lowpassed
<1>5. fir => n % d = 0
  <2> SUFFICES ASSUME fir PROVE n % d = 0
    OBVIOUS
  <2>1. PICK k \in Nat : n = (d * 1) * k
    BY DownsampleNat, WholePasses DEF FmInv
  <2>2. d * 1 = d
    BY <1>1
  <2> HIDE DEF d, n
  <2>3. n = d * k + 0 /\ d * k \in Nat
    BY <1>1, <2>1, <2>2
  <2> QED
    BY <1>1, <2>3, DivModUnique
<1> HIDE DEF d, n, r, before
<1>6. before + n \in Nat
  BY <1>1
<1>7. (before + n) \div d \in Nat /\ r \div d \in Nat
  BY <1>1, <1>2, <1>6, DivModDef
<1>8. /\ (r + n) \div d = r \div d + ((r % d) + n) \div d
      /\ (r + n) % d = ((r % d) + n) % d
  BY <1>1, <1>2, DivSplit
<1>9. (before + n) % d = IF fir THEN 0 ELSE (prev_index + n) % d
  <2>1. CASE fir
    <3>1. before = 0 /\ 0 + n = n
      BY <1>1, <2>1 DEF before
    <3> QED
      BY <1>5, <2>1, <3>1
  <2>2. CASE ~fir
    BY <2>2 DEF before
  <2> QED
    BY <1>1, <2>1, <2>2
<1> QED
  BY <1>2, <1>3, <1>4, <1>7, <1>8, <1>9 DEF d, n, r

(* A block loses less than a step, and none where its steps are whole.     *)
LEMMA StepLost ==
    ASSUME FmInv
    PROVE  /\ Demodulated \in Nat
           /\ Passed = post_downsample * Demodulated + (Passed % post_downsample)
           /\ Passed % post_downsample \in 0..(post_downsample - 1)
           /\ Fm!WholeSteps => Passed % post_downsample = 0
<1> DEFINE m == post_downsample
<1>1. m \in Nat \ {0} /\ Passed \in Nat
  BY PassedOn DEF FmInv, FmOptions
<1>2. Demodulated = Passed \div m
  BY DEF Demodulated, Fm!Simple
<1>3. ASSUME m = 1 PROVE Passed % m = 0
  <2>1. \A x \in Nat : x % 1 = 0
    OBVIOUS
  <2> QED
    BY <1>1, <1>3, <2>1
<1>4. ASSUME fir, m \in {2, 4, 8, 16} PROVE Passed % m = 0
  <2> DEFINE d == Fm!downsample
  <2>1. d \in Nat \ {0} /\ d \in Powers
    BY <1>4, DownsampleNat DEF FmInv
  <2>2. m \in {1, 2, 4, 8, 16}
    BY <1>4
  <2> HIDE DEF d
  <2>3. PICK k \in Nat : Fm!BlockSamples = (d * m) * k
    BY <2>1, <2>2, WholePasses
  <2>4. Passed = Fm!BlockSamples \div d
    BY <1>4 DEF Passed, Fm!Lowpassed, d
  <2>5. Passed = m * k
    BY <1>1, <2>1, <2>3, <2>4, DivTwice
  <2> HIDE DEF m
  <2>6. Passed = m * k + 0
    BY <1>1, <2>5
  <2>7. Passed % m = 0
    BY <1>1, <2>6, DivModUnique
  <2> QED
    BY <2>7 DEF m
<1>5. Fm!WholeSteps => Passed % m = 0
  BY <1>3, <1>4 DEF Fm!WholeSteps
<1> HIDE DEF m
<1>6. Passed = m * (Passed \div m) + (Passed % m) /\ Passed % m \in 0..(m - 1) /\ Passed \div m \in Nat
  BY <1>1, DivModDef
<1> QED
  BY <1>2, <1>5, <1>6 DEF m

(* What a block changes.                                                   *)
LEMMA BlockIs ==
    ASSUME Fm!Block
    PROVE  /\ blocks' = blocks + 1 /\ audio' = audio + Demodulated
           /\ prev_index' = IF fir THEN prev_index ELSE (prev_index + Fm!BlockSamples) % Fm!downsample
           /\ IF rate_out2 > 0
              THEN /\ produced' = produced + (prev_lpr_index + Demodulated * rate_out2) \div rate_out
                   /\ prev_lpr_index' = (prev_lpr_index + Demodulated * rate_out2) % rate_out
              ELSE produced' = produced + Demodulated /\ prev_lpr_index' = prev_lpr_index
           /\ rate_out' = rate_out /\ rate_out2' = rate_out2
           /\ post_downsample' = post_downsample /\ fir' = fir
BY DEF Fm!Block, Fm!CarriedOver, Demodulated, Passed, Fm!settings

(* The samples lost so far, and those of one more block.                   *)
LEMMA LostGrows ==
    ASSUME FmInv, Fm!Block
    PROVE  /\ Fm!received' = Fm!received + Fm!BlockSamples
           /\ Fm!downsample' = Fm!downsample
           /\ Fm!Lost' = Fm!Lost + (Passed % post_downsample)
<1> DEFINE m == post_downsample  n == Fm!BlockSamples  d == Fm!downsample
           r == Fm!received  x == Passed  e == x % m  a == Demodulated
<1>1. m' = m /\ d' = d /\ n' = n
  BY BlockIs DEF Fm!downsample, Fm!downsample_passes, Fm!Boxcar, Fm!rate_in, Fm!BlockSamples
<1>2. Fm!received' = r + n
  <2>1. n \in Nat /\ blocks \in Nat /\ blocks' = blocks + 1 /\ n' = n
    BY <1>1, BlockLength, BlockIs DEF FmInv
  <2> HIDE DEF n
  <2>2. (blocks + 1) * n = blocks * n + n
    BY <2>1
  <2>3. Fm!received' = (blocks + 1) * n
    BY <2>1 DEF n, Fm!received
  <2> QED
    BY <2>2, <2>3 DEF n, Fm!received
<1>3. /\ (r + n) \div d = r \div d + x /\ x \in Nat /\ r \div d \in Nat
      /\ a \in Nat /\ x = m * a + e /\ e \in 0..(m - 1) /\ m \in Nat \ {0} /\ audio \in Nat
  BY PassedOn, StepLost DEF FmInv, FmOptions
<1>4. Fm!Lost = r \div d - m * audio
  BY DEF Fm!Lost
<1>5. Fm!Lost' = (r + n) \div d - m * (audio + a)
  BY <1>1, <1>2, BlockIs DEF Fm!Lost
<1> DEFINE q == r \div d  p == (r + n) \div d
<1>6. /\ p = q + x /\ x \in Nat /\ q \in Nat
      /\ Fm!Lost = q - m * audio /\ Fm!Lost' = p - m * (audio + a)
  BY <1>3, <1>4, <1>5
<1> HIDE DEF q, p, r, d, n, x, e, a, m
<1>7. m * (audio + a) = m * audio + m * a /\ m * a \in Nat /\ m * audio \in Nat /\ e \in Nat
  BY <1>3
<1>8. Fm!Lost' = Fm!Lost + e
  BY <1>3, <1>6, <1>7
<1> QED
  BY <1>1, <1>2, <1>8 DEF d, n, r, e, x, m

(* The last filter makes of the blocks what it would make of them as one.  *)
LEMMA ResampledOn ==
    ASSUME FmInv, Fm!Block
    PROVE  /\ produced' \in Nat /\ prev_lpr_index' \in Nat
           /\ IF rate_out2' > 0
              THEN /\ produced' = (audio' * rate_out2') \div rate_out'
                   /\ prev_lpr_index' = (audio' * rate_out2') % rate_out'
              ELSE produced' = audio'
<1> DEFINE a == Demodulated
<1>1. a \in Nat /\ audio \in Nat /\ produced \in Nat /\ prev_lpr_index \in Nat
      /\ rate_out \in Nat \ {0} /\ rate_out2 \in Nat
  BY StepLost DEF FmInv, FmOptions
<1>2. audio' = audio + a /\ rate_out' = rate_out /\ rate_out2' = rate_out2
  BY BlockIs
<1>3. IF rate_out2 > 0
      THEN /\ produced' = produced + (prev_lpr_index + a * rate_out2) \div rate_out
           /\ prev_lpr_index' = (prev_lpr_index + a * rate_out2) % rate_out
      ELSE produced' = produced + a /\ prev_lpr_index' = prev_lpr_index
  BY BlockIs
<1>4. IF rate_out2 > 0
      THEN produced = (audio * rate_out2) \div rate_out /\ prev_lpr_index = (audio * rate_out2) % rate_out
      ELSE produced = audio
  BY DEF FmInv
<1> HIDE DEF a
<1>5. CASE rate_out2 > 0
  <2> DEFINE u == audio * rate_out2  v == a * rate_out2
  <2>1. u \in Nat /\ v \in Nat
    BY <1>1
  <2>2. audio' * rate_out2' = u + v
    BY <1>1, <1>2
  <2>3. /\ produced = u \div rate_out /\ prev_lpr_index = u % rate_out
        /\ produced' = produced + (prev_lpr_index + v) \div rate_out
        /\ prev_lpr_index' = (prev_lpr_index + v) % rate_out
    BY <1>3, <1>4, <1>5
  <2> HIDE DEF u, v
  <2>4. /\ (u + v) \div rate_out = u \div rate_out + ((u % rate_out) + v) \div rate_out
        /\ (u + v) % rate_out = ((u % rate_out) + v) % rate_out
    BY <1>1, <2>1, DivSplit
  <2>5. u + v \in Nat
    BY <2>1
  <2>6. (u + v) \div rate_out \in Nat /\ (u + v) % rate_out \in Nat
    BY <1>1, <2>5, DivModDef
  <2>7. produced' = (u + v) \div rate_out /\ prev_lpr_index' = (u + v) % rate_out
    BY <2>3, <2>4
  <2> QED
    BY <1>2, <1>5, <2>2, <2>6, <2>7
<1>6. CASE ~(rate_out2 > 0)
  BY <1>1, <1>2, <1>3, <1>4, <1>6
<1> QED
  BY <1>5, <1>6

(* A block keeps the invariant.                                            *)
LEMMA BlockKeeps ==
    ASSUME FmInv, Fm!Block
    PROVE  FmInv'
<1> DEFINE m == post_downsample  e == Passed % m
<1>1. /\ blocks' = blocks + 1 /\ audio' = audio + Demodulated
      /\ rate_out' = rate_out /\ rate_out2' = rate_out2 /\ m' = m /\ fir' = fir
  BY BlockIs
<1>2. FmOptions' /\ (Fm!WholeSteps' <=> Fm!WholeSteps)
  BY <1>1 DEF FmInv, FmOptions, Fm!WholeSteps
<1>3. blocks' \in Nat /\ audio' \in Nat
  BY <1>1, StepLost DEF FmInv
<1>4. prev_index' \in Nat /\ Fm!received' % Fm!downsample' = IF fir' THEN 0 ELSE prev_index'
  <2>1. Fm!received' % Fm!downsample' = IF fir THEN 0 ELSE (prev_index + Fm!BlockSamples) % Fm!downsample
    BY LostGrows, PassedOn
  <2>2. prev_index' = IF fir THEN prev_index ELSE (prev_index + Fm!BlockSamples) % Fm!downsample
    BY BlockIs
  <2>3. prev_index + Fm!BlockSamples \in Nat /\ prev_index \in Nat /\ Fm!downsample \in Nat \ {0}
    BY BlockLength, DownsampleNat DEF FmInv
  <2>4. (prev_index + Fm!BlockSamples) % Fm!downsample \in Nat
    BY <2>3, DivModDef
  <2> QED
    BY <1>1, <2>1, <2>2, <2>3, <2>4
<1>5. /\ Fm!Lost' >= 0 /\ Fm!Lost' <= blocks' * (m' - 1)
      /\ Fm!WholeSteps' => Fm!Lost' = 0
  <2> DEFINE l == Fm!Lost
  <2>1. Fm!Lost' = l + e /\ e \in 0..(m - 1) /\ m \in Nat \ {0} /\ blocks \in Nat
    BY LostGrows, StepLost DEF FmInv, FmOptions
  <2>2. l >= 0 /\ l <= blocks * (m - 1) /\ l \in Int /\ (Fm!WholeSteps => l = 0 /\ e = 0)
    <3>1. Fm!received \div Fm!downsample \in Nat /\ audio \in Nat
      BY PassedOn DEF FmInv
    <3> DEFINE q == Fm!received \div Fm!downsample
    <3>2. l = q - m * audio /\ q \in Nat
      BY <3>1 DEF Fm!Lost
    <3> HIDE DEF q, l
    <3>3. l \in Int
      BY <2>1, <3>1, <3>2
    <3> QED
      BY <3>3, StepLost DEF FmInv, l
  <2> HIDE DEF l, e, m
  <2>3. (blocks + 1) * (m - 1) = blocks * (m - 1) + (m - 1) /\ blocks * (m - 1) \in Nat
    BY <2>1
  <2>4. l + e >= 0 /\ l + e <= (blocks + 1) * (m - 1)
    BY <2>1, <2>2, <2>3
  <2> QED
    BY <1>1, <1>2, <2>1, <2>2, <2>4
<1> QED
  BY <1>1, <1>2, <1>3, <1>4, <1>5, ResampledOn DEF FmInv

(* It holds at the start.                                                  *)
LEMMA FmStarts ==
    ASSUME Fm!Init, \A r \in FmRates : r >= 978
    PROVE  FmInv
<1>1. FmOptions
  BY FmAssumption DEF FmAssumption, Fm!Init, FmOptions
<1> DEFINE d == Fm!downsample
<1>2. d \in Nat \ {0} /\ post_downsample \in Nat \ {0} /\ rate_out \in Nat \ {0}
      /\ rate_out2 \in Nat /\ Fm!BlockSamples \in Nat
  BY <1>1, DownsampleNat, BlockLength DEF FmOptions
<1>3. prev_index = 0 /\ prev_lpr_index = 0 /\ blocks = 0 /\ audio = 0 /\ produced = 0
  BY DEF Fm!Init
<1>4. \A n \in Nat \ {0} : 0 % n = 0 /\ 0 \div n = 0
  OBVIOUS
<1>5. \A n \in Int : 0 * n = 0
  OBVIOUS
<1>6. Fm!received = 0
  BY <1>2, <1>3, <1>5 DEF Fm!received
<1> HIDE DEF d
<1>7. 0 % d = 0 /\ 0 \div d = 0 /\ post_downsample * 0 = 0 /\ 0 * (post_downsample - 1) = 0
      /\ (0 * rate_out2) \div rate_out = 0 /\ (0 * rate_out2) % rate_out = 0
  <2>1. 0 * rate_out2 = 0
    BY <1>2, <1>5
  <2> QED
    BY <1>2, <1>4, <2>1
<1>8. Fm!Lost = 0
  BY <1>3, <1>6, <1>7 DEF Fm!Lost, d
<1> QED
  BY <1>1, <1>3, <1>6, <1>7, <1>8 DEF FmInv, d

(* Over any number of blocks rtl_fm makes no audio up where two blocks     *)
(* meet, and loses less than a step of the oversampling in each, and none  *)
(* without oversampling or with -F and a power of two, for every set of    *)
(* rates of at least 978 Hz (rtl_fm.c:305-363, 733-781).                   *)
THEOREM AudioIsInTime ==
    ASSUME \A r \in FmRates : r >= 978
    PROVE  Spec => []AudioInTime
<1> DEFINE Inv == tool = "rtl_fm" => FmInv
<1>1. Init => Inv
  BY FmStarts DEF Init
<1>2. ASSUME Inv, [Next]_all PROVE Inv'
  <2>1. CASE FmStep
    BY <1>2, <2>1, BlockKeeps DEF FmStep, Fm!Next
  <2>2. CASE UNCHANGED << tool, fmVars >>
    BY <1>2, <2>2 DEF fmVars, FmInv, FmOptions, Fm!received, Fm!Lost, Fm!WholeSteps,
                      Fm!BlockSamples, Fm!downsample, Fm!downsample_passes, Fm!Boxcar, Fm!rate_in
  <2>3. [Next]_all => FmStep \/ UNCHANGED << tool, fmVars >>
    BY DEF Next, SdrStep, SdrRest, EepromStep, TestStep, PpmStep, AdsbStep, AdsbRest,
           PowerStep, PowerRest, FmStep, all
  <2> QED
    BY <1>2, <2>1, <2>2, <2>3
<1>3. Inv => AudioInTime
  <2> SUFFICES ASSUME FmInv PROVE Fm!AudioInTime
    BY DEF AudioInTime
  <2>1. FmOptions
    BY DEF FmInv
  <2>2. Fm!downsample_passes <= 10
    <3>1. CASE fir
      BY <2>1, <3>1, Passes
    <3>2. CASE ~fir
      BY <3>2 DEF Fm!downsample_passes
    <3> QED
      BY <3>1, <3>2
  <2> QED
    BY <2>2 DEF FmInv, Fm!AudioInTime
<1> QED
  BY <1>1, <1>2, <1>3, PTL DEF Spec
=============================================================================
