----------------------------- MODULE RtlEeprom -----------------------------
(***************************************************************************)
(* rtl_eeprom (src/src/rtl_eeprom.c) and the library's EEPROM calls        *)
(* (src/src/librtlsdr.c:824-885): one run of the tool reads the device's   *)
(* EEPROM, derives a new image from the options, asks, and writes it byte  *)
(* by byte, skipping the bytes that already hold their value.              *)
(*                                                                         *)
(* The image is cut down to Size bytes.  Byte 0 stands for byte 7, whose   *)
(* bit 1 (here 0 or 1) is conf.enable_bt, 0 forcing the bias tee on; byte 1*)
(* stands for the ids and strings; the first Low bytes are what a          *)
(* configuration covers (128 of 256), and -w writes all of them.           *)
(***************************************************************************)
EXTENDS Integers

CONSTANTS
  Size, Low,    \* bytes of the EEPROM, and of a configuration
  Bytes,        \* byte values
  BiasOptions,  \* of "none", "on" (-b 1), "off" (-b 0)
  Faults        \* of "read" (reading the image fails), "fetch" (reading a byte
                \* back before it is written does), "write" (storing one does)

VARIABLES
  rom,      \* the device's EEPROM
  rom0,     \* what it held when the tool started
  opts,     \* the command line: [bias, config, str, flash]
  buf,      \* the image in memory
  pc, i,    \* where the tool is, and the byte being written
  cell,     \* cmd[1]: what was last read or written
  rc        \* the result of rtlsdr_write_eeprom

vars == << rom, rom0, opts, buf, pc, i, cell, rc >>

Addresses == 0..(Size - 1)
Images == [Addresses -> Bytes]

\* gen_default_conf: two of the five default configurations clear the bit.
Configs == {"realtek", "realtek_oem", "noxon", "terratec_black", "terratec_plus"}
DefaultBt(config) == IF config \in {"realtek", "noxon"} THEN 0 ELSE 1

Options ==
  [bias : BiasOptions, config : Configs \cup {"none"}, str : Bytes \cup {-1},
   flash : BOOLEAN]

\* "change" of main: without it the tool only shows what is there.
Change(o) == o.bias # "none" \/ o.config # "none" \/ o.str # -1 \/ o.flash

Init == /\ rom \in Images /\ rom0 = rom
        /\ opts \in Options
        /\ buf = [a \in Addresses |-> 0]
        /\ pc = "read" /\ i = 0 /\ rc = 0
        /\ cell \in Bytes           \* cmd is not initialised

\* rtlsdr_read_eeprom; without an answer the tool gives up.
ReadRom == /\ pc = "read"
           /\ \/ buf' = rom /\ pc' = "prepare"
              \/ "read" \in Faults /\ pc' = "exit" /\ UNCHANGED buf
           /\ UNCHANGED << rom, rom0, opts, i, cell, rc >>

\* -b is applied to the configuration first, -g then replaces all of it.
NewBt(o, old) ==
  IF o.config # "none" THEN DefaultBt(o.config)
  ELSE IF o.bias = "none" THEN old ELSE IF o.bias = "on" THEN 0 ELSE 1

\* The string bytes: a default's own (0 here), else the given or the old one.
NewStr(o, old) ==
  IF o.config # "none" THEN 0 ELSE IF o.str # -1 THEN o.str ELSE old

\* gen_eeprom_from_conf over the configuration parsed from buf.
Generated(o) == [buf EXCEPT ![0] = NewBt(o, buf[0] % 2), ![1] = NewStr(o, buf[1])]

\* The new image.  A file shorter than the EEPROM is reported and used all
\* the same; a file that cannot be opened, or a string that does not fit,
\* ends the run.
Prepare ==
  /\ pc = "prepare"
  /\ \/ ~Change(opts) /\ pc' = "exit" /\ UNCHANGED buf
     \/ /\ Change(opts) /\ opts.flash /\ pc' = "ask"
        /\ \E file \in Images, n \in 0..Size :
             buf' = [a \in Addresses |-> IF a < n THEN file[a] ELSE buf[a]]
     \/ Change(opts) /\ ~opts.flash /\ pc' = "ask" /\ buf' = Generated(opts)
     \/ Change(opts) /\ (opts.flash \/ opts.config = "none")
          /\ pc' = "exit" /\ UNCHANGED buf
  /\ UNCHANGED << rom, rom0, opts, i, cell, rc >>

Ask == /\ pc = "ask"
       /\ pc' \in {"write", "exit"}
       /\ UNCHANGED << rom, rom0, opts, buf, i, cell, rc >>

WriteLen(o) == IF o.flash THEN Size ELSE Low

\* Mutant: the next address is written.
Target_Next(n) == IF n + 1 < Size THEN n + 1 ELSE n

\* cmd[0] = i + offset
Target(n) == n

\* One turn of the loop of rtlsdr_write_eeprom.  The results of setting the
\* address and of reading are ignored: after a failure cmd[1] is still the
\* byte of the turn before.
WriteByte ==
  /\ pc = "write" /\ i < WriteLen(opts)
  /\ \E got \in {rom[i]} \cup (IF "fetch" \in Faults THEN {cell} ELSE {}) :
       \/ /\ got = buf[i]
          /\ cell' = got /\ i' = i + 1 /\ UNCHANGED << rom, pc, rc >>
       \/ /\ got # buf[i]
          /\ cell' = buf[i] /\ i' = i + 1
          /\ rom' = [rom EXCEPT ![Target(i)] = buf[i]]
          /\ UNCHANGED << pc, rc >>
       \/ /\ got # buf[i] /\ "write" \in Faults
          /\ cell' = buf[i] /\ rc' = -3 /\ pc' = "exit"
          /\ UNCHANGED << rom, i >>
  /\ UNCHANGED << rom0, opts, buf >>

Written == /\ pc = "write" /\ i = WriteLen(opts)
           /\ pc' = "written"
           /\ UNCHANGED << rom, rom0, opts, buf, i, cell, rc >>

Next == ReadRom \/ Prepare \/ Ask \/ WriteByte \/ Written

Spec == Init /\ [][Next]_vars

----------------------------------------------------------------------------
\* Type correctness; every byte of the image is one a configuration or a file
\* can hold, and i stays inside the EEPROM (librtlsdr.c:835-857).
TypeOK ==
  /\ rom \in Images /\ rom0 \in Images /\ buf \in Images /\ opts \in Options
  /\ pc \in {"read", "prepare", "ask", "write", "written", "exit"}
  /\ i \in 0..Size /\ cell \in Bytes /\ rc \in {0, -3}

\* librtlsdr.c:835-857: at every moment, also after a write that stopped in
\* the middle, the bytes in front of i are those of the new image and all
\* others are as they were; and when the library returns 0 ("return 0 on
\* success", include/rtl-sdr.h:127) i is past the last byte to be written.
WrittenPrefix ==
  /\ \A a \in Addresses :
       rom[a] = IF pc \in {"write", "written", "exit"} /\ a < i THEN buf[a] ELSE rom0[a]
  /\ pc = "written" => i = WriteLen(opts)

\* rtl_eeprom.c:77 "-b <0,1> disable/enable force bias tee always on (0: OFF,
\* 1: ON)": the image the tool offers to write forces the bias tee as asked.
BiasAsRequested ==
  pc = "ask" /\ ~opts.flash /\ opts.bias # "none" =>
    buf[0] = IF opts.bias = "on" THEN 0 ELSE 1
=============================================================================
