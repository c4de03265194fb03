------------------------------ MODULE FmBlocks ------------------------------
(***************************************************************************)
(* How many samples go through the demodulator of rtl_fm                   *)
(* (src/src/rtl_fm.c, optimal_settings and full_demod), block by block.    *)
(* The values of the samples are left out.  Two filters carry an index     *)
(* from one block to the next, the others take each block for itself.      *)
(***************************************************************************)
EXTENDS Integers

CONSTANTS
    FmRates,      \* values of -s, before oversampling
    FmResample,   \* values of -r, 0 for none (-1 in the code)
    Oversample,   \* values of -o
    MaxBlocks     \* bound on the blocks delivered

VARIABLES
    rate_out, rate_out2, post_downsample, fir,   \* -s, -r, -o and -F
    prev_index, prev_lpr_index,
    blocks,       \* history: blocks from the dongle
    audio,        \* history: samples after the oversampling was undone
    produced      \* history: samples written

settings == << rate_out, rate_out2, post_downsample, fir >>
fmVars == << settings, prev_index, prev_lpr_index, blocks, audio, produced >>

\* Complex samples in a block: dongle.buf_len stays 0, which asks the library
\* for its default length.
BlockSamples == (16 * 32 * 512) \div 2

Init ==
    /\ rate_out \in FmRates /\ rate_out2 \in FmResample
    /\ rate_out2 <= rate_out
    /\ post_downsample \in Oversample /\ fir \in BOOLEAN
    /\ prev_index = 0 /\ prev_lpr_index = 0
    /\ blocks = 0 /\ audio = 0 /\ produced = 0

rate_in == rate_out * post_downsample

\* optimal_settings: at least 1 MHz is captured; -F halves the rate
\* downsample_passes times.
Boxcar == 1000000 \div rate_in + 1
downsample_passes ==
    IF fir THEN 1 + (CHOOSE p \in 0..20 : 2^p <= Boxcar /\ Boxcar < 2^(p + 1)) ELSE 0
downsample == IF fir THEN 2^downsample_passes ELSE Boxcar

\* Mutant: the sums that a block leaves unfinished are thrown away.
CarriedOver_Dropped(index) == 0

\* prev_index or prev_lpr_index as the next block finds it
CarriedOver(index) == index

\* Samples after the first filter: low_pass goes on where the last block
\* ended, fifth_order halves what it is given.
Lowpassed(n) == IF fir THEN n \div downsample ELSE (prev_index + n) \div downsample

\* Mutant: the sum that low_pass_simple begins at the end of a block counts.
Simple_RoundedUp(n) == (n + post_downsample - 1) \div post_downsample

\* low_pass_simple: a rest of the block that is no whole step is lost.
Simple(n) == n \div post_downsample

\* One block: rtlsdr_callback and full_demod.  low_pass_real gives a sample
\* each time its index has gone round.
Block ==
    LET demodulated == Simple(Lowpassed(BlockSamples))
        index == prev_lpr_index + demodulated * rate_out2
    IN  /\ blocks < MaxBlocks
        /\ blocks' = blocks + 1
        /\ audio' = audio + demodulated
        /\ prev_index' = IF fir THEN prev_index
                         ELSE CarriedOver((prev_index + BlockSamples) % downsample)
        /\ IF rate_out2 > 0
           THEN /\ produced' = produced + index \div rate_out
                /\ prev_lpr_index' = CarriedOver(index % rate_out)
           ELSE produced' = produced + demodulated /\ UNCHANGED prev_lpr_index
        /\ UNCHANGED settings

Next == Block

Spec == Init /\ [][Next]_fmVars

-----------------------------------------------------------------------------
\* What the first filter made of all blocks, without cutting between them,
\* and what of it did not become audio.
received == blocks * BlockSamples
Lost == received \div downsample - post_downsample * audio

\* Whole blocks of audio: no oversampling, or -F with a power of two.
WholeSteps == post_downsample = 1 \/ (fir /\ post_downsample \in {2, 4, 8, 16})

\* rtl_fm.c:305-363, 733-781: where two blocks meet the first and the last
\* filter lose no sample and make none up, and undoing the oversampling loses
\* less than a step of it, and with whole steps nothing.  The passes of -F
\* fit their histories.
AudioInTime ==
    /\ Lost >= 0 /\ Lost <= blocks * (post_downsample - 1)
    /\ WholeSteps => Lost = 0
    /\ produced = IF rate_out2 > 0 THEN (audio * rate_out2) \div rate_out ELSE audio
    /\ downsample_passes <= 10

\* rtl_fm.c:328 "no wrap around, length must be multiple of step".
MultipleOfStep == Lowpassed(BlockSamples) % post_downsample = 0
=============================================================================
