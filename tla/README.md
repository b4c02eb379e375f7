# TLA+ models of Interpolator, the media utilities and the SSE resampler kernels (frameworks/av subset)

This directory holds TLA+ models of the code under `src/`. TLC checks them.
Each model is translated from the C++ source. `PROJECT.json` ties every
definition to the source lines it models (`map`). It also lists the runs, the
mutants, the findings and the hazards.

## 1. Inventory

| Component | Source | State | Operations | Interacts with |
|---|---|---|---|---|
| **WindowedLinearInterpolator** | `media/libstagefright/Interpolator.cpp`, `include/media/stagefright/Interpolator.h` | ring buffers `mXHistory`/`mYHistory` (capacity `mHistoryLength = mainLength + headLength`); three `LinearFit` accumulators `mHead`, `mMain`, `mTail` (six weighted sums each); `mNumSamples` (saturates at `mHistoryLength`); `mSampleIx` (write index, walks *downwards*); `mEnabled`, `mStabilize`; the frozen offset kept in `mYHistory[0]` | constructor, `reset()`, `interpolate(x, y)`; `LinearFit::reset/add/combine/scale/interpolate/size` | reads the system properties `media.interpolator.enable` / `.stabilize` at every `reset()`; called by a single owning thread of the media pipeline |
| **Format conversion** (Utils) | `media/libstagefright/Utils.cpp` 76-458 | none (pure functions over `MetaData`/`AMessage` key sets and byte buffers) | `convertMetaDataToMessage`, `convertMessageToMetaData`, `reassembleAVCC`, `reassembleESDS` | MetaData, AMessage, ABuffer, ESDS parser |
| **Offload decision** (Utils) | `Utils.cpp` 484-775 | writes `kKeyBitRate` back into the MetaData; pushes parameters to `AudioSystem` | `sendMetaDataToHal`, `mapMimeToAudioFormat`, `canOffloadStream`, `setAACParameters` | AudioSink, AudioSystem (global audio HAL parameters) |
| **Byte-order helpers** (Utils) | `Utils.cpp` 43-74, 468-482 (`MakeUserAgent`) | none | `U16_AT` … `U64LE_AT`, `ntoh64`, `hton64`, `MakeUserAgent` | callers parsing containers |
| **SSE FIR kernels** | `services/audioflinger/AudioResamplerFirProcessSse.h` | per-call accumulators only | `ProcessL<1|2,16>`, `Process<1|2,16>` (int16, int32, float coefficients); lane helpers `MM_MUL_EPI32`, `rnd_dbl_sta_64_32`, `adjvol`, `mul_add_16/32`, `interp16/32/f` | the audio resampler that calls them per output frame |
| **M4V/H.263 decode test** | `codecs/m4v_h263/dec/test/m4v_h263_dec_test.cpp` | file position, input buffer, `isEofReached`, mode | `readTillNextFrameMpeg4`, `readTillNextFrameH263`, `main` (header, decode loop) | FILE streams, the PV decoder |
| **MP3 decode test + WavWriter** | `codecs/mp3dec/test/*.cpp`, `wavwriter.h` | `WavWriter`: `mFile`, `mSize`, format fields | `WavWriter::init/write/close/writeHeader/~WavWriter`, `main` decode loop | Mp3Reader, PV MP3 decoder, FILE |
| **NDK AMediaFormat** | `include/ndk/NdkMediaFormat.h` | – | declarations only | – |

### What makes each one hard

* **Interpolator.** Here the spec (`spec.md`) puts all the difficulty. It is a
  sequential object with no threads. What is hard is the ring-buffer
  arithmetic. `mSampleIx` walks the ring downwards. The head walk reads it
  forwards. `lastHeadIx = (mSampleIx + headLength) % historyLength` picks the
  sample that leaves the head. Samples move head→main→tail in a fixed
  order, and the tail decays. Stabilize mode reuses the history slot
  `mYHistory[0]` to hold the frozen offset. `reset()` does not clear the
  buffers, and the constructor leaves them uninitialised. Bugs in any of
  these show up only after the index has wrapped, or after a reset in some
  particular switch state. Those are long call sequences that unit tests
  rarely reach.
  Correctness means three things. (1) The three accumulators always
  partition the window's weight over the samples since the reset, with the
  tapering weights the spec gives. (2) Every result is the weighted
  least-squares estimate of that window. (3) Disabled calls pass `y`
  through, and stabilized calls return the frozen offset plus `x`.
* **Format conversion.** The conversion should round-trip. `reassembleAVCC`
  splits on `00 00 00 01`. It writes into a fixed `char avcc[1024]`. It
  computes `csd0->size() - 4` on a `size_t`. The MetaData→AMessage direction
  writes `is-adts` as `true` whatever value it read. The two directions
  test the mime prefix differently (`strncasecmp` forwards, the
  case-sensitive `startsWith` back) and choose the csd by different
  criteria (the key present forwards, the mime back).
* **Byte-order helpers.** `U32_AT` shifts an `int` by 24, which overflows
  for a first byte of 0x80 or more; `ntoh64` exchanges the words
  unconditionally, which is right only on a little-endian host.
* **Offload decision.** `setAACParameters` sends parameters to the global
  `AudioSystem` before it rejects an unsupported AOT. That is a partial
  failure. `canOffloadStream` writes `kKeyBitRate = -1` back into the
  caller's MetaData when no bit rate is known.
* **SSE kernels.** The fixed-point lane operations have edge cases at the
  boundaries: INT_MIN in `MM_MUL_EPI32`, the saturation in
  `rnd_dbl_sta_64_32`, and the `0x8000` fix-up in `interp16`.
* **Test harnesses.** The splitters track the frame length with no bound
  against `kInputBufferSize`. The MPEG-4 splitter accepts a 6-byte tail
  frame but fails on a 5-byte one. A decode error in the M4V loop breaks
  out of the loop with exit status 0. `WavWriter::writeHeader` compares a
  count of `fwrite` items (25) with 44 bytes. `~WavWriter` asserts
  `mFile != NULL`, so an `init` that fails aborts on destruction.

## 2. Plan

The modules come in order of importance. All six steps are done.

1. **Interpolator (done).** `QArith` holds exact rationals, standing in for
   `double`. `WindowedLinearInterpolator` is the code: one action per path
   of `interpolate()`, plus `reset()` and the constructor as `Init`.
   `WindowedFit` is the abstract promise. `MC_Interpolator` holds the model
   values.
2. **CsdConversion and ByteOrder (done).** Both conversion functions
   whole: the scalar keys with their CHECKs, the AVCC parse, the ESDS and
   Vorbis csd, `reassembleAVCC` and `reassembleESDS`, as operators over
   key maps and byte sequences of a small alphabet, driven by a
   three-stage machine (MetaData → AMessage → MetaData). The byte-order
   helpers as operators checked against a positional reading.
3. **FrameSplitter (done).** `readTillNextFrameMpeg4/H263` as pure
   operators over a file given as a byte sequence, composed with `main`'s
   statement groups; the decoder is a nondeterministic success/failure.
4. **OffloadDecision (done).** `canOffloadStream`, `setAACParameters`,
   `mapMimeToAudioFormat` and `sendMetaDataToHal` over a set of MetaData
   contents whose CSD bytes are written from AudioSpecificConfigs.
5. **SseResampler (done).** Every helper and all twelve kernels of
   `AudioResamplerFirProcessSse.h` as operators on vectors of bit-pattern
   lanes at a reduced width, checked against a scalar polyphase FIR.
6. **Mp3DecTest (done).** WavWriter with `mp3dec_test`'s loop, with
   reader, decoder and `fopen` as nondeterministic collaborators.
   Properties: the header sizes are consistent with the bytes written,
   the exit status reports decoder errors, and `main` ends. The
   destructor's assert after a failed `init` is reached and reported as a
   hazard (section 5).

## 3. Modules

### `QArith` (helper, no state)

This module holds normalised rationals `[n, d]`: `Q`, `QAdd`, `QMul`,
`QDiv`, `QPow`, `QSumOver`, and `QBelowInverse` (which tests `a < 1/k`
without overflowing TLC's 32-bit integers). They are the data abstraction
of `double`. Every operation is exact. The `headFactor` in the runs is
1/2, and its powers are exact in binary floating point too. `tailFactor`
3/4 gives exact weights in the model, while a double would round.

### `WindowedLinearInterpolator` (the code)

| TLA+ | C++ |
|---|---|
| `xHistory`, `yHistory` : `0..HistoryLength-1 -> rational` | `mXHistory`, `mYHistory` |
| `head`, `main`, `tail` : records of six sums | `mHead`, `mMain`, `mTail` |
| `numSamples`, `sampleIx`, `enabled`, `stabilize` | same names with `m` |
| `out` | the value the last `interpolate()` returned |
| `history` | auxiliary: the samples since the last reset, newest first. No action reads it. It exists for the refinement mapping. |
| `FitReset/FitAdd/FitCombine/FitScale/FitInterpolate` | `LinearFit::reset/add/combine/scale/interpolate` |
| `AgeWindow` | lines 125-143 (head→main, main→tail, tail decay; reads the buffers *before* the write) |
| `RecomputeHead`/`HeadFrom` | lines 151-160 (the head recomputed from the newest `min(headLength, n)` slots) |
| `NextSampleIx` | lines 162-166 |
| `InterpolateDisabled` | lines 102-104 |
| `InterpolateStabilized` | lines 106-108 |
| `InterpolateSample` | the whole of lines 101-180 as one step: age, write, count, recompute head, move index, combine, interpolate, and store the offset on the call that freezes |
| `Reset` | `reset()`: both switches re-read, and both values of each are possible |
| `Init` | the constructor. `Vector::resize` of `double` does not initialise, so each slot holds an arbitrary sample value. |

The dead `update_head` branch (the constant is `false`) is not modelled.
Neither is `LinearFit::size()`, which nothing calls. Logging is left out.

### `WindowedFit` (the abstract specification)

Its state is the window of samples since the reset, plus `enabled`,
`stabilize`, `offset` and `out`. A sample of age `a` has weight
`WindowWeight(a)`:

* `headFactor^(headLength-a)` in the head,
* 1 in the main window,
* `tailFactor^(a-historyLength+1)` after that.

The estimate `FitAt` is the weighted least-squares line, written with the
weighted mean, variance and covariance. The code uses the accumulator
formula instead; the two are written independently. `FitAt` falls back to
`x` when the weighted variance is below 1e-5. That is the code's test
`|W·XX − X²| < 1e-5·W²` divided by `W²`.

`WindowedLinearInterpolator` implements it through
`WF == INSTANCE WindowedFit WITH window <- history, offset <- …`. The
mapped offset is `mYHistory[0]` while the object is frozen, and 0
otherwise.

### `CsdConversion` (Utils.cpp, codec-specific data)

| TLA+ | C++ |
|---|---|
| `meta` | the input MetaData: its mime, its scalar keys, and which of `kKeyAVCC`, `kKeyESDS`, `kKeyVorbisInfo` it holds, with the bytes |
| `msg` | the AMessage: its keys (`"mime"` and the scalar keys) and its `csd-0` / `csd-1` buffers |
| `meta2` | the MetaData rebuilt by `convertMessageToMetaData`: mime, scalar keys, `kKeyAVCC`, `kKeyESDS` |
| `stage` | `"meta"`, `"msg"`, `"meta2"`; `"aborted"` when a `CHECK` fails, `"failed"` for the `-EINVAL` return (Vorbis info without books) |
| `MimeIsNoCase`, `MimeStartsWith` | `strncasecmp(prefix, mime, 6)` (lines 96, 110) and `AString::startsWith` (lines 393, 409, 445, 452). A mime is its class and whether its prefix is lower case: that is all the two tests tell apart. |
| `CopyKey`, `HasBoth` | one `if (find…) set…` copy; the SAR and width/height pairs |
| `ScalarsChecked` | the `CHECK`s of lines 81, 98-99, 112-113 |
| `ScalarsToMessage` | lines 83-142 |
| `ScalarsToMetaData` | lines 375-441 |
| `CsdToMessage` | lines 143-263: AVCC, ESDS, Vorbis (with the `-EINVAL` return) |
| `CopySets`, `ParseAvcc` | lines 146-223, every `CHECK` of the parse included |
| `SplitParams` | one `do … while` of `reassembleAVCC` (lines 274-299), with the `size_t` wrap of `size() - 4` |
| `LengthPrefixed`, `ReassembleAvcc` | lines 266-333, header bytes as the code writes them |
| `SizeBytes`, `ReassembleEsds` | lines 335-373 |
| `ConvertMetaDataToMessage` | lines 76-264 as one step: the scalar `CHECK`s come before the csd, and a message is returned only when both succeed |
| `ConvertMessageToMetaData` | lines 375-458 as one step, on the message's own mime |

The class `ESDS` lives outside this repository. The model abstracts it:
an ESDS input is the codec-specific info it yields. The properties are
stated against *reference readers* written from ISO/IEC 14496-15 and
14496-1 (`ReadAvcc`, `ReadSize`), not against the code's writers. A
parameter set counts as valid (`ValidNal`) when it is a non-empty NAL unit
with no start code inside; H.264 emulation prevention guarantees this.
The round trip of the scalar keys is stated on the keys as their readers
see them (`AsRead`): `kKeyIsSyncFrame` and `kKeyIsADTS` are flags, tested
as `find… && v != 0`, so 0 and absent are the same and every non-zero
value is the same.

### `ByteOrder` (Utils.cpp lines 43-74)

`U16_AT`, `U32_AT`, `U64_AT`, `U16LE_AT`, `U32LE_AT`, `U64LE_AT`, `ntoh64`
and `hton64` are operators over the sequence of bytes a pointer points at,
with the byte width `b` as a parameter (8 in the code; every shift by 8,
16, 24, 32 is a shift by b, 2b, 3b, 4b). `|` is `Bitwise`'s. `ntohl` is a
byte swap on a little-endian host and the identity on a big-endian one
(`HostOrder`). `CsdConversion` reads the AVCC length fields with
`U16_AT` at b = 8.

The helpers are functions of constants, so TLC cannot check them as
invariants of a behaviour. They are checked as two `ASSUME`s, which every
run of `MC_Csd` evaluates before its first state (the run stops with an
error if one fails): `ReadersMatchByteOrder` (each reader returns the
positional value of its bytes, most significant first or last) and
`Ntoh64ReadsNetworkOrder` (`ntoh64` of a host-order load is what `U64_AT`
reads, and `hton64` undoes it), over every 8-byte string of 0 and 7 and
the eight rotations of 0..7, at b = 3. With `HostOrder = "big"` the
second fails, as the comment at line 67 warns.

### `OffloadDecision` (Utils.cpp, offload)

| TLA+ | C++ |
|---|---|
| `meta` | the track's MetaData, a function on the keys present |
| `halParams` | the global AAC offload parameters last given to `AudioSystem::setParameters` |
| `sinkParams` | the keys `sendMetaDataToHal` passed to the sink |
| `aacStatus`, `result` | what `setAACParameters` and `canOffloadStream` returned |
| `MimeLookup` | `mimeLookup` / `mapMimeToAudioFormat`, lines 519-546 |
| `CsdWindow` | lines 656-670: the zero-filled local copy, read from the CSD offset on |
| `ParseCsd` | lines 673-747, every `BAD_VALUE` return and both SBR signalling forms |
| `SetAACParameters` | lines 630-775; the `ESDS` class is abstracted to what it reports |
| `CanOffloadStream` | lines 548-628 as one step; `isOffloadSupported` is a free choice |
| `SendMetaDataToHal` | lines 484-517 |

The audio_offload_info fields other than format and bit rate only reach
`isOffloadSupported`, whose answer is free, so they are left out.

### `FrameSplitter` (m4v_h263_dec_test.cpp)

| TLA+ | C++ |
|---|---|
| `file`, `pos` | the input file and `fpInput`'s position |
| `mode`, `eof`, `retVal` | `mode`, `isEofReached`, `retVal` |
| `frames` | the buffers `readTillNextFrame` returned, the VOL header first |
| `phase` | where `main` is: before reading, header, decoder init, frame loop, returned |
| `decodeError` | "Error decoding frame" was printed |
| `ReadTillNextFrameMpeg4` | lines 43-94: the size checks and the first VOP start code at or after the fifth byte, seeked back over |
| `ReadTillNextFrameH263` | lines 96-137, including the stale or uninitialised `nextBytes[2]` flushed at end of file |
| `StartFails` | lines 142-178: bad arguments, `fopen` failures |
| `DetectMode` | lines 196-213 |
| `ReadHeader`, `InitDecoder`, `DecodeFrame` | lines 215-225, 230-238, 240-265 (one loop iteration, loop test included) |

The readers are written as "the first start code in the window range"
rather than as the byte-by-byte loop. The loop's scan is exactly that
search. `fseek(fpInput, SEEK_SET, 0)` has its arguments swapped, but
`SEEK_SET` is 0, so it still rewinds. The model says so in a comment and
does not treat it as a finding.

### `Mp3DecTest` (mp3dec_test.cpp, wavwriter.cpp)

`main` is a sequence of statement groups, one action each. The reader
and the decoder are not in this repository: every read succeeds or fails
and every decode succeeds (with an output size from `FrameSizes`) or
fails, as free choices, and the reader gives at most `MaxFrames` frames.
The output file is its length, the position of `mFile` and the two size
fields of the header as last written. `uint32_t` has `SizeBits` bits.
Whether `assert()` is compiled in is chosen once per behaviour.

| TLA+ | C++ |
|---|---|
| `phase`, `retVal` | where `main` is, and the status it returns (`bool retVal`, so `-1` is `1`) |
| `mFile`, `mSize`, `asserts` | `WavWriter::mFile` (null, open, closed), `WavWriter::mSize`, the build's `NDEBUG` |
| `fileLen`, `filePos`, `header` | the output file: length, `FILE` position, ChunkSize and Subchunk2Size at offset 0 |
| `bytesWritten` | a history variable: the sizes passed to `WavWriter::write`, summed without wrap-around; no code counterpart, it lets a property relate the file to what was decoded |
| `SetupFails` | lines 45-69: bad arguments or `Mp3Reader::init` fails, `return -1` |
| `OpenWriter` | lines 72-77 with `WavWriter()`, `init` and, on failure, `~WavWriter`'s assert |
| `DecodeFrame` | one turn of lines 89-112, with `WavWriter::write` (`FileWrite`) |
| `CloseAndReturn` | lines 114-123 with `WavWriter::close` and `writeHeader` |

### `SseResampler` (AudioResamplerFirProcessSse.h)

An `__m128i` is four 32-bit lanes, each an unsigned bit pattern. Its 16-bit
and 64-bit views (`E16`/`P16`, `E64`/`P64`) are derived from the lanes,
little-endian, as the hardware lays them out. The widths are scaled: a
16-bit lane has `H` bits, a 32-bit lane `W = 2H` and a 64-bit lane
`D = 4H`. Every constant of the code is written in terms of them, so
`0x8000` is `2^(H-1)`, `0x40000000` is `2^(W-2)` and the shift by 31 is
`W-1`. An `__m128` holds four exact rationals (`QArith`).

| TLA+ | C++ |
|---|---|
| `MmXor` … `MmHaddPs`, `MmReverse16`, `MmReverse32` | one intrinsic each: `_mm_xor_si128` … `_mm_hadd_ps`, `_mm_shuffle_epi8` with the kernels' reversing mask, `_mm_loadr_ps` |
| `MM_EXTRACT_EPI32`, `MM_EXTRACT_PS`, `MM_MUL_EPI32` | the non-SSE4.1 fallbacks, lines 41-72 |
| `MulEpi32Native` | `_mm_mul_epi32`, which SSE4.1 builds use instead (line 38) |
| `rnd_dbl_sta_64_32`, `adjvol`, `adjvolf` | lines 75-110 |
| `mul_add_16`, `mul_add_32` (`MulHigh32` is its repeated half) | lines 112-150 |
| `interp16`, `interp32`, `interpf` | lines 152-195 |
| `ProcessL1Q15` … `Process2F` | the twelve specialisations, lines 197-805: `L` means no interpolation, `1`/`2` is the channel count, and `Q15`/`Q31`/`F` is the coefficient type (int16, int32, float) |
| `call`, `result` | one call of a helper or a kernel, and what it returned (`out` for a kernel) |

Each kernel's loop is a `FoldLeft` over its iterations. The loop body
takes the pointer offsets as functions of the iteration number. Memory is
a function from the offset relative to `sP` or `sN` to the sample.

`Vec` builds a vector from its four lanes. It computes each lane once,
the way a register holds values and not the expressions that made them.
Without it, TLC evaluates the nested lane views again at each level.

The reference is a scalar polyphase FIR (`RefOut`). Tap `i` of the
positive side multiplies the frame `i` frames before `sP`. Tap `i` of the
negative side multiplies the frame `i` frames after `sN`. Interpolation
runs from `coefsP` to `coefsP1`, and from `coefsN1` to `coefsN`. A 32-bit
coefficient times a 16-bit sample is kept in Q15 (`>> 16`). The int32
accumulator wraps. The volume is a Q31 multiply, rounded to nearest and
saturated.

## 4. Runs

| Run | Config | Checks | Shows |
|---|---|---|---|
| `interpolator_window` | `MC_Interpolator.cfg`: headLength 2, mainLength 1 (3 slots), ≤ 7 samples between resets, 3 sample points (two on `y = x`, one off it), headFactor 1/2, tailFactor 3/4 | `TypeOK`, `AccumulatorsMatchWindow`, `WindowedFitRefinement` | the accumulators always equal the window sums, and every returned value refines `WindowedFit`. Covered: every reset/switch combination, uninitialised slots, the frozen offset in slot 0 surviving a reset, and two wraps of the write index. |
| `interpolator_no_head` | `MC_Interpolator_NoHead.cfg`: headLength 0, mainLength 2 | `AccumulatorsMatchWindow` (violation expected) | with headLength 0, `mMain` takes in the slot about to be overwritten, not the new sample (see the finding) |

| `csd_round_trip` | `MC_Csd.cfg`: all AVCC records of ≤ 2 SPS and ≤ 1 PPS of 0-3 bytes over {0,1}, under two headers, every truncation of one record and a bad version byte; ESDS infos of 0, 1, 2, 127, 128 and 129 bytes under both (lower-case) mimes; Vorbis info with and without books; each with all the keys of its class or only the required ones. Also evaluates the `ByteOrder` assumptions | `ParameterSetsRoundTrip`, `EsdsRoundTrip` | the start-code split finds exactly the original sets, including a last set that is only found by the `i >= size-4` end test, and the ES descriptor sizes are consistent at the 7-bit boundaries |
| `meta_round_trip` | `MC_Csd_RoundTrip.cfg`: mimes of either case; every key of the class at 0, 1 and 2, without a required key, or only the required keys; one AVCC record, the ESDS infos, Vorbis with and without books | `MetaDataRoundTrip` (violation expected) | the MetaData does not come back as it was; four separate causes (see the findings), each confirmed by restricting the inputs to it |
| `csd_capacity` | `MC_Csd_Capacity.cfg`: capacity scaled from 1024 to 16 | `CsdWithinCapacity` (violation expected) | parameter sets larger than the fixed buffers are copied past their end |

| `frames_mpeg4` | `MC_Frames.cfg`: every file of ≤ 7 bytes over {0, 1, 0xB6, 7}, and 2-3 start-code-separated frames with short payloads | `FramesConcatenate`, `Terminates` | the frames are exactly the bytes read, and `main` returns |
| `frames_h263_tail` | `MC_Frames_H263.cfg`: H.263 files with and without a second picture start code | `FramesConcatenate` (violation expected) | the last frame is one byte too long |

| `offload_csd` | `MC_Offload.cfg`: AAC tracks from 1200+ AudioSpecificConfigs (AOT 1, 2, 5, 29; frequency index 3, 11, 12; channels 0, 2, 9; SBR index 3, 8, 12; sync extensions with and without PS), CSD followed by nothing or an SLConfigDescriptor, ESDS bit rates absent/0/max-only/both, `kKeyBitRate` and `kKeyAACAOT` present or absent; malformed ESDSs; non-AAC and unknown mimes | `AacParamsMatchConfig` | the byte-position bit parse accepts exactly the supported configs and sends their object type and downsampling flag |
| `offload_params` | `MC_Offload_Params.cfg` | `AacParamsOnlyWhenAccepted` (violation expected) | a refused AAC Main track has already replaced the global offload parameters |

| `mp3_wav` | `MC_Mp3.cfg`: `uint32_t` of 7 bits, frames writing 0, 4 or 52 bytes, at most 3 frames; read and decode failures at every frame, a failed `fopen`, both assert builds | `TypeOK`, `FileHoldsHeaderAndFrames`, `HeaderMatchesFile`, `Terminates` | while the writer's file exists it is exactly the 44-byte header followed by every byte written (so `close` rewrites the header in place, after a decoder error too), the closed file's header sizes equal its length less 8 and less 44 modulo 2^32 (two 52-byte frames make `mSize` wrap), and `main` ends |

| `sse_kernels` | `MC_Sse.cfg`: H = 4. `MM_MUL_EPI32` and `adjvol`: every 8-bit value against 15 edge values (0, ±1, ±2, ±1/2 and the ends of the range), and INT_MIN against INT_MIN and INT_MAX. `interp32`: 15×15 edge values × lerp 0, 1, 64, 127. Kernels: counts giving one and two loop turns, two sample patterns, each tap of each coefficient array in turn set to an end of the range, dense arrays that wrap the accumulator, and three lerps | `MulEpi32MatchesNative`, `AdjvolRoundsQ31`, `Interp32Rounds`, `FirMatchesReference` | the lane tricks and the pointer arithmetic of all kernels except the int16 interpolating ones agree with the scalar FIR |
| `sse_interp16` | `MC_Sse_Interp16.cfg`: every pair of 4-bit coefficients × every Q3 lerp | `Interp16WithinCoefs` (violation expected) | lerp 0 between two zero coefficients gives -1 in lane 1 |

`Mp3DecTest` makes the same assumption, and its final state also has no
successor. Three frames of 0, 4 and 52 bytes give every interleaving of
read failure, decode failure and write that the loop has, and with 7-bit
sizes the second 52-byte frame takes `mSize` past 2^7.

`FrameSplitter` assumes weak fairness on `Next`. `main` is one thread
that keeps executing until it returns, and that is exactly what
`Terminates` relies on. The frame runs say `CHECK_DEADLOCK FALSE` because
the state after `main` returns has no successor. The files of ≤ 7 bytes
reach every size check of the readers: 3, 4, 5, 6 and 7 bytes left.
Mutants: a seek back of 3 instead of 4 (`FramesConcatenate`), and a
missing `break` after the read error (`Terminates`).

The conversion runs once per input and then stops. The `csd` runs
therefore say `CHECK_DEADLOCK FALSE`: a terminal stage is the intended end
of the computation, not a deadlock. Payloads of 0-3 bytes keep every last
set inside the final four bytes, which is the end-test edge. The {0,1}
alphabet produces start codes, near misses (`0 0 1`, `0 0 0 0`) and trailing
zeros. Mutants: the split takes `lastparamoffset` at the start code rather
than after it (`ParameterSetsRoundTrip`), and the ES descriptor size is one
short (`EsdsRoundTrip`). The lower-case mimes of `csd_round_trip` are what
the extractors write (the `MEDIA_MIMETYPE_*` constants); mixed case is
left to `meta_round_trip`. TLC reports the first violation it meets, an
upper-case `Video/` mime; restricting that run's inputs to lower-case
mimes shows the Vorbis, `is-adts` and video-ESDS causes one at a time, and
with all four excluded the round trip holds for every remaining input.

**Why these bounds are enough.** Three slots with 7 samples wrap
`mSampleIx` twice. They also put four samples through head→main→tail, so
the tail gets scaled on top of earlier scaling. Every sample passes
through every index position. Stabilize freezes after 3 samples. Reset
happens at any point, with any switch values. The three points make the
fit singular (equal x), exact, and approximate. The `Points^3` initial
buffer contents are all explored. So any read of a slot that has not been
written shows up as a wrong sum.

**Fairness.** None is assumed. The object is a passive library called by
its owner. No operation is ever obliged to happen, and every property is
a safety property. Deadlock is checked: `reset()` is always enabled.

**Mutants.** Each property is broken by a plausible code bug:
* dropping the near-singular guard gives NaN on the first sample
  (`TypeOK`);
* scaling the tail before the leaving sample joins it
  (`AccumulatorsMatchWindow`);
* a wrong term in `b_div` (`WindowedFitRefinement`).

The offload decision runs once per track, so its runs say
`CHECK_DEADLOCK FALSE` as well. No fairness is assumed: every property is
a safety property. The reference (`RefAot`, `RefSupported`, `RefDown`) reads
the AudioSpecificConfig fields the test CSD was written from, per
ISO/IEC 14496-3 1.6.2.1, never the bytes. Mutant: the low bit of the
frequency index taken from the wrong bit of `data[1]`
(`AacParamsMatchConfig`).

The SSE runs make one call per behaviour (36 388 calls), so they say
`CHECK_DEADLOCK FALSE`. No fairness is needed because every property is a
safety property of the value returned.

**Why these bounds are enough for the kernels.** The whole fixed-point
argument depends only on the lane widths keeping the ratios of the code:
the 16-bit product fits in 32 bits, the Q31 product fits in 64 bits, and
the rounding constant is half of the shift. At H = 4 every helper is
checked over every value of one operand. A one-hot coefficient array makes
the output name the sample the kernel paired that tap with. The two
sample patterns (the offset itself, and the offset divided by 4, both
wrapped) tell any two offsets in reach apart. So a wrong starting offset,
a wrong pointer step or a wrong reversal shows up as a wrong output. Two
turns of each loop check the pointer steps.

Mutants:
* the sign mask spread from lanes 1 and 3 (`MulEpi32MatchesNative`);
* no saturation fix-up (`AdjvolRoundsQ31`);
* the high halves left in the order 0 2 1 3 (`Interp32Rounds`);
* the stereo int32 kernel's `sP` offset without the `- 8`
  (`FirMatchesReference`).

## 5. Findings

* **headLength 0** (`Interpolator.cpp:132`, spec_code_divergence). The
  spec allows `headLength ≥ 0` and promises an exact Head/Main/Tail
  partition. With headLength 0, `lastHeadIx` is the slot being
  overwritten. The first call therefore adds a never-written (or
  pre-reset) slot to `mMain`. The new sample enters no accumulator. Once
  the buffer is full, each sample is added to and removed from `mMain` in
  the same step. TLC finds this after one call.

* **Mime case** (`Utils.cpp:393`, spec_code_divergence). Forward, the
  class is tested with `strncasecmp`; backward with the case-sensitive
  `startsWith`. A `Video/` mime gets its width and height into the message
  but none of its class keys or csd back. The trace TLC reports is a
  `Video/` track with AVCC codec-specific data: width, height, `csd-0` and
  `csd-1` are in the message, and the rebuilt MetaData has none of them.
* **`is-adts` forced to 1** (`Utils.cpp:134`, code_bug). The value read
  from `kKeyIsADTS` is ignored and `"is-adts"` is set to `true`; a raw-AAC
  track marked `kKeyIsADTS = 0` becomes ADTS in the message and in the
  MetaData rebuilt from it.
* **Vorbis csd becomes an ESDS** (`Utils.cpp:452`, spec_code_divergence).
  Any audio `csd-0` is wrapped in an MPEG-4 ES descriptor: Vorbis info
  comes back as `kKeyESDS` and the books are dropped.
* **Video ESDS dropped** (`Utils.cpp:445`, spec_code_divergence). Forward,
  the ESDS of any track becomes `csd-0`. Backward, only `audio/` gets an
  ESDS; `video/` gets an AVCC, and only when `csd-1` exists. The csd of an
  MPEG-4 part 2 video track is lost.
* **Fixed 1024-byte buffers** (`Utils.cpp:182`, code_bug). The parameter
  sets are copied into `ABuffer(1024)` and `char avcc[1024]` with no bound
  check; `ABuffer::setRange` checks only after the copy. A legal record
  exceeds this. TLC shows the violation with the capacity scaled to 16.

* **H.263 last frame one byte long** (`m4v_h263_dec_test.cpp:118`,
  code_bug). The end-of-file flush copies three window bytes from the
  MPEG-4 reader, but the H.263 window holds only two unread bytes. The
  third is the last byte again, or uninitialised stack memory when five
  bytes were left.

* **Refused AAC track changes global parameters** (`Utils.cpp:762`,
  code_bug). `setAACParameters` calls `AudioSystem::setParameters` with the
  codec id and downsampling flag (line 762) before the AOT check of line
  768. In the trace, an AAC track whose ESDS codec-specific data (bytes
  9, 144) gives AOT 1, AAC Main, reaches `setParameters` and is only then
  refused: a track that is not offloaded has still set the global offload
  AAC parameters.

* **interp16's mask in the wrong lanes** (`AudioResamplerFirProcessSse.h:155`,
  code_bug). The fix-up for a `_mm_mulhrs_epi16` result of `0x8000` builds
  its mask with `_mm_set1_epi32(0x8000)`. In 16-bit lanes that is `0x8000`
  in the even lanes and 0 in the odd ones. So every odd lane whose product
  rounds to 0 matches the mask, and the xor turns it into -1. With lerp 0,
  equal phases or a small difference, the odd coefficients of the int16
  `Process<1,16>` and `Process<2,16>` come out as `coefs0 - 1`. The
  intended mask is `_mm_set1_epi16(0x8000)`, as in the 32-bit fix-up of
  `interp32`.

Noted and not checked by a run (the project is limited to twelve runs, and
these were retired to make room for other runs):
* with no `kKeyBitRate` and no ESDS bit rate, `info.bit_rate` keeps its -1
  sentinel (or is 0 from the ESDS); `canOffloadStream` stores it in the
  MetaData (`Utils.cpp:619`), and `sendMetaDataToHal` passes it to the HAL
  as the average bit rate. `OffloadDecision` reaches this state;
* when `WavWriter::init` fails, `main` returns -1 and `~WavWriter` asserts
  `mFile != NULL` (`wavwriter.cpp:37`), so a build with `assert()` aborts
  (`Mp3DecTest` reaches the state `phase = "aborted"`). `write` ignores
  `fwrite`'s result, so after a short write the header counts bytes the
  file does not hold; the model takes every write to complete;
* after "Error decoding frame" (`m4v_h263_dec_test.cpp:258`), the M4V
  harness breaks out with exit status 0;
* `reassembleAVCC` writes a constant profile 0x64 and level 0xd, whatever
  the original record said (`Utils.cpp:269`);
* the frame splitters copy into the 100 KiB `inputBuf` with no bound
  (`m4v_h263_dec_test.cpp:88`).

## 6. Not modelled, and why

* IEEE rounding. The model is exact. This leaves out the drift of the
  incrementally updated `mMain`, and any case where the 1e-5 guard fires
  only because of rounding.
* `historyLength = 0`. It is undefined behaviour (modulo 0, and an
  empty-vector read), so the `ASSUME` excludes it.
* Concurrent calls. The spec makes the caller serialise them, and the
  code has no locking to model.
* In the Utils conversion, mime strings are reduced to their class and
  the case of their prefix, and key values to 0, 1 and 2: the code only
  tests those. The `ESDS` parser is not in this repository. The 2^28 `CHECK` in
  `reassembleESDS` needs inputs of 256 MiB. More than 31 SPS spill into
  the reserved bits of `avcc[5]`, which is beyond the enumerated bounds.
* The SSE kernels: alignment of `_mm_load_si128`/`_mm_load_ps` (a
  property of the callers' buffers), IEEE rounding in the float kernels,
  and the construction of the filter tables. `FirMatchesReference` assumes
  that neighbouring phases differ by less than the int32 range
  (`SmoothPhases`), because `interp32` forms `coefs1 - coefs0` in 32 bits.
  The caller's `lerpP` is taken in `[0, 2^frac)`. `out[i] +=` wraps as
  two's complement. In C++ that overflow is undefined, and every build
  wraps.
* In the MP3 harness, `Mp3Reader` and the pvmp3 decoder (not in this
  repository), `malloc` failures, and the header's rate, channel and
  block-align fields, which are copies of the reader's values.
* `NdkMediaFormat.h` contains only declarations.
  `MakeUserAgent` is string formatting of a system property: no state, no
  control beyond appending three strings.
