------------------------------- MODULE MC_Csd -------------------------------
(***************************************************************************)
(* Inputs for CsdConversion.  Parameter sets are byte strings of length 0 *)
(* to 3 over {0, 1}: short enough that the last set always ends inside the *)
(* final four bytes (the `i >= size - 4` exit of reassembleAVCC), and the  *)
(* alphabet forms start codes, near misses and trailing zeros.  Records    *)
(* carry up to two SPS and one PPS, under two headers: the one            *)
(* reassembleAVCC writes (profile 100, level 13) and a baseline one        *)
(* (profile 66, level 30).  Truncated records and a record with a wrong    *)
(* version byte exercise the CHECKs of the parse.  Codec-specific infos   *)
(* in an ESDS have lengths at the 7-bit boundaries of the descriptor sizes. *)
(***************************************************************************)
EXTENDS CsdConversion

MCBytes == {0, 1}

MCPayloads == UNION {[1 .. k -> MCBytes] : k \in 0 .. 3}

MCSetLists(max) == UNION {[1 .. k -> MCPayloads] : k \in 0 .. max}

MCHeaders == {<< 1, 100, 0, 13, 255 >>, << 1, 66, 192, 30, 255 >>}

\* An AVCDecoderConfigurationRecord as a muxer writes it.
MCRecord(hdr, sps, pps) ==
  hdr \o << 224 + Len(sps) >> \o LengthPrefixed(sps)
      \o << Len(pps) >> \o LengthPrefixed(pps)

MCWellFormed ==
  {[hdr |-> h, sps |-> s, pps |-> p, avcc |-> MCRecord(h, s, p)] :
     h \in MCHeaders, s \in MCSetLists(2), p \in MCSetLists(1)}

\* Every proper prefix of one full record, and that record with version 2.
MCFull == [hdr |-> << 1, 100, 0, 13, 255 >>, sps |-> << << 1, 0 >> >>,
           pps |-> << << 1 >> >>,
           avcc |-> MCRecord(<< 1, 100, 0, 13, 255 >>,
                             << << 1, 0 >> >>, << << 1 >> >>)]

MCMalformed ==
  {[MCFull EXCEPT !.avcc = SubSeq(MCFull.avcc, 1, k)] :
     k \in 0 .. Len(MCFull.avcc) - 1}
  \cup {[MCFull EXCEPT !.avcc = [MCFull.avcc EXCEPT ![1] = 2]]}

MCVideoInputs == MCWellFormed \cup MCMalformed

MCEsdsInputs == {[i \in 1 .. n |-> 1] : n \in {0, 1, 2, 127, 128, 129}}

\* Vorbis info and books, and info without books.
MCVorbisInputs ==
  {[info |-> << 1 >>, books |-> << 0, 1 >>, hasBooks |-> h] : h \in BOOLEAN}

\* Mimes as the extractors write them (MediaDefs: lower case), and with an
\* upper-case prefix, which strncasecmp accepts and startsWith does not.
MCMimes == {[type |-> t, lower |-> TRUE] : t \in {"video", "audio"}}
MCAnyCaseMimes == {[type |-> t, lower |-> l] : t \in {"video", "audio"}, l \in BOOLEAN}

MCCommonKeys == {"kKeyDuration", "kKeyIsSyncFrame", "kKeyMaxInputSize"}
MCVideoKeys == {"kKeyWidth", "kKeyHeight", "kKeySARWidth", "kKeySARHeight"}
MCAudioKeys == {"kKeyChannelCount", "kKeySampleRate", "kKeyChannelMask",
                "kKeyEncoderDelay", "kKeyEncoderPadding", "kKeyIsADTS"}

\* Every key of the track's class set to v.
MCAll(type, v) ==
  [k \in MCCommonKeys \cup (IF type = "video" THEN MCVideoKeys ELSE MCAudioKeys) |-> v]

\* Every key, or only the keys the CHECKs require.
MCKeyInputs ==
  [t \in {"video", "audio"} |->
     {MCAll(t, 1),
      [k \in IF t = "video" THEN {"kKeyWidth", "kKeyHeight"}
              ELSE {"kKeyChannelCount", "kKeySampleRate"} |-> 2]}]

\* For the key round trip: every key at 0, 1 and 2, each class without one
\* of the keys its CHECKs require, and only the required keys.
MCAnyKeyInputs ==
  [t \in {"video", "audio"} |->
     {MCAll(t, v) : v \in {0, 1, 2}}
     \cup {[k \in DOMAIN MCAll(t, 1) \ {r} |-> 1] :
             r \in IF t = "video" THEN {"kKeyWidth"} ELSE {"kKeySampleRate"}}
     \cup MCKeyInputs[t]]

MCSmallVideoInputs == {MCFull}

MCByteBits == 3

\* 1024 scaled to the lengths of these inputs.
MCCsdCapacity == 16
=============================================================================
