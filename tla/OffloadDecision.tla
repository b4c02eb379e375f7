--------------------------- MODULE OffloadDecision ---------------------------
(***************************************************************************)
(* The compressed-audio offload decision of media/libstagefright/Utils.cpp: *)
(* canOffloadStream() with mapMimeToAudioFormat() and setAACParameters(),  *)
(* and sendMetaDataToHal(), which the player calls once it has opened an    *)
(* offloaded sink.                                                          *)
(*                                                                         *)
(* A MetaData is a function whose domain is the set of keys present, so    *)
(* findInt32(k) is k \in DOMAIN meta.  The ESDS of an AAC track is given   *)
(* by what the ESDS class (not in this repository) reports about it: its  *)
(* kind and size, the bit rates from getBitRate(), the codec-specific      *)
(* info, and the ESDS bytes that follow that info.  The audio_offload_info *)
(* fields other than format and bit_rate only feed                          *)
(* AudioSystem::isOffloadSupported(), whose answer is a free choice, as is *)
(* the status of AudioSystem::setParameters().                              *)
(***************************************************************************)
EXTENDS Integers, Sequences, Bitwise, TLC

CONSTANTS Tracks   \* the MetaData of the tracks a player may try to offload

VARIABLES
  meta,        \* the track's MetaData
  halParams,   \* AudioSystem's global AAC offload parameters, or Absent
  sinkParams,  \* the parameters sendMetaDataToHal gave the sink, or Absent
  aacStatus,   \* what setAACParameters returned, or "none" if not called
  result,      \* what canOffloadStream returned
  stage        \* "idle", "decided" or "sent"

vars == <<meta, halParams, sinkParams, aacStatus, result, stage>>

\* An absent optional value (no parameters sent, no bit rates, no sync
\* extension).
Absent == [none |-> TRUE]

AOT_SBR == 5
AOT_PS == 29
AOT_AAC_LC == 2

\* mimeLookup, lines 524-532 (strcasecmp: mimes are given lower-case).
MimeLookup ==
  [m \in {"audio/mpeg", "audio/raw", "audio/3gpp", "audio/amr-wb",
          "audio/mp4a-latm", "audio/vorbis"} |->
     CASE m = "audio/mpeg" -> "MP3"        [] m = "audio/raw" -> "PCM_16_BIT"
       [] m = "audio/3gpp" -> "AMR_NB"     [] m = "audio/amr-wb" -> "AMR_WB"
       [] m = "audio/mp4a-latm" -> "AAC"   [] m = "audio/vorbis" -> "VORBIS"]

MimeAac == "audio/mp4a-latm"

Has(m, k) == k \in DOMAIN m

(***************************************************************************)
(* setAACParameters, lines 630-775, for MetaData m with info->bit_rate br *)
(* on entry and setParameters() succeeding iff setOk.  `data` is the CSD  *)
(* as the code reads it: data[0..6] of the zero-filled local copy, which   *)
(* runs past the CSD into the rest of the ESDS.                            *)
(***************************************************************************)

\* Lines 660-665: the CSD and what follows it, zero-filled, 7 bytes.
CsdWindow(e) == SubSeq(e.csd \o e.after \o << 0, 0, 0, 0, 0, 0, 0 >>, 1, 7)

\* Mutant of ParseCsd: the low bit of the frequency index taken from bit 6
\* of data[1] instead of bit 7.
ParseCsdFreqShift(d) ==
  LET aot0  == d[1] \div 8
      freq0 == (d[1] & 7) * 2 + ((d[2] \div 64) % 2)
      chans == (d[2] \div 8) & 15
      hier  == aot0 \in {AOT_SBR, AOT_PS}
      ext1  == (d[2] & 7) * 2 + d[3] \div 128
      freq1 == IF hier THEN ext1 ELSE freq0
      down1 == hier /\ ext1 = freq0
      sync  == aot0 # AOT_SBR /\ (d[2] & 1) = 0 /\ d[3] = 86 /\ d[4] = 229
               /\ d[5] >= 128
      ext2  == (d[5] \div 8) & 15
      ps    == (d[5] & 7) = 5 /\ d[6] = 72 /\ d[7] >= 128
      bad   == [ok |-> FALSE]
  IN  IF freq0 > 11 THEN bad
      ELSE IF chans = 0 \/ chans > 8 THEN bad
      ELSE IF hier /\ ext1 > 11 THEN bad
      ELSE IF ~sync THEN [ok |-> TRUE, aot |-> aot0, down |-> down1]
      ELSE IF ext2 > 11 THEN bad
      ELSE [ok |-> TRUE, aot |-> IF ps THEN AOT_PS ELSE AOT_SBR,
            down |-> down1 \/ ext2 = freq1]

\* The AOT and downsampling flag the CSD parse arrives at (lines 673-747).
\* ok is FALSE on one of its BAD_VALUE returns.
ParseCsd(d) ==
  LET aot0  == d[1] \div 8
      freq0 == (d[1] & 7) * 2 + d[2] \div 128
      chans == (d[2] \div 8) & 15
      hier  == aot0 \in {AOT_SBR, AOT_PS}
      ext1  == (d[2] & 7) * 2 + d[3] \div 128
      freq1 == IF hier THEN ext1 ELSE freq0
      down1 == hier /\ ext1 = freq0
      sync  == aot0 # AOT_SBR /\ (d[2] & 1) = 0 /\ d[3] = 86 /\ d[4] = 229
               /\ d[5] >= 128
      ext2  == (d[5] \div 8) & 15
      ps    == (d[5] & 7) = 5 /\ d[6] = 72 /\ d[7] >= 128
      bad   == [ok |-> FALSE]
  IN  IF freq0 > 11 THEN bad
      ELSE IF chans = 0 \/ chans > 8 THEN bad
      ELSE IF hier /\ ext1 > 11 THEN bad
      ELSE IF ~sync THEN [ok |-> TRUE, aot |-> aot0, down |-> down1]
      ELSE IF ext2 > 11 THEN bad
      ELSE [ok |-> TRUE, aot |-> IF ps THEN AOT_PS ELSE AOT_SBR,
            down |-> down1 \/ ext2 = freq1]

SetAACParameters(m, br, setOk) ==
  LET e    == m.esds
      br1  == IF e.rates = Absent THEN br
              ELSE IF e.rates.avg = 0 /\ e.rates.max # 0 THEN e.rates.max
              ELSE e.rates.avg
      p    == ParseCsd(CsdWindow(e))
      fail(s, b) == [status |-> s, bitRate |-> b, sent |-> Absent]
      sent == [aot |-> p.aot, down |-> p.down]
  IN  IF ~Has(m, "esds") \/ e.kind # "esds" \/ e.size < 14 \/ e.size > 256
      THEN fail("BAD_VALUE", br)
      ELSE IF Len(e.csd) < 2 \/ ~p.ok THEN fail("BAD_VALUE", br1)
      ELSE IF ~setOk THEN fail("ERROR", br1)
      ELSE IF p.aot \notin {AOT_SBR, AOT_PS, AOT_AAC_LC}
      THEN [status |-> "BAD_VALUE", bitRate |-> br1, sent |-> sent]
      ELSE [status |-> "OK", bitRate |-> br1, sent |-> sent]

(***************************************************************************)
(* Operations.                                                             *)
(***************************************************************************)

Init ==
  /\ meta \in Tracks
  /\ halParams = Absent
  /\ sinkParams = Absent
  /\ aacStatus = "none"
  /\ result = FALSE
  /\ stage = "idle"

\* canOffloadStream, lines 548-628.  The CHECK on kKeyMIMEType holds for
\* every track (extractors always set it).
CanOffloadStream ==
  /\ stage = "idle"
  /\ stage' = "decided"
  /\ \E setOk \in BOOLEAN, supported \in BOOLEAN :
       LET mime == meta.mime
           br   == IF Has(meta, "bitRate") THEN meta.bitRate ELSE -1
           aac  == SetAACParameters(meta, br, setOk)
           isAac == mime = MimeAac
       IN  IF mime \notin DOMAIN MimeLookup
              \/ (Has(meta, "aacAot") /\ meta.aacAot \in {23, 39})
           THEN /\ result' = FALSE
                /\ UNCHANGED <<meta, halParams, aacStatus>>
           ELSE /\ aacStatus' = IF isAac THEN aac.status ELSE "none"
                /\ halParams' = IF isAac /\ aac.sent # Absent THEN aac.sent
                                ELSE halParams
                /\ IF isAac /\ aac.status # "OK"
                   THEN /\ result' = FALSE
                        /\ UNCHANGED meta
                   ELSE /\ meta' = ("bitRate" :> (IF isAac THEN aac.bitRate ELSE br))
                                   @@ meta
                        /\ result' = supported
  /\ UNCHANGED sinkParams

HalKeys == {"sampleRate", "channelMask", "bitRate", "encoderDelay",
            "encoderPadding"}

\* sendMetaDataToHal, lines 484-517: every one of the five keys present in
\* the MetaData is passed on.
SendMetaDataToHal ==
  /\ stage = "decided" /\ result
  /\ sinkParams' = [k \in DOMAIN meta \cap HalKeys |-> meta[k]]
  /\ stage' = "sent"
  /\ UNCHANGED <<meta, halParams, aacStatus, result>>

Next == CanOffloadStream \/ SendMetaDataToHal

Spec == Init /\ [][Next]_vars

(***************************************************************************)
(* Reference: the AudioSpecificConfig of ISO/IEC 14496-3, 1.6.2.1, read    *)
(* from the fields it was written from (esds.asc: audioObjectType,         *)
(* samplingFrequencyIndex, channelConfiguration, and either the            *)
(* hierarchical SBR/PS extension or the backward-compatible sync           *)
(* extension), against the support rule the code states: AAC-LC, SBR or  *)
(* PS, 8 to 96 kHz (index <= 11), 1 to 8 channels.                         *)
(***************************************************************************)

Hierarchical(a) == a.aot \in {AOT_SBR, AOT_PS}
ExplicitSbr(a)  == ~Hierarchical(a) /\ a.sync # Absent /\ a.sync.sbr = 1

RefAot(a) ==
  IF ExplicitSbr(a) THEN (IF a.sync.ps = 1 THEN AOT_PS ELSE AOT_SBR)
  ELSE a.aot

RefSbrFreq(a) ==
  IF Hierarchical(a) THEN a.ext ELSE IF ExplicitSbr(a) THEN a.sync.ext
  ELSE a.freq

RefSupported(a) ==
  /\ RefAot(a) \in {AOT_AAC_LC, AOT_SBR, AOT_PS}
  /\ a.freq <= 11 /\ RefSbrFreq(a) <= 11
  /\ a.chan \in 1 .. 8

\* SBR runs downsampled when its output rate is the core rate.
RefDown(a) == (Hierarchical(a) \/ ExplicitSbr(a)) /\ RefSbrFreq(a) = a.freq

WellFormedEsds(m) ==
  Has(m, "esds") /\ LET e == m.esds IN
  e.kind = "esds" /\ e.size >= 14 /\ e.size <= 256 /\ Len(e.csd) >= 2

(***************************************************************************)
(* Properties.                                                             *)
(***************************************************************************)

\* The CSD bit parse of setAACParameters (lines 673-747) agrees with the
\* standard: for a well-formed ESDS, an AAC track is accepted exactly when
\* its AudioSpecificConfig is a supported one, and the codec id and
\* downsampling flag given to AudioSystem are the config's.
AacParamsMatchConfig ==
  (stage # "idle" /\ aacStatus \in {"OK", "BAD_VALUE"}
     /\ WellFormedEsds(meta))
  => /\ (aacStatus = "OK") = RefSupported(meta.esds.asc)
     /\ aacStatus = "OK" =>
          halParams = [aot |-> RefAot(meta.esds.asc),
                       down |-> RefDown(meta.esds.asc)]

\* AudioSystem's global AAC offload parameters are only ever those of a
\* track setAACParameters accepted (line 762 sends them, line 768 then
\* refuses the AOT).
AacParamsOnlyWhenAccepted ==
  halParams # Absent => aacStatus = "OK"
=============================================================================
