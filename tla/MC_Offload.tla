----------------------------- MODULE MC_Offload -----------------------------
(***************************************************************************)
(* Tracks for OffloadDecision.  AAC tracks carry an ESDS whose             *)
(* codec-specific info is written, bit by bit, from an AudioSpecificConfig *)
(* (ISO/IEC 14496-3): plain AAC Main / LC with and without the             *)
(* backward-compatible SBR and PS sync extensions, and hierarchical SBR /  *)
(* PS signalling, at sampling-frequency indices on both sides of the       *)
(* supported limit 11, with SBR at and away from the core rate, and with   *)
(* valid and invalid channel configurations.  The info is followed by     *)
(* nothing or by an SLConfigDescriptor, as in files.  Bit rates from the  *)
(* MetaData and from the ESDS are present, absent or zero.  Malformed      *)
(* ESDSs and non-AAC tracks take the other paths.                          *)
(***************************************************************************)
EXTENDS OffloadDecision

\* The n low bits of v, most significant first.
MCBits(v, n) == [i \in 1 .. n |-> (v \div (2 ^ (n - i))) % 2]

\* A bit string padded with zero bits and packed into bytes.
MCToBytes(b) ==
  LET p == b \o [i \in 1 .. ((8 - (Len(b) % 8)) % 8) |-> 0]
  IN  [k \in 1 .. Len(p) \div 8 |->
         LET RECURSIVE Acc(_)
             Acc(i) == IF i = 0 THEN 0 ELSE Acc(i - 1) * 2 + p[8 * (k - 1) + i]
         IN  Acc(8)]

\* AudioSpecificConfig with a GASpecificConfig of three zero bits
\* (frameLengthFlag, dependsOnCoreCoder, extensionFlag).
MCAscBits(a) ==
  MCBits(a.aot, 5) \o MCBits(a.freq, 4) \o MCBits(a.chan, 4)
  \o (IF Hierarchical(a) THEN MCBits(a.ext, 4) \o MCBits(a.core, 5) ELSE << >>)
  \o << 0, 0, 0 >>
  \o (IF a.sync = Absent THEN << >>
      ELSE MCBits(695, 11) \o MCBits(AOT_SBR, 5) \o << a.sync.sbr >>
           \o (IF a.sync.sbr = 1 THEN MCBits(a.sync.ext, 4) ELSE << >>)
           \o (IF a.sync.psSync THEN MCBits(1352, 11) \o << a.sync.ps >>
               ELSE << >>))

MCSyncExts ==
  {[sbr |-> 0, ext |-> 0, psSync |-> FALSE, ps |-> 0]}
  \cup [sbr : {1}, ext : {3, 8, 12}, psSync : {FALSE}, ps : {0}]
  \cup [sbr : {1}, ext : {3, 12}, psSync : {TRUE}, ps : {0, 1}]

MCConfigs ==
  [aot : {AOT_SBR, AOT_PS}, freq : {3, 11, 12}, chan : {0, 2, 9},
   ext : {3, 8, 12}, core : {AOT_AAC_LC}, sync : {Absent}]
  \cup [aot : {1, AOT_AAC_LC}, freq : {3, 11, 12}, chan : {0, 2, 9},
        ext : {0}, core : {0}, sync : {Absent} \cup MCSyncExts]

MCRates == {Absent, [max |-> 0, avg |-> 0], [max |-> 192, avg |-> 0],
            [max |-> 192, avg |-> 64]}

MCEsds(a, after, rates) ==
  [kind |-> "esds", size |-> 40, rates |-> rates,
   csd |-> MCToBytes(MCAscBits(a)), after |-> after, asc |-> a]

\* The key k with the value in vs, or no key when vs is empty.
MCOpt(k, vs) == IF vs = {} THEN << >> ELSE k :> (CHOOSE v \in vs : TRUE)

MCLc == [aot |-> AOT_AAC_LC, freq |-> 3, chan |-> 2, ext |-> 0, core |-> 0,
         sync |-> Absent]

MCAacTracks ==
  {[mime |-> MimeAac, esds |-> MCEsds(a, after, r)]
     @@ MCOpt("bitRate", br) @@ MCOpt("aacAot", aot) :
       a \in MCConfigs, after \in {<< >>, << 6, 1, 2 >>}, r \in MCRates,
       br \in {{}, {128}}, aot \in {{}, {39}}}

MCMalformedTracks ==
  {[mime |-> MimeAac] @@ MCOpt("bitRate", {128})}
  \cup {[mime |-> MimeAac, bitRate |-> 128, esds |-> e] :
          e \in {[MCEsds(MCLc, << >>, Absent) EXCEPT !.kind = "other"],
                 [MCEsds(MCLc, << >>, Absent) EXCEPT !.size = 10],
                 [MCEsds(MCLc, << >>, Absent) EXCEPT !.size = 300],
                 [MCEsds(MCLc, << >>, Absent) EXCEPT !.csd = << 16 >>]}}

MCOtherTracks ==
  {[mime |-> m, sampleRate |-> 44100, channelMask |-> 3] @@ MCOpt("bitRate", br) :
     m \in {"audio/mpeg", "audio/raw", "audio/vorbis", "audio/flac"},
     br \in {{}, {128}}}

MCTracks == MCAacTracks \cup MCMalformedTracks \cup MCOtherTracks
=============================================================================
