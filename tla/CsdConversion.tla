---------------------------- MODULE CsdConversion ----------------------------
(***************************************************************************)
(* Codec-specific data in media/libstagefright/Utils.cpp.                  *)
(*                                                                         *)
(* convertMetaDataToMessage() turns an AVCDecoderConfigurationRecord      *)
(* (kKeyAVCC) into "csd-0" (the SPS, each behind a 00 00 00 01 start code) *)
(* and "csd-1" (the PPS, likewise), and passes the codec-specific info of *)
(* an ESDS through as "csd-0".  convertMessageToMetaData() goes back:     *)
(* reassembleAVCC() splits csd-0 / csd-1 at start codes and writes a new  *)
(* AVCC record into `char avcc[1024]`; reassembleESDS() wraps csd-0 in a  *)
(* new ES descriptor.                                                     *)
(*                                                                         *)
(* Buffers are byte sequences.  Parameter-set payloads range over the     *)
(* small alphabet Bytes, which holds 0 and 1 so that start codes and their *)
(* near misses can be formed.  A CHECK that fails aborts the process      *)
(* (stage "aborted").                                                     *)
(***************************************************************************)
EXTENDS Integers, Sequences, Bitwise, TLC, ByteOrder

CONSTANTS
  Mimes,         \* [type, lower] records: the class of a mime ("video",
                 \* "audio") and whether its "video/" or "audio/" prefix
                 \* is written in lower case
  KeyInputs,     \* the scalar keys of a video and of an audio MetaData:
                 \* KeyInputs[type] is a set of functions from kKey names
                 \* to int values
  VideoInputs,   \* [hdr, sps, pps, avcc] records: the kKeyAVCC data and
                 \* the parameter sets it was built from
  EsdsInputs,    \* codec-specific infos carried by a kKeyESDS
  VorbisInputs,  \* [info, books, hasBooks]: kKeyVorbisInfo and, when
                 \* hasBooks, kKeyVorbisBooks
  CsdCapacity    \* ABuffer(1024) and char avcc[1024]

VARIABLES
  meta,    \* the MetaData given to convertMetaDataToMessage: its mime,
           \* scalar keys, and which of kKeyAVCC, kKeyESDS or
           \* kKeyVorbisInfo it holds, with that data
  msg,     \* the AMessage it produced: [keys, csd0, csd1, hasCsd1]
  meta2,   \* the MetaData convertMessageToMetaData produced:
           \* [mime, keys, avcc, esds]
  stage    \* "meta", "msg", "meta2", "aborted" (a CHECK failed) or
           \* "failed" (an error status was returned)

vars == <<meta, msg, meta2, stage>>

StartCode == <<0, 0, 0, 1>>
NoBytes   == << >>

\* U16_AT, lines 43-45, at 1-based position i.
U16At(s, i) == U16_AT(SubSeq(s, i, i + 1), 8)

(***************************************************************************)
(* convertMetaDataToMessage, lines 146-223: the AVCC parse.                *)
(***************************************************************************)

\* Lines 174-189 (and 204-219): count length-prefixed sets from position
\* pos, each appended to buf behind a start code.  ok is FALSE when a
\* CHECK fails.
RECURSIVE CopySets(_, _, _, _)
CopySets(data, pos, count, buf) ==
  LET size == Len(data) - pos + 1
  IN  IF count = 0 THEN [ok |-> TRUE, pos |-> pos, buf |-> buf]
      ELSE IF size < 2 THEN [ok |-> FALSE, pos |-> pos, buf |-> buf]
      ELSE LET length == U16At(data, pos)
           IN  IF size - 2 < length
               THEN [ok |-> FALSE, pos |-> pos, buf |-> buf]
               ELSE CopySets(data, pos + 2 + length, count - 1,
                             buf \o StartCode
                                 \o SubSeq(data, pos + 2, pos + 1 + length))

ParseAvcc(data) ==
  LET abort == [ok |-> FALSE, csd0 |-> NoBytes, csd1 |-> NoBytes]
  IN  IF Len(data) < 7 \/ data[1] # 1 THEN abort
      ELSE LET sps == CopySets(data, 7, data[6] & 31, NoBytes)
           IN  IF ~sps.ok \/ Len(data) - sps.pos + 1 < 1 THEN abort
               ELSE LET pps == CopySets(data, sps.pos + 1, data[sps.pos], NoBytes)
                    IN  IF ~pps.ok THEN abort
                        ELSE [ok |-> TRUE, csd0 |-> sps.buf, csd1 |-> pps.buf]

(***************************************************************************)
(* reassembleAVCC, lines 266-333.                                          *)
(***************************************************************************)

\* Mutant of SplitParams: the set starts at the start code, not after it.
RECURSIVE SplitParamsFromStartCode(_, _, _, _)
SplitParamsFromStartCode(csd, i, last, acc) ==
  LET size  == Len(csd)
      atEnd == size >= 4 /\ i >= size - 4
      match == i + 4 <= size /\ SubSeq(csd, i + 1, i + 4) = StartCode
  IN  IF atEnd \/ match
      THEN LET i1   == IF atEnd THEN size ELSE i
               acc1 == IF last > 0 THEN Append(acc, SubSeq(csd, last + 1, i1))
                       ELSE acc
           IN  IF i1 + 4 < size THEN SplitParamsFromStartCode(csd, i1 + 4, i1, acc1)
               ELSE acc1
      ELSE IF i + 1 < size THEN SplitParamsFromStartCode(csd, i + 1, last, acc)
      ELSE acc

\* One do-while loop of lines 278-299 (or 309-330) from index i (0-based,
\* as in C) with lastparamoffset = last; acc collects the sets found.
\* `csd->size() - 4` is a size_t: below 4 bytes it wraps and the end test
\* fails.  memcmp past the end (only on a buffer under 4 bytes) is taken as
\* no match: either outcome ends the loop without emitting a set there.
RECURSIVE SplitParams(_, _, _, _)
SplitParams(csd, i, last, acc) ==
  LET size  == Len(csd)
      atEnd == size >= 4 /\ i >= size - 4
      match == i + 4 <= size /\ SubSeq(csd, i + 1, i + 4) = StartCode
  IN  IF atEnd \/ match
      THEN LET i1   == IF atEnd THEN size ELSE i
               acc1 == IF last > 0 THEN Append(acc, SubSeq(csd, last + 1, i1))
                       ELSE acc
           IN  IF i1 + 4 < size THEN SplitParams(csd, i1 + 4, i1 + 4, acc1)
               ELSE acc1
      ELSE IF i + 1 < size THEN SplitParams(csd, i + 1, last, acc)
      ELSE acc

\* Each set behind its two-byte big-endian length (lines 288-291).
LengthPrefixed(sets) ==
  LET RECURSIVE Cat(_)
      Cat(s) == IF s = << >> THEN NoBytes
                ELSE << (Len(Head(s)) \div 256) % 256, Len(Head(s)) % 256 >>
                     \o Head(s) \o Cat(Tail(s))
  IN  Cat(sets)

ReassembleAvcc(csd0, csd1) ==
  LET sps == SplitParams(csd0, 0, 0, << >>)
      pps == SplitParams(csd1, 0, 0, << >>)
  IN  << 1, 100, 0, 13, 255, 224 | (Len(sps) % 256) >>
      \o LengthPrefixed(sps) \o << Len(pps) % 256 >> \o LengthPrefixed(pps)

(***************************************************************************)
(* reassembleESDS, lines 335-373.                                          *)
(***************************************************************************)

\* The four bytes of a descriptor size, 7 bits each, high first.
SizeBytes(s) ==
  << 128 | (s \div 2097152), 128 | ((s \div 16384) & 127),
     128 | ((s \div 128) & 127), s & 127 >>

\* Mutant of ReassembleEsds: the ES descriptor size one short.
ReassembleEsdsShort(csd0) ==
  LET n == Len(csd0)
  IN  << 3 >> \o SizeBytes(25 + n) \o << 0, 0, 0, 4 >> \o SizeBytes(18 + n)
      \o << 64, 21, 0, 24, 0, 0, 0, 250, 0, 0, 0, 250, 0, 5 >>
      \o SizeBytes(n) \o csd0

ReassembleEsds(csd0) ==
  LET n == Len(csd0)
  IN  << 3 >> \o SizeBytes(26 + n) \o << 0, 0, 0, 4 >> \o SizeBytes(18 + n)
      \o << 64, 21, 0, 24, 0, 0, 0, 250, 0, 0, 0, 250, 0, 5 >>
      \o SizeBytes(n) \o csd0

(***************************************************************************)
(* The scalar keys.  A container is a function from key names to values; *)
(* an absent key is outside its DOMAIN.                                   *)
(***************************************************************************)

NoKeys == [k \in {} |-> 0]

\* strncasecmp("video/", mime, 6) (lines 96, 110): the prefix in any case.
MimeIsNoCase(mime, type) == mime.type = type

\* AString::startsWith("video/") (lines 393, 409, 445, 452): lower case.
MimeStartsWith(mime, type) == mime.type = type /\ mime.lower

\* `if (src->findInt32(from, &v)) dst->setInt32(to, v);`
CopyKey(src, from, to) == IF from \in DOMAIN src THEN to :> src[from] ELSE NoKeys

HasBoth(src, a, b) == a \in DOMAIN src /\ b \in DOMAIN src

\* The CHECKs of lines 81, 98-99 and 112-113: a video track must have
\* kKeyWidth and kKeyHeight, an audio track kKeyChannelCount and
\* kKeySampleRate (the mime itself is always present here).
ScalarsChecked(m) ==
  /\ MimeIsNoCase(m.mime, "video") => HasBoth(m.keys, "kKeyWidth", "kKeyHeight")
  /\ MimeIsNoCase(m.mime, "audio") =>
       HasBoth(m.keys, "kKeyChannelCount", "kKeySampleRate")

\* Lines 83-142: the keys convertMetaDataToMessage sets.  A non-zero
\* kKeyIsSyncFrame becomes 1, a pair of SAR keys is copied only whole, and
\* any kKeyIsADTS becomes "is-adts" = true.
ScalarsToMessage(m) ==
  LET k == m.keys
      sync  == IF "kKeyIsSyncFrame" \in DOMAIN k /\ k["kKeyIsSyncFrame"] # 0
               THEN "is-sync-frame" :> 1 ELSE NoKeys
      video == CopyKey(k, "kKeyWidth", "width") @@ CopyKey(k, "kKeyHeight", "height")
               @@ (IF HasBoth(k, "kKeySARWidth", "kKeySARHeight")
                   THEN CopyKey(k, "kKeySARWidth", "sar-width")
                        @@ CopyKey(k, "kKeySARHeight", "sar-height")
                   ELSE NoKeys)
      audio == CopyKey(k, "kKeyChannelCount", "channel-count")
               @@ CopyKey(k, "kKeySampleRate", "sample-rate")
               @@ CopyKey(k, "kKeyChannelMask", "channel-mask")
               @@ CopyKey(k, "kKeyEncoderDelay", "encoder-delay")
               @@ CopyKey(k, "kKeyEncoderPadding", "encoder-padding")
               @@ (IF "kKeyIsADTS" \in DOMAIN k THEN "is-adts" :> 1 ELSE NoKeys)
  IN  ("mime" :> m.mime) @@ CopyKey(k, "kKeyDuration", "durationUs") @@ sync
      @@ (CASE MimeIsNoCase(m.mime, "video") -> video
            [] MimeIsNoCase(m.mime, "audio") -> audio
            [] OTHER -> NoKeys)
      @@ CopyKey(k, "kKeyMaxInputSize", "max-input-size")

\* Lines 375-441: the keys convertMessageToMetaData sets.  Width and
\* height are copied only as a pair; the audio keys one by one, "is-adts"
\* with its value.
ScalarsToMetaData(k) ==
  LET mime  == k["mime"]
      sync  == IF "is-sync-frame" \in DOMAIN k /\ k["is-sync-frame"] # 0
               THEN "kKeyIsSyncFrame" :> 1 ELSE NoKeys
      video == (IF HasBoth(k, "width", "height")
                THEN CopyKey(k, "width", "kKeyWidth") @@ CopyKey(k, "height", "kKeyHeight")
                ELSE NoKeys)
               @@ (IF HasBoth(k, "sar-width", "sar-height")
                   THEN CopyKey(k, "sar-width", "kKeySARWidth")
                        @@ CopyKey(k, "sar-height", "kKeySARHeight")
                   ELSE NoKeys)
      audio == CopyKey(k, "channel-count", "kKeyChannelCount")
               @@ CopyKey(k, "sample-rate", "kKeySampleRate")
               @@ CopyKey(k, "channel-mask", "kKeyChannelMask")
               @@ CopyKey(k, "encoder-delay", "kKeyEncoderDelay")
               @@ CopyKey(k, "encoder-padding", "kKeyEncoderPadding")
               @@ CopyKey(k, "is-adts", "kKeyIsADTS")
  IN  CopyKey(k, "durationUs", "kKeyDuration") @@ sync
      @@ (CASE MimeStartsWith(mime, "video") -> video
            [] MimeStartsWith(mime, "audio") -> audio
            [] OTHER -> NoKeys)
      @@ CopyKey(k, "max-input-size", "kKeyMaxInputSize")

(***************************************************************************)
(* The two conversions.                                                    *)
(***************************************************************************)

\* Lines 143-262: the csd a MetaData yields.  An AVCC record is split into
\* csd-0 / csd-1 (a failed CHECK aborts), an ESDS passes its
\* codec-specific info as csd-0 whatever the mime, Vorbis info and books
\* become csd-0 and csd-1, and missing books return -EINVAL.
CsdToMessage(m) ==
  CASE m.key = "avcc" ->
         LET r == ParseAvcc(m.in.avcc)
         IN  [status |-> IF r.ok THEN "ok" ELSE "aborted",
              csd0 |-> r.csd0, csd1 |-> r.csd1, hasCsd1 |-> TRUE]
    [] m.key = "esds" ->
         [status |-> "ok", csd0 |-> m.in, csd1 |-> NoBytes, hasCsd1 |-> FALSE]
    [] m.key = "vorbis" ->
         [status |-> IF m.in.hasBooks THEN "ok" ELSE "failed",
          csd0 |-> m.in.info, csd1 |-> m.in.books, hasCsd1 |-> m.in.hasBooks]

CsdInputs ==
  {[key |-> "avcc", in |-> v] : v \in VideoInputs}
  \cup {[key |-> "esds", in |-> e] : e \in EsdsInputs}
  \cup {[key |-> "vorbis", in |-> v] : v \in VorbisInputs}

\* An AVCC record comes with a video mime, Vorbis data with an audio one;
\* an ESDS with either.
Init ==
  /\ meta \in {m \in UNION {{[mime |-> mm, keys |-> k, key |-> c.key, in |-> c.in] :
                               k \in KeyInputs[mm.type], c \in CsdInputs} :
                              mm \in Mimes} :
                /\ m.key = "avcc" => m.mime.type = "video"
                /\ m.key = "vorbis" => m.mime.type = "audio"}
  /\ msg = [keys |-> NoKeys, csd0 |-> NoBytes, csd1 |-> NoBytes, hasCsd1 |-> FALSE]
  /\ meta2 = [mime |-> "none", keys |-> NoKeys, avcc |-> NoBytes, esds |-> NoBytes]
  /\ stage = "meta"

\* convertMetaDataToMessage, lines 76-265: the CHECKs on the scalar keys
\* come first, then the csd; the message is returned only when both
\* succeed.
ConvertMetaDataToMessage ==
  /\ stage = "meta"
  /\ LET r == CsdToMessage(meta)
     IN  IF ~ScalarsChecked(meta) \/ r.status # "ok"
         THEN /\ stage' = IF ScalarsChecked(meta) THEN r.status ELSE "aborted"
              /\ UNCHANGED msg
         ELSE /\ msg' = [keys |-> ScalarsToMessage(meta), csd0 |-> r.csd0,
                         csd1 |-> r.csd1, hasCsd1 |-> r.hasCsd1]
              /\ stage' = "msg"
  /\ UNCHANGED <<meta, meta2>>

\* convertMessageToMetaData, lines 374-458, on the message's own mime.
ConvertMessageToMetaData ==
  /\ stage = "msg"
  /\ LET mime == msg.keys["mime"]
     IN  meta2' =
           [mime |-> mime, keys |-> ScalarsToMetaData(msg.keys),
            avcc |-> IF MimeStartsWith(mime, "video") /\ msg.hasCsd1
                     THEN ReassembleAvcc(msg.csd0, msg.csd1) ELSE NoBytes,
            esds |-> IF MimeStartsWith(mime, "audio")
                     THEN ReassembleEsds(msg.csd0) ELSE NoBytes]
  /\ stage' = "meta2"
  /\ UNCHANGED <<meta, msg>>

Next == ConvertMetaDataToMessage \/ ConvertMessageToMetaData

Spec == Init /\ [][Next]_vars

(***************************************************************************)
(* Reference readers, written from ISO/IEC 14496-15 (AVCC) and 14496-1    *)
(* (expandable descriptor sizes), independently of the code above.        *)
(***************************************************************************)

\* The sets of an AVCC record after the 6-byte header: count sets, each a
\* 16-bit length and that many bytes, from position pos.
RECURSIVE ReadSets(_, _, _)
ReadSets(b, pos, count) ==
  IF count = 0 THEN [sets |-> << >>, next |-> pos]
  ELSE LET len  == U16At(b, pos)
           rest == ReadSets(b, pos + 2 + len, count - 1)
       IN  [sets |-> << SubSeq(b, pos + 2, pos + 1 + len) >> \o rest.sets,
            next |-> rest.next]

ReadAvcc(b) ==
  LET sps == ReadSets(b, 7, b[6] % 32)
      pps == ReadSets(b, sps.next + 1, b[sps.next])
  IN  [sps |-> sps.sets, pps |-> pps.sets]

\* An expandable size at position pos (four bytes here).
ReadSize(b, pos) ==
  ((b[pos] % 128) * 128 + (b[pos + 1] % 128)) * 16384
    + (b[pos + 2] % 128) * 128 + (b[pos + 3] % 128)

\* A NAL unit as H.264 allows it in a parameter set: not empty, and with
\* no start code inside (emulation prevention forbids 00 00 00 .. 03).
ValidNal(p) ==
  /\ p # << >>
  /\ \A k \in 1 .. Len(p) - 3 : SubSeq(p, k, k + 3) # StartCode

AllValidNal(sets) == \A i \in 1 .. Len(sets) : ValidNal(sets[i])

(***************************************************************************)
(* Properties.                                                             *)
(***************************************************************************)

\* AVCC round trip: when every SPS and PPS is a valid NAL unit, the record
\* reassembled from csd-0 / csd-1 carries exactly the original parameter
\* sets, in order -- the start-code split at lines 278-299 finds every
\* boundary and no other, including at the end of the buffer.
ParameterSetsRoundTrip ==
  (stage = "meta2" /\ meta.key = "avcc"
     /\ AllValidNal(meta.in.sps) /\ AllValidNal(meta.in.pps))
  => ReadAvcc(meta2.avcc) = [sps |-> meta.in.sps, pps |-> meta.in.pps]

\* ESDS round trip: the ES descriptor reassembled for audio declares
\* sizes that match the bytes that follow each size field, and its
\* DecoderSpecificInfo is the original codec-specific info.
EsdsRoundTrip ==
  (stage = "meta2" /\ meta.key = "esds" /\ meta.mime.type = "audio") =>
    LET e == meta2.esds
    IN  /\ e[1] = 3 /\ ReadSize(e, 2) = Len(e) - 5
        /\ e[9] = 4 /\ ReadSize(e, 10) = Len(e) - 13
        /\ e[27] = 5 /\ ReadSize(e, 28) = Len(e) - 31
        /\ SubSeq(e, 32, Len(e)) = meta.in

\* The scalar keys as their readers see them: kKeyIsSyncFrame and
\* kKeyIsADTS are flags (`findInt32(key, &v) && v != 0`), absent when 0.
Flags == {"kKeyIsSyncFrame", "kKeyIsADTS"}

AsRead(keys) ==
  [k \in {j \in DOMAIN keys : j \in Flags => keys[j] # 0} |->
     IF k \in Flags THEN 1 ELSE keys[k]]

\* The kind of codec-specific data a converted-back MetaData holds.
CsdKind(m2) ==
  CASE m2.avcc # NoBytes -> "avcc" [] m2.esds # NoBytes -> "esds" [] OTHER -> "none"

\* "reassemble the csd data into its original form" (line 442), with the
\* key-by-key copies of lines 374-441: a MetaData converted to an AMessage
\* and back has the same mime, the same scalar keys with the same values,
\* and its codec-specific data under the same kind of key.
MetaDataRoundTrip ==
  stage = "meta2" =>
    /\ meta2.mime = meta.mime
    /\ AsRead(meta2.keys) = AsRead(meta.keys)
    /\ CsdKind(meta2) = meta.key

\* For an AVCC record, neither the csd ABuffers (1024 bytes, lines 171
\* and 196) nor the reassembly buffer avcc[1024] (line 448) is written past
\* its end.  (The audio csd buffer is sized to its data, line 231.)
CsdWithinCapacity ==
  meta.key = "avcc" =>
    /\ Len(msg.csd0) <= CsdCapacity /\ Len(msg.csd1) <= CsdCapacity
    /\ Len(meta2.avcc) <= CsdCapacity
=============================================================================
