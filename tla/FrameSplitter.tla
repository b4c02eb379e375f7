---------------------------- MODULE FrameSplitter ----------------------------
(***************************************************************************)
(* The MPEG-4 / H.263 decoder test harness,                                *)
(* media/libstagefright/codecs/m4v_h263/dec/test/m4v_h263_dec_test.cpp:    *)
(* main() sniffs the stream type from the first three bytes, rewinds,     *)
(* reads the VOL header (MPEG-4 only), initialises the decoder and then    *)
(* splits the file into frames at start codes, one readTillNextFrame*()    *)
(* and one PVDecodeVideoFrame() per loop iteration.                        *)
(*                                                                         *)
(* The file is a byte sequence fixed for the run, read through the FILE   *)
(* position `pos` (bytes consumed, 0-based as ftell would say).  The       *)
(* decoder is a collaborator whose success or failure is a free choice.    *)
(* fopen, malloc and the argument checks are one "fails before reading"   *)
(* step.  The program is sequential; each step is a whole statement group *)
(* of main() between two reads of the file.                                *)
(***************************************************************************)
EXTENDS Integers, Sequences, SequencesExt, Bitwise

CONSTANTS
  Files,            \* the input files a run may be given
  Garbage           \* the values an uninitialised stack byte may hold

VARIABLES
  file,         \* the input file's contents
  pos,          \* the FILE position of fpInput
  mode,         \* "mpeg4" or "h263", from the first three bytes
  phase,        \* "start", "header", "init", "loop" or "exit"
  frames,       \* the frames readTillNextFrame returned, in order
  eof,          \* isEofReached
  retVal,       \* the exit status main() returns
  decodeError   \* "Error decoding frame" was printed

vars == <<file, pos, mode, phase, frames, eof, retVal, decodeError>>

VopStartCode == << 0, 0, 1, 182 >>   \* 00 00 01 B6

\* H.263 picture start code: 0000 0000 0000 0000 1000 00xx.
IsPsc(a, b, c) == a = 0 /\ b = 0 /\ (c & 252) = 128

Failed(p) == [ok |-> FALSE, frame |-> << >>, next |-> p, eof |-> FALSE]

(***************************************************************************)
(* readTillNextFrameMpeg4, lines 43-94.  Four bytes, the start code, are  *)
(* read into buf, then three into nextBytes; fewer than two of those is a *)
(* failure, exactly two make a six-byte last frame.  Otherwise a window    *)
(* of four bytes slides until it holds a VOP start code, which is seeked  *)
(* back over, or until end of file.  The first such window, at 1-based    *)
(* file index j >= p + 5, ends the frame at j - 1.                         *)
(***************************************************************************)

\* Mutant: the seek back is one byte short.
ReadTillNextFrameMpeg4SeekBack3(f, p) ==
  LET rest   == Len(f) - p
      starts == {j \in p + 5 .. Len(f) - 3 : SubSeq(f, j, j + 3) = VopStartCode}
  IN  IF rest < 4 \/ rest - 4 < 2 THEN Failed(Len(f))
      ELSE IF starts = {}
      THEN [ok |-> TRUE, frame |-> SubSeq(f, p + 1, Len(f)), next |-> Len(f),
            eof |-> TRUE]
      ELSE [ok |-> TRUE, frame |-> SubSeq(f, p + 1, Min(starts) - 1),
            next |-> Min(starts), eof |-> FALSE]

ReadTillNextFrameMpeg4(f, p) ==
  LET rest   == Len(f) - p
      starts == {j \in p + 5 .. Len(f) - 3 : SubSeq(f, j, j + 3) = VopStartCode}
  IN  IF rest < 4 \/ rest - 4 < 2 THEN Failed(Len(f))
      ELSE IF starts = {}
      THEN [ok |-> TRUE, frame |-> SubSeq(f, p + 1, Len(f)), next |-> Len(f),
            eof |-> TRUE]
      ELSE [ok |-> TRUE, frame |-> SubSeq(f, p + 1, Min(starts) - 1),
            next |-> Min(starts) - 1, eof |-> FALSE]

(***************************************************************************)
(* readTillNextFrameH263, lines 96-137: the same with a three-byte window *)
(* (two bytes held in nextBytes[0..1], the third read into nextBytes[2]). *)
(* At end of file it still appends nextBytes[0..2]: nextBytes[2] is the   *)
(* last byte read again, or, when no byte was read into it (exactly five  *)
(* bytes left), an uninitialised stack byte g.                            *)
(***************************************************************************)
ReadTillNextFrameH263(f, p, g) ==
  LET rest   == Len(f) - p
      starts == {j \in p + 4 .. Len(f) - 2 : IsPsc(f[j], f[j + 1], f[j + 2])}
      stale  == IF rest = 5 THEN g ELSE f[Len(f)]
  IN  IF rest < 5 THEN Failed(Len(f))
      ELSE IF starts = {}
      THEN [ok |-> TRUE, frame |-> SubSeq(f, p + 1, Len(f)) \o << stale >>,
            next |-> Len(f), eof |-> TRUE]
      ELSE [ok |-> TRUE, frame |-> SubSeq(f, p + 1, Min(starts) - 1),
            next |-> Min(starts) - 1, eof |-> FALSE]

\* The function main() bound to readTillNextFrame (lines 217, 227).
ReadTillNextFrame(f, p, g) ==
  IF mode = "mpeg4" THEN ReadTillNextFrameMpeg4(f, p)
  ELSE ReadTillNextFrameH263(f, p, g)

(***************************************************************************)
(* main(), lines 140-277.                                                  *)
(***************************************************************************)

Init ==
  /\ file \in Files
  /\ pos = 0
  /\ mode = "mpeg4"
  /\ phase = "start"
  /\ frames = << >>
  /\ eof = FALSE
  /\ retVal = 0
  /\ decodeError = FALSE

\* Lines 142-178: bad arguments, or fopen of either file fails.
StartFails ==
  /\ phase = "start"
  /\ phase' = "exit" /\ retVal' = 1
  /\ UNCHANGED <<file, pos, mode, frames, eof, decodeError>>

\* Lines 197-213: three bytes sniffed, then fseek(fpInput, SEEK_SET, 0),
\* whose swapped arguments still mean offset 0 from SEEK_SET (both are 0).
DetectMode ==
  /\ phase = "start"
  /\ IF Len(file) < 3
     THEN /\ phase' = "exit" /\ retVal' = 1
          /\ UNCHANGED <<pos, mode>>
     ELSE /\ mode' = IF IsPsc(file[1], file[2], file[3]) THEN "h263" ELSE "mpeg4"
          /\ pos' = 0
          /\ phase' = IF mode' = "mpeg4" THEN "header" ELSE "init"
          /\ UNCHANGED retVal
  /\ UNCHANGED <<file, frames, eof, decodeError>>

\* Lines 216-225: the VOL header is the first "frame" of an MPEG-4 file.
ReadHeader ==
  /\ phase = "header"
  /\ LET r == ReadTillNextFrameMpeg4(file, pos)
     IN  IF r.ok
         THEN /\ frames' = << r.frame >> /\ pos' = r.next /\ eof' = r.eof
              /\ phase' = "init"
              /\ UNCHANGED retVal
         ELSE /\ pos' = r.next /\ phase' = "exit" /\ retVal' = 1
              /\ UNCHANGED <<frames, eof>>
  /\ UNCHANGED <<file, mode, decodeError>>

\* Lines 231-238, then the loop test of line 243.
InitDecoder ==
  /\ phase = "init"
  /\ \E pvSuccess \in BOOLEAN :
       IF pvSuccess
       THEN /\ phase' = (IF eof THEN "exit" ELSE "loop")
            /\ UNCHANGED retVal
       ELSE /\ phase' = "exit" /\ retVal' = 1
  /\ UNCHANGED <<file, pos, mode, frames, eof, decodeError>>

\* Mutant of DecodeFrame: no break after "Error reading input file".
DecodeFrameNoBreak ==
  /\ phase = "loop"
  /\ \E g \in Garbage, decoded \in BOOLEAN :
       LET r == ReadTillNextFrame(file, pos, g)
       IN  /\ pos' = r.next
           /\ IF ~r.ok
              THEN /\ retVal' = 1
                   /\ UNCHANGED <<phase, frames, eof, decodeError>>
              ELSE /\ frames' = Append(frames, r.frame)
                   /\ eof' = r.eof
                   /\ decodeError' = ~decoded
                   /\ phase' = IF ~decoded \/ r.eof THEN "exit" ELSE "loop"
                   /\ UNCHANGED retVal
  /\ UNCHANGED <<file, mode>>

\* Lines 243-265: one iteration of the frame loop, and its loop test.
DecodeFrame ==
  /\ phase = "loop"
  /\ \E g \in Garbage, decoded \in BOOLEAN :
       LET r == ReadTillNextFrame(file, pos, g)
       IN  /\ pos' = r.next
           /\ IF ~r.ok
              THEN /\ retVal' = 1 /\ phase' = "exit"
                   /\ UNCHANGED <<frames, eof, decodeError>>
              ELSE /\ frames' = Append(frames, r.frame)
                   /\ eof' = r.eof
                   /\ decodeError' = ~decoded
                   /\ phase' = IF ~decoded \/ r.eof THEN "exit" ELSE "loop"
                   /\ UNCHANGED retVal
  /\ UNCHANGED <<file, mode>>

Next == StartFails \/ DetectMode \/ ReadHeader \/ InitDecoder \/ DecodeFrame

\* main() is one sequential thread: while it has not returned, it goes on.
Spec == Init /\ [][Next]_vars /\ WF_vars(Next)

(***************************************************************************)
(* Properties.                                                             *)
(***************************************************************************)

\* Frame splitting loses, duplicates and invents no byte: unless main() is
\* failing, the frames handed to the decoder so far, in order, are exactly
\* the part of the file read so far (the seek back over the next start
\* code and the bytes flushed at end of file included).
FramesConcatenate ==
  retVal = 0 => FlattenSeq(frames) = SubSeq(file, 1, pos)

\* main() returns: the frame loop of lines 243-265 advances through the
\* file and never re-reads the same frame forever.
Terminates == <>(phase = "exit")
=============================================================================
