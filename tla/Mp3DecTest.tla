----------------------------- MODULE Mp3DecTest -----------------------------
(***************************************************************************)
(* The MP3 decoder test harness, media/libstagefright/codecs/mp3dec/test: *)
(* main() of mp3dec_test.cpp opens the MP3 file with Mp3Reader and the    *)
(* output with WavWriter, decodes frame after frame into the WAV file and *)
(* closes both; WavWriter (wavwriter.cpp) writes the 44-byte RIFF header  *)
(* at init and again, with the final sizes, at close.                      *)
(*                                                                         *)
(* Mp3Reader and the pvmp3 decoder are not in this repository: a read     *)
(* succeeds or fails, a decode succeeds with some output size or fails,   *)
(* as free choices.  The reader returns at most MaxFrames frames (the     *)
(* input file is finite).  The output file is its length and the two size *)
(* fields of the header as last written at offset 0; the other header     *)
(* fields are copies of the reader's rate and channel count and are left  *)
(* out.  uint32_t has SizeBits bits (32 in the code).  Whether assert()   *)
(* is compiled in is a choice of the build, fixed for a behaviour.       *)
(***************************************************************************)
EXTENDS Integers

CONSTANTS
  SizeBits,     \* the width of uint32_t
  FrameSizes,   \* bytes of output one decoded frame writes
  MaxFrames     \* the frames the input file holds, at most

ASSUME SizeBits \in Nat /\ SizeBits > 6
ASSUME FrameSizes \subseteq Nat /\ MaxFrames \in Nat

VARIABLES
  phase,        \* "main", "loop", "close", "exit" or "aborted"
  asserts,      \* assert() is compiled in (no NDEBUG)
  mFile,        \* WavWriter::mFile: "null", "open" or "closed"
  mSize,        \* WavWriter::mSize
  fileLen,      \* the length of the output file
  filePos,      \* the position of mFile
  header,       \* the ChunkSize and Subchunk2Size fields in the file
  framesRead,   \* frames Mp3Reader::getFrame returned
  bytesWritten, \* history: the sizes passed to WavWriter::write, summed
  retVal        \* the exit status main() returns

vars == <<phase, asserts, mFile, mSize, fileLen, filePos, header,
          framesRead, bytesWritten, retVal>>

\* Mutant: a width with no wrap-around.
U32NoWrap(x) == x

U32(x) == x % 2 ^ SizeBits

\* WavWriter::WAV_HEADER_SIZE, wavwriter.cpp line 34.
WAV_HEADER_SIZE == 44

NoHeader == [chunkSize |-> -1, subchunk2Size |-> -1]

MaxOf(a, b) == IF a >= b THEN a ELSE b

\* fwrite of n bytes at the position of mFile.
FileWrite(n) ==
  /\ fileLen' = MaxOf(fileLen, filePos + n)
  /\ filePos' = filePos + n

\* Mutant: Subchunk2Size written as mSize - 8, like ChunkSize.
writeHeaderDataSizeOff(size) ==
  /\ header' = [chunkSize |-> U32(size - 8), subchunk2Size |-> U32(size - 8)]
  /\ fileLen' = MaxOf(fileLen, WAV_HEADER_SIZE)
  /\ filePos' = WAV_HEADER_SIZE

\* Mutant: the header written at the current position, without the fseek.
writeHeaderNoSeek(size) ==
  /\ header' = [chunkSize |-> U32(size - 8),
                subchunk2Size |-> U32(size - WAV_HEADER_SIZE)]
  /\ fileLen' = MaxOf(fileLen, filePos + WAV_HEADER_SIZE)
  /\ filePos' = filePos + WAV_HEADER_SIZE

\* WavWriter::writeHeader, lines 91-113: fseek to 0 and 44 bytes of header
\* whose sizes are mSize - 8 and mSize - WAV_HEADER_SIZE in uint32_t.  The
\* result (25 items counted against 44 bytes) is ignored by every caller.
\* size is the value of mSize the header is written with.
writeHeader(size) ==
  /\ header' = [chunkSize |-> U32(size - 8),
                subchunk2Size |-> U32(size - WAV_HEADER_SIZE)]
  /\ fileLen' = MaxOf(fileLen, WAV_HEADER_SIZE)
  /\ filePos' = WAV_HEADER_SIZE

Init ==
  /\ phase = "main"
  /\ asserts \in BOOLEAN
  /\ mFile = "null"
  /\ mSize = 0
  /\ fileLen = 0
  /\ filePos = 0
  /\ header = NoHeader
  /\ framesRead = 0
  /\ bytesWritten = 0
  /\ retVal = 0

\* mp3dec_test.cpp lines 47-69: wrong argument count, or Mp3Reader::init
\* fails: return -1 before the WavWriter exists.
SetupFails ==
  /\ phase = "main"
  /\ phase' = "exit" /\ retVal' = -1
  /\ UNCHANGED <<asserts, mFile, mSize, fileLen, filePos, header,
                 framesRead, bytesWritten>>

\* Lines 72-77 with WavWriter() and init() (wavwriter.cpp 40-58): fopen
\* "wb" truncates the file and the first header is written with mSize =
\* WAV_HEADER_SIZE.  If fopen fails, main returns -1 and ~WavWriter
\* (lines 36-38) asserts mFile != NULL.
OpenWriter ==
  /\ phase = "main"
  /\ \E opened \in BOOLEAN :
       IF opened
       THEN /\ mFile' = "open"
            /\ mSize' = WAV_HEADER_SIZE
            /\ writeHeader(WAV_HEADER_SIZE)
            /\ phase' = "loop"
            /\ UNCHANGED retVal
       ELSE /\ mSize' = WAV_HEADER_SIZE
            /\ retVal' = -1
            /\ phase' = IF asserts THEN "aborted" ELSE "exit"
            /\ UNCHANGED <<mFile, header, fileLen, filePos>>
  /\ UNCHANGED <<asserts, framesRead, bytesWritten>>

\* Mutant: a failed getFrame does not break out of the loop.
DecodeFrameNoBreak ==
  /\ phase = "loop"
  /\ \/ UNCHANGED <<phase, mSize, fileLen, filePos, framesRead, bytesWritten, retVal>>
     \/ /\ framesRead < MaxFrames
        /\ framesRead' = framesRead + 1
        /\ \/ /\ retVal' = 1
              /\ phase' = "close"
              /\ UNCHANGED <<mSize, fileLen, filePos, bytesWritten>>
           \/ \E n \in FrameSizes :
                /\ mSize' = U32(mSize + n)
                /\ FileWrite(n)
                /\ bytesWritten' = bytesWritten + n
                /\ UNCHANGED <<phase, retVal>>
  /\ UNCHANGED <<asserts, mFile, header>>

\* Lines 89-112: one turn of the decode loop.  A failed getFrame breaks
\* with retVal unchanged; a decoder error sets the bool retVal to -1, that
\* is true, and breaks; a decoded frame goes to WavWriter::write (lines
\* 67-70), which adds its size to mSize and appends it to the file.
DecodeFrame ==
  /\ phase = "loop"
  /\ \/ /\ phase' = "close"
        /\ UNCHANGED <<mSize, fileLen, filePos, framesRead, bytesWritten, retVal>>
     \/ /\ framesRead < MaxFrames
        /\ framesRead' = framesRead + 1
        /\ \/ /\ retVal' = 1
              /\ phase' = "close"
              /\ UNCHANGED <<mSize, fileLen, filePos, bytesWritten>>
           \/ \E n \in FrameSizes :
                /\ mSize' = U32(mSize + n)
                /\ FileWrite(n)
                /\ bytesWritten' = bytesWritten + n
                /\ UNCHANGED <<phase, retVal>>
  /\ UNCHANGED <<asserts, mFile, header>>

\* Lines 114-123: Mp3Reader::close, WavWriter::close (lines 60-65: the
\* header again, then assert and fclose), return retVal, and ~WavWriter,
\* whose assert holds for the non-null, closed mFile.
CloseAndReturn ==
  /\ phase = "close"
  /\ writeHeader(mSize)
  /\ mFile' = "closed"
  /\ phase' = "exit"
  /\ UNCHANGED <<asserts, mSize, framesRead, bytesWritten, retVal>>

Next == SetupFails \/ OpenWriter \/ DecodeFrame \/ CloseAndReturn

\* main() is one sequential thread: until it returns or aborts, it goes on.
Spec == Init /\ [][Next]_vars /\ WF_vars(Next)

(***************************************************************************)
(* Properties.                                                             *)
(***************************************************************************)

TypeOK ==
  /\ phase \in {"main", "loop", "close", "exit", "aborted"}
  /\ asserts \in BOOLEAN
  /\ mFile \in {"null", "open", "closed"}
  /\ mSize \in 0 .. 2 ^ SizeBits - 1
  /\ filePos \in 0 .. fileLen
  /\ bytesWritten \in Nat
  /\ framesRead \in 0 .. MaxFrames
  /\ retVal \in {-1, 0, 1}

\* The WAV file main() leaves behind describes itself: once WavWriter has
\* been closed, the RIFF ChunkSize in the header is the file length less 8
\* and the data Subchunk2Size the file length less the 44-byte header, in
\* uint32_t, however many frames were written and whichever way the loop
\* ended (mSize counted from the constructor through every write()).
HeaderMatchesFile ==
  mFile = "closed" =>
    /\ header.chunkSize = U32(fileLen - 8)
    /\ header.subchunk2Size = U32(fileLen - WAV_HEADER_SIZE)

\* Nothing decoded is lost or overwritten: while WavWriter's file is open,
\* and after it is closed, the file is the 44-byte header followed by every
\* byte handed to WavWriter::write, whichever way the loop ended.  It needs
\* init() to write the header before the first frame, write() to append
\* at the end, and close() to seek back to offset 0 for the second header
\* (line 93) rather than write it after the data.
FileHoldsHeaderAndFrames ==
  mFile # "null" => fileLen = WAV_HEADER_SIZE + bytesWritten

\* main() ends: it returns or aborts, whatever the reader and decoder do.
Terminates == <>(phase \in {"exit", "aborted"})
=============================================================================
