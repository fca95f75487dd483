----------------------------- MODULE AlsaSetup -----------------------------
(***************************************************************************)
(* How a new AlsaPlaybackService learns from libsndfile what a file holds, *)
(* and tells ALSA what it will be given.  The bytes of the file go to ALSA *)
(* as they are (readRaw, snd_pcm_writei): the song sounds right only when  *)
(* the two agree on every sample.  libsndfile and ALSA are external.       *)
(***************************************************************************)
EXTENDS Integers

CONSTANTS MajorTypes, MinorTypes,  \* what libsndfile may say of a file
          Channels,                \* numbers of channels of a file
          TransferBufferSize       \* bytes; the code has 65536

ASSUME ChannelsAssumption == Channels \subseteq Nat \ {0}
ASSUME BufferAssumption == TransferBufferSize \in Nat

\* What a sample of a minor type is; types that are no key are not supported.
\* "WAV" files of 8 bits are "PCM_U8", which is none of these.
SampleOf ==
    [PCM_S8 |-> [type |-> "signed", bytes |-> 1],
     PCM_16 |-> [type |-> "signed", bytes |-> 2],
     PCM_24 |-> [type |-> "signed", bytes |-> 3],
     PCM_32 |-> [type |-> "signed", bytes |-> 4],
     FLOAT  |-> [type |-> "float", bytes |-> 4],
     DOUBLE |-> [type |-> "float", bytes |-> 8]]

\* Whether a file of a major type is little endian, in the eyes of the code.
LittleOf == [WAV |-> TRUE, AIFF |-> FALSE]

\* The header also says in which order the bytes really are: there are big endian
\* WAV files (RIFX) and little endian AIFF files (AIFF-C with sowt).
\* Signed samples of 8 bits are found in AIFF files only.
SoundFiles ==
    {f \in [major : MajorTypes, minor : MinorTypes, little : BOOLEAN,
            channels : Channels] : f.minor = "PCM_S8" => f.major = "AIFF"}

VARIABLES file,      \* the file to be played
          stage,     \* how far the constructor has come
          sample,    \* sample_type_, bytes_per_sample_, is_endian_little_
          bytes_per_frame_, frames_capacity_in_buffer_,
          format     \* the format of the device, or NoFormat

vars == <<file, stage, sample, bytes_per_frame_, frames_capacity_in_buffer_, format>>

Sample(type, bytes, little) == [type |-> type, bytes |-> bytes, little |-> little]
NoFormat == Sample("none", 0, TRUE)

Init ==
    /\ file \in SoundFiles
    /\ stage = "new"
    /\ sample = Sample("signed", 2, TRUE)
    /\ bytes_per_frame_ = 1 /\ frames_capacity_in_buffer_ = 0
    /\ format = NoFormat

\* An exception leaves the constructor; the controller reports it.
Throws == stage' = "failed" /\ UNCHANGED <<file, sample, bytes_per_frame_,
                                           frames_capacity_in_buffer_, format>>

Supported == file.minor \in DOMAIN SampleOf /\ file.major \in DOMAIN LittleOf

InitSndFile ==
    /\ stage = "new" /\ Supported
    /\ LET s == SampleOf[file.minor] IN
           /\ sample' = Sample(s.type, s.bytes, LittleOf[file.major])
           /\ bytes_per_frame_' = file.channels * s.bytes
    /\ frames_capacity_in_buffer_' = TransferBufferSize \div bytes_per_frame_'
    /\ stage' = "read"
    /\ UNCHANGED <<file, format>>

\* The file cannot be opened, or is in an unsupported format.
InitSndFileThrows == stage = "new" /\ Throws

\* Faulty variants: floats of eight bytes are forgotten; the byte order of the
\* second half of the table is the one of the first.
KnownWithoutDoubles(type, bytes) == bytes \in 1..4
LittleOnly(s) == [s EXCEPT !.little = TRUE]

KnownToAlsa(type, bytes) ==
    IF type = "float" THEN bytes \in {4, 8} ELSE bytes \in 1..4

AlsaFormat(s) == s

\* SND_PCM_FORMAT_S24_LE and its like hold three bytes in four; the others are as
\* wide as they say.
PhysicalBytes(f) == IF f.bytes = 3 THEN 4 ELSE f.bytes

\* Open, the hardware and the software parameters, prepare.  ALSA takes frame
\* rate and number of channels as the header has them, or refuses.
InitAlsa ==
    /\ stage = "read" /\ KnownToAlsa(sample.type, sample.bytes)
    /\ format' = AlsaFormat(sample)
    /\ stage' = "initialized"
    /\ UNCHANGED <<file, sample, bytes_per_frame_, frames_capacity_in_buffer_>>

\* One of these calls fails.
InitAlsaThrows == stage = "read" /\ Throws

Next == InitSndFile \/ InitSndFileThrows \/ InitAlsa \/ InitAlsaThrows

Spec == Init /\ [][Next]_vars

-----------------------------------------------------------------------------
(* Properties.                                                              *)

\* The two tables belong together: for what InitSndFile accepts, GetFormatForAlsa has a
\* format.  (The device may still refuse that format, or the frame rate.)
AcceptedHasFormat == stage = "read" => KnownToAlsa(sample.type, sample.bytes)

\* Whether ALSA takes a sample for what it is in the file: its kind, its width, and the
\* order of its bytes, if it has more than one.
SameKind ==
    format.type = IF file.minor \in {"FLOAT", "DOUBLE"} THEN "float" ELSE "signed"

SameWidth == PhysicalBytes(format) * file.channels = bytes_per_frame_

SameOrder == format.bytes = 1 \/ format.little = file.little

\* Which files are played as what they are not, of all that are played: those packed in
\* 24 bits, whose samples are taken to be wider, and the big endian WAV files and little
\* endian AIFF files, whose bytes are swapped, although the header is read for "1.5
\* Endianness".  All others are taken for what they are, and nobody's floats for integers.
MisreadFilesAreKnown ==
    stage = "initialized" =>
        /\ SameKind
        /\ SameWidth <=> file.minor # "PCM_24"
        /\ SameOrder <=> file.minor = "PCM_S8" \/ file.little = (file.major = "WAV")

\* The buffer holds frames_capacity_in_buffer_ frames ("how many frames can be
\* stored in a buffer with size TRANSFER_BUFFER_SIZE"), as ALSA reads them from it.
BufferHoldsCapacity ==
    stage = "initialized" =>
        frames_capacity_in_buffer_ * PhysicalBytes(format) * file.channels
            <= TransferBufferSize

=============================================================================
