--------------------- MODULE AlsaPlaybackService_proofs ---------------------
(***************************************************************************)
(* Proofs about AlsaPlaybackService, for files, offsets, frame rates and   *)
(* buffers of any size, and for any course of the device.                  *)
(***************************************************************************)
EXTENDS AlsaPlaybackService, SequenceTheorems, TLAPS

USE TotalAssumption, FrameRateAssumption, CapacityAssumption, BufferSizeAssumption,
    MinDelayAssumption

-----------------------------------------------------------------------------
(* The inductive invariant.                                                 *)

\* A device that plays has something to play, and one that was not started holds
\* nothing; no song is over while it could still be heard.
DeviceInv ==
    /\ device = "running" => heard < Len(delivered)
    /\ device = "xrun" => heard = Len(delivered)
    /\ device = "prepared" =>
          Len(delivered) = 0 /\ audio_start_time_ms_since_epoch_ = 0
    /\ pc = "none" => Len(delivered) = 0
    /\ pc \in {"leaving", "posted", "exited"} => device \notin {"running", "prepared"}

\* The ring buffer has room for what it is given.
RoomInv ==
    /\ Buffered <= BufferSize
    /\ pc = "write" => Buffered + Len(chunk) <= BufferSize

\* The drain begins behind the end of the file.
HandlerInv ==
    /\ pc = "write" => next = "transfer"
    /\ next = "drain" => pc \in {"run", "delay", "clock"} /\ curr_position_frames_ >= Total
    /\ pc \in {"drop", "leaving", "posted", "exited"} => ios_stopped

\* A chunk holds what belongs at the current position, and the file is behind it.
ChunkInv ==
    pc = "write" =>
        /\ curr_position_frames_ < 0 =>
              /\ cursor = 0
              /\ Len(chunk) <= -curr_position_frames_
              /\ \A i \in 1..Len(chunk) : chunk[i] = Silence
        /\ curr_position_frames_ >= 0 =>
              /\ cursor = MinOf(curr_position_frames_ + Len(chunk), Total)
              /\ \A i \in 1..Len(chunk) :
                    curr_position_frames_ + i - 1 < Total
                        => chunk[i] = curr_position_frames_ + i - 1

\* The device is never ahead of the clock, nor is the answer of snd_pcm_delay.
TimeInv ==
    /\ Len(delivered) > 0 => FirstPosition + heard <= now - true_start
    /\ pc = "clock" => /\ Len(delivered) > 0
                       /\ curr_position_frames_ - delay <= now - true_start

IInv ==
    /\ TypeOK
    /\ DeviceInv
    /\ RoomInv
    /\ HandlerInv
    /\ ChunkInv
    /\ FileFollowsPosition
    /\ FramesInOrder
    /\ TimeInv
    /\ StartTimeNeverEarly

-----------------------------------------------------------------------------
(* Frames and milliseconds.                                                 *)

LEMMA Division ==
    ASSUME NEW a \in Nat, NEW b \in Nat \ {0}
    PROVE  a \div b \in Nat /\ (a \div b) * b <= a /\ a < (a \div b) * b + b
OBVIOUS

\* C++ cuts off less than one.
LEMMA CutProperties ==
    ASSUME NEW a \in Int, NEW b \in Nat \ {0}
    PROVE  /\ Cut(a, b) \in Int
           /\ a - b < Cut(a, b) * b /\ Cut(a, b) * b < a + b
<1>1. CASE a >= 0
    BY <1>1, Division DEF Cut
<1>2. CASE a < 0
    <2>1. -a \in Nat /\ Cut(a, b) = -((-a) \div b)
        BY <1>2 DEF Cut
    <2>2. (-a) \div b \in Nat /\ ((-a) \div b) * b <= -a /\ -a < ((-a) \div b) * b + b
        BY <2>1, Division
    <2> QED BY <2>1, <2>2
<1> QED BY <1>1, <1>2

LEMMA FramesAreIntegers ==
    ASSUME NEW offset_in_ms \in Int, NEW position \in FramesOf(offset_in_ms)
    PROVE  position \in Int
<1>1. Cut(offset_in_ms * FrameRate, 1000) \in Int
    BY CutProperties
<1> QED BY <1>1 DEF FramesOf

\* The two roundings of a start time add up to less than two milliseconds.
LEMMA StartTimeRounding ==
    ASSUME NEW time \in Int, NEW position \in Int
    PROVE  LET start == MillisecondsOf(time) - MillisecondsOf(position) IN
           /\ start \in Int
           /\ (start + 2) * FrameRate > (time - position) * 1000
<1> DEFINE t == MillisecondsOf(time)
           p == MillisecondsOf(position)
<1>1. t \in Int /\ time * 1000 - FrameRate < t * FrameRate
    BY CutProperties DEF MillisecondsOf
<1>2. p \in Int /\ p * FrameRate < position * 1000 + FrameRate
    BY CutProperties DEF MillisecondsOf
<1> HIDE DEF t, p
<1>3. (t - p + 2) * FrameRate = t * FrameRate - p * FrameRate + 2 * FrameRate
    BY <1>1, <1>2
<1>4. t * FrameRate \in Int /\ p * FrameRate \in Int
    BY <1>1, <1>2
<1>5. (t - p + 2) * FrameRate > (time - position) * 1000
    BY <1>1, <1>2, <1>3, <1>4
<1> QED BY <1>1, <1>2, <1>5 DEF t, p

-----------------------------------------------------------------------------
(* The steps.                                                               *)

\* Steps that move no frame to ALSA and leave the file alone.
LEMMA FramesStay ==
    ASSUME IInv, UNCHANGED <<fileVars, delivered>>, pc' = "write" => pc = "write",
           pc' \in {"run", "delay", "clock"} => pc \in {"run", "delay", "clock"}
    PROVE  /\ ChunkInv' /\ FileFollowsPosition' /\ FramesInOrder'
           /\ Len(delivered)' = Len(delivered)
           /\ FirstPosition' = FirstPosition
<1> USE DEF IInv, fileVars
<1>1. ChunkInv'
    BY DEF ChunkInv
<1>2. FileFollowsPosition'
    BY DEF FileFollowsPosition
<1>3. FramesInOrder'
    BY DEF FramesInOrder, FirstPosition
<1> QED BY <1>1, <1>2, <1>3 DEF FirstPosition

LEMMA StopKeeps == ASSUME IInv, Stop PROVE IInv'
<1>1. UNCHANGED <<pc, next, dataVars>> /\ ios_stopped' = TRUE
    BY DEF Stop
<1> QED BY <1>1, FramesStay
        DEF IInv, TypeOK, DeviceInv, RoomInv, HandlerInv, TimeInv, StartTimeNeverEarly,
            Buffered, dataVars, fileVars, reportVars, alsaVars

LEMMA TickKeeps == ASSUME IInv, Tick PROVE IInv'
<1> USE DEF IInv, TypeOK, Tick, fileVars, reportVars
<1>1. ChunkInv' /\ FileFollowsPosition' /\ FramesInOrder'
      /\ Len(delivered)' = Len(delivered) /\ FirstPosition' = FirstPosition
    BY FramesStay
<1>2. CASE device = "running" /\ heard' = heard + 1
           /\ device' = IF heard' = Len(delivered) THEN "xrun" ELSE "running"
    BY <1>1, <1>2 DEF DeviceInv, RoomInv, HandlerInv, TimeInv, StartTimeNeverEarly,
                      Buffered, FirstPosition
<1>3. CASE UNCHANGED <<heard, device>>
    BY <1>1, <1>3 DEF DeviceInv, RoomInv, HandlerInv, TimeInv, StartTimeNeverEarly,
                      Buffered, FirstPosition
<1> QED BY <1>2, <1>3

\* Steps that leave ALSA alone, or stop it.
LEMMA AlsaStays ==
    ASSUME IInv, UNCHANGED <<fileVars, delivered, heard, now, true_start,
                             audio_start_time_ms_since_epoch_>>,
           pc' \in {"run", "delay", "drop", "leaving", "posted", "exited", pc},
           pc' \in {"run", "delay"} => pc \in {"run", "delay", "clock"},
           next' \in {"drain", "none", next}, ios_stopped' \in BOOLEAN,
           delay' = delay,
           device' \in {"failed", "setup", device},
           pc' \in {"leaving", "posted", "exited"} =>
              device' \notin {"running", "prepared"},
           HandlerInv'
    PROVE  IInv'
<1> USE DEF IInv, TypeOK, fileVars
<1>1. ChunkInv' /\ FileFollowsPosition' /\ FramesInOrder'
      /\ Len(delivered)' = Len(delivered) /\ FirstPosition' = FirstPosition
    BY FramesStay
<1>2. TypeOK'
    BY Zenon
<1>3. DeviceInv' /\ RoomInv'
    BY <1>1 DEF DeviceInv, RoomInv, Buffered
<1>4. TimeInv' /\ StartTimeNeverEarly'
    BY <1>1 DEF TimeInv, StartTimeNeverEarly, FirstPosition
<1> QED BY <1>1, <1>2, <1>3, <1>4

LEMMA DeviceFailsKeeps == ASSUME IInv, DeviceFails PROVE IInv'
<1>1. HandlerInv'
    BY DEF IInv, HandlerInv, DeviceFails, fileVars
<1> QED BY <1>1, AlsaStays DEF DeviceFails, reportVars, IInv, TypeOK, DeviceInv

LEMMA EndOfFileKeeps == ASSUME IInv, EndOfFile PROVE IInv'
<1> USE DEF EndOfFile, TransferLoop, InHandler, NothingRead, dataVars, fileVars,
            reportVars, alsaVars
<1>1. curr_position_frames_ >= Total
    BY DEF IInv, TypeOK, FileFollowsPosition, MinOf
<1>2. HandlerInv'
    BY <1>1 DEF IInv, HandlerInv
<1> QED BY <1>2, AlsaStays DEF IInv, TypeOK

LEMMA EndingKeeps ==
    ASSUME IInv,
           AlsaFails \/ PcmDrainLoop \/ RunReturns \/ PcmDrop \/ NoSongPlaying \/ ThreadExits
    PROVE  IInv'
<1> USE DEF dataVars, fileVars, reportVars, alsaVars
<1>1. CASE AlsaFails
    <2>1. HandlerInv'
        BY <1>1 DEF AlsaFails, HandlerInv
    <2> QED BY <1>1, <2>1, AlsaStays DEF AlsaFails, Healthy, InHandler
<1>2. CASE PcmDrainLoop
    <2>1. HandlerInv'
        BY <1>2 DEF PcmDrainLoop, InHandler, IInv, HandlerInv
    <2> QED BY <1>2, <2>1, AlsaStays DEF PcmDrainLoop, InHandler, IInv, TypeOK
<1>3. CASE RunReturns
    <2>1. HandlerInv'
        BY <1>3 DEF RunReturns, HandlerInv
    <2> QED BY <1>3, <2>1, AlsaStays DEF RunReturns, IInv, TypeOK
<1>4. CASE PcmDrop
    <2>1. HandlerInv' /\ device' \in {"failed", "setup"}
        BY <1>4 DEF PcmDrop, Dropped, IInv, HandlerInv
    <2> QED BY <1>4, <2>1, AlsaStays DEF PcmDrop, IInv, TypeOK
<1>5. CASE NoSongPlaying
    <2>1. HandlerInv'
        BY <1>5 DEF NoSongPlaying, IInv, HandlerInv
    <2> QED BY <1>5, <2>1, AlsaStays DEF NoSongPlaying, IInv, TypeOK, DeviceInv
<1>6. CASE ThreadExits
    <2>1. HandlerInv'
        BY <1>6 DEF ThreadExits, IInv, HandlerInv
    <2> QED BY <1>6, <2>1, AlsaStays DEF ThreadExits, IInv, TypeOK, DeviceInv
<1> QED BY <1>1, <1>2, <1>3, <1>4, <1>5, <1>6

LEMMA PlayKeeps ==
    ASSUME IInv, NEW offset_in_ms \in Offsets, Play(offset_in_ms)
    PROVE  IInv'
<1> USE DEF IInv
<1>1. PICK position \in FramesOf(offset_in_ms) :
         curr_position_frames_' = MinOf(position, Total)
    BY DEF Play
<1>2. position \in Int
    BY OffsetsAssumption, FramesAreIntegers
<1>3. curr_position_frames_' \in Int /\ curr_position_frames_' <= Total
    BY <1>1, <1>2 DEF MinOf
<1>4. /\ cursor' = IF curr_position_frames_' >= 0 THEN curr_position_frames_' ELSE 0
      /\ pc = "none" /\ pc' = "run" /\ next' = "transfer"
      /\ UNCHANGED <<ios_stopped, chunk, reportVars, alsaVars>>
    BY DEF Play
<1> USE DEF reportVars, alsaVars
<1>5. TypeOK'
    BY <1>3, <1>4 DEF TypeOK
<1>6. Len(delivered) = 0 /\ Len(delivered)' = 0 /\ delivered' = delivered
    BY <1>4 DEF DeviceInv
<1>7. FramesInOrder'
    BY <1>6 DEF FramesInOrder
<1>8. FileFollowsPosition'
    BY <1>3, <1>4 DEF FileFollowsPosition, MinOf
<1>9. DeviceInv' /\ RoomInv' /\ HandlerInv' /\ ChunkInv' /\ TimeInv'
      /\ StartTimeNeverEarly'
    BY <1>4, <1>6 DEF DeviceInv, RoomInv, HandlerInv, ChunkInv, TimeInv,
                      StartTimeNeverEarly, Buffered
<1> QED BY <1>5, <1>7, <1>8, <1>9

LEMMA PrepareChunkKeeps == ASSUME IInv, PrepareChunk PROVE IInv'
<1> DEFINE curr == curr_position_frames_
<1> USE DEF IInv
<1>1. /\ pc = "run" /\ next = "transfer" /\ pc' = "write"
      /\ UNCHANGED <<next, ios_stopped, curr_position_frames_, reportVars, alsaVars>>
      /\ Buffered < BufferSize
    BY DEF PrepareChunk, TransferLoop, InHandler
<1>2. /\ curr \in Int /\ cursor \in 0..Total /\ Buffered \in Int
      /\ cursor = IF curr < 0 THEN 0 ELSE MinOf(curr, Total)
    BY <1>1 DEF TypeOK, Buffered, FileFollowsPosition
<1>3. FramesToDeliver \in Nat \ {0} /\ Buffered + FramesToDeliver <= BufferSize
    BY <1>1, <1>2 DEF FramesToDeliver, MinOf
<1>4. CASE /\ curr >= 0 /\ ~NothingRead
           /\ cursor' = MinOf(cursor + FramesToDeliver, Total)
           /\ chunk' = [i \in 1..FramesToDeliver |->
                          IF cursor + i <= Total THEN cursor + i - 1 ELSE Leftover]
    <2>1. cursor = curr /\ curr < Total
        BY <1>2, <1>4 DEF NothingRead, MinOf
    <2>2. chunk' \in Seq(Frames) /\ Len(chunk') = FramesToDeliver
        <3>1. \A i \in 1..FramesToDeliver :
                 (IF cursor + i <= Total THEN cursor + i - 1 ELSE Leftover) \in Frames
            BY <1>2, <1>3 DEF Frames
        <3> QED BY <1>3, <1>4, <3>1
    <2>3. cursor' \in 0..Total /\ cursor' = MinOf(curr + Len(chunk'), Total)
        BY <1>2, <1>3, <1>4, <2>1, <2>2 DEF MinOf
    <2>4. \A i \in 1..Len(chunk') : curr + i - 1 < Total => chunk'[i] = curr + i - 1
        BY <1>2, <1>3, <1>4, <2>1, <2>2
    <2>5. TypeOK'
        BY <1>1, <2>2, <2>3 DEF TypeOK, reportVars, alsaVars
    <2>6. Buffered' = Buffered
        BY <1>1 DEF Buffered, alsaVars
    <2>7. RoomInv'
        BY <1>1, <1>3, <2>2, <2>6 DEF RoomInv
    <2>8. ChunkInv'
        <3>1. curr' = curr
            BY <1>1
        <3>2. curr' >= 0 /\ ~(curr' < 0)
            BY <1>2, <1>4, <3>1
        <3> HIDE DEF curr
        <3> QED BY <2>3, <2>4, <3>1, <3>2 DEF ChunkInv, MinOf, curr
    <2> QED BY <1>1, <2>5, <2>7, <2>8 DEF DeviceInv, HandlerInv, FileFollowsPosition,
                FramesInOrder, FirstPosition, TimeInv, StartTimeNeverEarly,
                reportVars, alsaVars
<1>5. CASE /\ curr < 0
           /\ chunk' = [i \in 1..SilenceToDeliver |-> Silence]
           /\ cursor' = cursor
    <2>1. SilenceToDeliver \in Nat /\ SilenceToDeliver <= FramesToDeliver
          /\ SilenceToDeliver <= -curr
        BY <1>2, <1>3, <1>5 DEF SilenceToDeliver, MinOf
    <2>2. chunk' \in Seq(Frames) /\ Len(chunk') = SilenceToDeliver
          /\ \A i \in 1..Len(chunk') : chunk'[i] = Silence
        <3>1. Silence \in Frames
            BY DEF Frames
        <3> QED BY <1>5, <2>1, <3>1
    <2>3. TypeOK'
        BY <1>1, <1>2, <1>5, <2>2 DEF TypeOK, reportVars, alsaVars
    <2>4. Buffered' = Buffered
        BY <1>1 DEF Buffered, alsaVars
    <2>5. RoomInv'
        BY <1>1, <1>2, <1>3, <2>1, <2>2, <2>4 DEF RoomInv
    <2>6. ChunkInv'
        BY <1>1, <1>2, <1>5, <2>1, <2>2 DEF ChunkInv
    <2> QED BY <1>1, <2>3, <2>5, <2>6 DEF DeviceInv, HandlerInv, FileFollowsPosition,
                FramesInOrder, FirstPosition, TimeInv, StartTimeNeverEarly,
                reportVars, alsaVars
<1> QED BY <1>4, <1>5 DEF PrepareChunk

LEMMA WriteIKeeps ==
    ASSUME IInv, NEW written \in 1..Len(chunk), WriteI(written)
    PROVE  IInv'
<1> DEFINE curr == curr_position_frames_
           part == SubSeq(chunk, 1, written)
<1> USE DEF IInv
<1>1. /\ pc = "write" /\ device \in {"prepared", "running"}
      /\ delivered' = delivered \o part
      /\ device' = "running"
      /\ true_start' = IF device = "prepared" THEN now - curr ELSE true_start
      /\ curr_position_frames_' = curr + written
      /\ chunk' = <<>> /\ pc' = "delay"
      /\ UNCHANGED <<next, ios_stopped, reportVars, heard, now>>
    BY DEF WriteI, Healthy
<1>2. /\ curr \in Int /\ curr' \in Int /\ now \in Int /\ true_start \in Int
      /\ heard \in 0..Len(delivered) /\ chunk \in Seq(Frames) /\ delivered \in Seq(Frames)
      /\ Len(chunk) \in Nat /\ Len(delivered) \in Nat /\ cursor \in 0..Total
    BY <1>1 DEF TypeOK
<1>3. /\ part \in Seq(Frames) /\ Len(part) = written
      /\ \A i \in 1..written : part[i] = chunk[i]
    <2>1. \A i \in 1..written : chunk[i] \in Frames
        BY <1>2, ElementOfSeq
    <2>2. 1 \in Int /\ written \in Int /\ 1 <= written /\ written - 1 + 1 = written
        BY <1>2
    <2> QED BY <2>1, <2>2, SubSeqProperties
<1> HIDE DEF part
<1>4. /\ delivered' \in Seq(Frames)
      /\ Len(delivered') = Len(delivered) + written
      /\ \A i \in 1..Len(delivered') :
            delivered'[i] = IF i <= Len(delivered) THEN delivered[i]
                            ELSE chunk[i - Len(delivered)]
    <2>1. /\ delivered \o part \in Seq(Frames)
          /\ Len(delivered \o part) = Len(delivered) + Len(part)
          /\ \A i \in 1..Len(delivered) + Len(part) :
                (delivered \o part)[i] = IF i <= Len(delivered) THEN delivered[i]
                                         ELSE part[i - Len(delivered)]
        BY <1>2, <1>3, ConcatProperties
    <2> QED BY <1>1, <1>2, <1>3, <2>1
<1>5. FirstPosition' = FirstPosition
    BY <1>1, <1>2, <1>4 DEF FirstPosition
<1>6. cursor' = IF curr' < 0 THEN 0 ELSE MinOf(curr', Total)
    <2>1. cursor' = IF curr' >= 0 /\ (curr < 0 \/ written # Len(chunk)) /\ curr' <= Total
                    THEN curr' ELSE cursor
        BY DEF WriteI, SeekNeeded, SeekTo
    <2>2. CASE curr < 0
        <3>1. cursor = 0 /\ curr' <= 0
            BY <1>1, <1>2, <2>2 DEF ChunkInv
        <3> QED BY <1>2, <2>1, <2>2, <3>1 DEF MinOf
    <2>3. CASE curr >= 0
        <3>1. cursor = MinOf(curr + Len(chunk), Total) /\ curr' >= 0
            BY <1>1, <1>2, <2>3 DEF ChunkInv
        <3>2. curr' = curr + written
            BY <1>1
        <3>3. CASE written = Len(chunk)
            BY <1>2, <2>1, <2>3, <3>1, <3>2, <3>3 DEF MinOf
        <3>4. CASE written # Len(chunk) /\ curr' <= Total
            BY <1>2, <2>1, <3>1, <3>4 DEF MinOf
        <3>5. CASE written # Len(chunk) /\ ~(curr' <= Total)
            <4>1. cursor = Total /\ cursor' = cursor
                BY <1>2, <2>1, <3>1, <3>2, <3>5 DEF MinOf
            <4> QED BY <1>2, <3>1, <3>5, <4>1 DEF MinOf
        <3> QED BY <3>3, <3>4, <3>5
    <2> QED BY <1>2, <2>2, <2>3
<1>7. TypeOK'
    <2>1. cursor' \in 0..Total
        BY <1>2, <1>6 DEF MinOf
    <2>2. true_start' \in Int
        BY <1>1, <1>2
    <2>3. chunk' \in Seq(Frames)
        BY <1>1, EmptySeq
    <2>4. heard' \in 0..Len(delivered')
        BY <1>1, <1>2, <1>4
    <2> QED BY <1>1, <1>2, <1>4, <2>1, <2>2, <2>3, <2>4 DEF TypeOK, reportVars
<1>8. FramesInOrder'
    <2> SUFFICES ASSUME NEW i \in 1..Len(delivered'), FirstPosition + i - 1 < Total
                 PROVE  delivered'[i] = FrameAt(FirstPosition + i - 1)
        BY <1>5 DEF FramesInOrder
    <2>1. CASE i <= Len(delivered)
        BY <1>2, <1>4, <2>1 DEF FramesInOrder
    <2>2. CASE i > Len(delivered)
        <3> DEFINE j == i - Len(delivered)
        <3>1. /\ j \in 1..written /\ j \in 1..Len(chunk)
              /\ FirstPosition + i - 1 = curr + j - 1
              /\ delivered'[i] = chunk[j]
            BY <1>2, <1>4, <2>2 DEF FirstPosition
        <3> HIDE DEF j
        <3>2. CASE curr < 0
            BY <1>1, <1>2, <3>1, <3>2 DEF ChunkInv, FrameAt
        <3>3. CASE curr >= 0
            BY <1>1, <1>2, <3>1, <3>3 DEF ChunkInv, FrameAt
        <3> QED BY <1>2, <3>2, <3>3
    <2> QED BY <1>2, <1>4, <2>1, <2>2
<1>9. DeviceInv' /\ RoomInv' /\ HandlerInv' /\ ChunkInv'
    BY <1>1, <1>2, <1>4 DEF DeviceInv, RoomInv, HandlerInv, ChunkInv, Buffered
<1>10. TimeInv' /\ StartTimeNeverEarly'
    <2>1. CASE device = "prepared"
        <3>1. Len(delivered) = 0 /\ audio_start_time_ms_since_epoch_' = 0 /\ heard = 0
            BY <1>1, <1>2, <2>1 DEF DeviceInv, reportVars
        <3> QED BY <1>1, <1>2, <1>4, <1>5, <2>1, <3>1
                DEF TimeInv, FirstPosition, StartTimeNeverEarly
    <2>2. CASE device = "running"
        BY <1>1, <1>2, <1>4, <1>5, <2>2
           DEF TimeInv, StartTimeNeverEarly, DeviceInv, reportVars
    <2> QED BY <1>1, <2>1, <2>2
<1>11. FileFollowsPosition'
    BY <1>6 DEF FileFollowsPosition
<1> QED BY <1>7, <1>8, <1>9, <1>10, <1>11

LEMMA QueryDelayKeeps == ASSUME IInv, QueryDelay PROVE IInv'
<1> USE DEF IInv, QueryDelay, fileVars, alsaVars
<1>1. ChunkInv' /\ FileFollowsPosition' /\ FramesInOrder'
      /\ Len(delivered)' = Len(delivered) /\ FirstPosition' = FirstPosition
    BY FramesStay
<1>2. CASE Buffered < MinDelay /\ pc' = "run" /\ UNCHANGED delay
    <2>1. TypeOK'
        BY <1>2 DEF TypeOK
    <2>2. DeviceInv' /\ RoomInv' /\ HandlerInv' /\ TimeInv' /\ StartTimeNeverEarly'
        BY <1>1, <1>2 DEF DeviceInv, RoomInv, HandlerInv, TimeInv, StartTimeNeverEarly,
                          Buffered
    <2> QED BY <1>1, <2>1, <2>2
<1>3. CASE ~(Buffered < MinDelay) /\ pc' = "clock" /\ delay' = Buffered
    <2>1. Buffered \in 0..BufferSize /\ Buffered > 0 /\ Len(delivered) > 0
        BY <1>3 DEF TypeOK, RoomInv, Buffered
    <2>2. TypeOK'
        BY <1>3, <2>1 DEF TypeOK
    <2>3. DeviceInv' /\ RoomInv' /\ HandlerInv' /\ StartTimeNeverEarly'
        BY <1>1, <1>3 DEF DeviceInv, RoomInv, HandlerInv, StartTimeNeverEarly, Buffered
    <2>4. curr_position_frames_ - Buffered = FirstPosition + heard
        BY DEF TypeOK, FirstPosition, Buffered
    <2>5. TimeInv'
        BY <1>1, <1>3, <2>1, <2>4 DEF TimeInv
    <2> QED BY <1>1, <2>2, <2>3, <2>5
<1> QED BY <1>2, <1>3

LEMMA ReadClockKeeps == ASSUME IInv, ReadClock PROVE IInv'
<1> DEFINE played == curr_position_frames_ - delay
<1> USE DEF IInv
<1>1. /\ pc = "clock" /\ delay' = 0 /\ pc' = "run"
      /\ UNCHANGED <<next, ios_stopped, fileVars, alsaVars>>
      /\ audio_start_time_ms_since_epoch_' \in {audio_start_time_ms_since_epoch_, StartTime}
    BY DEF ReadClock
<1>2. ChunkInv' /\ FileFollowsPosition' /\ FramesInOrder'
      /\ Len(delivered)' = Len(delivered) /\ FirstPosition' = FirstPosition
    BY <1>1, FramesStay DEF alsaVars
<1>3. /\ played \in Int /\ now \in Int /\ true_start \in Int
      /\ Len(delivered) > 0 /\ played <= now - true_start
    BY <1>1 DEF TypeOK, TimeInv
<1>4. StartTime \in Int /\ (StartTime + 2) * FrameRate > (now - played) * 1000
    BY <1>3, StartTimeRounding DEF StartTime
<1>5. (StartTime + 2) * FrameRate > true_start * 1000
    <2>1. (StartTime + 2) * FrameRate \in Int
        BY <1>4
    <2> QED BY <1>3, <1>4, <2>1
<1>6. StartTimeNeverEarly'
    <2>1. true_start' = true_start
        BY <1>1 DEF alsaVars
    <2>2. CASE audio_start_time_ms_since_epoch_' = audio_start_time_ms_since_epoch_
        BY <2>1, <2>2 DEF StartTimeNeverEarly
    <2>3. CASE audio_start_time_ms_since_epoch_' = StartTime
        BY <1>5, <2>1, <2>3 DEF StartTimeNeverEarly
    <2> QED BY <1>1, <2>2, <2>3
<1>7. TypeOK'
    BY <1>1, <1>4 DEF TypeOK, fileVars, alsaVars
<1>8. DeviceInv' /\ RoomInv' /\ HandlerInv' /\ TimeInv'
    BY <1>1, <1>2, <1>3 DEF DeviceInv, RoomInv, HandlerInv, TimeInv, Buffered,
                            fileVars, alsaVars
<1> QED BY <1>2, <1>6, <1>7, <1>8

LEMMA InitEstablishes == Init => IInv
<1> SUFFICES ASSUME Init PROVE IInv
    OBVIOUS
<1>1. Len(delivered) = 0 /\ chunk \in Seq(Frames) /\ delivered \in Seq(Frames)
    BY EmptySeq DEF Init
<1>2. TypeOK
    <2>1. 0 \in 0..Total /\ 0 \in 0..BufferSize /\ heard \in 0..Len(delivered)
        BY <1>1 DEF Init
    <2>2. ios_stopped \in BOOLEAN
        BY Zenon DEF Init
    <2> QED BY <1>1, <2>1, <2>2, ClockAssumption DEF Init, TypeOK
<1>3. DeviceInv /\ RoomInv /\ HandlerInv /\ ChunkInv /\ TimeInv
    BY <1>1 DEF Init, DeviceInv, RoomInv, HandlerInv, ChunkInv, TimeInv, Buffered
<1>4. FileFollowsPosition /\ FramesInOrder /\ StartTimeNeverEarly
    BY <1>1 DEF Init, FileFollowsPosition, FramesInOrder, StartTimeNeverEarly
<1> QED BY <1>2, <1>3, <1>4 DEF IInv

LEMMA StepPreserves == IInv /\ [Next]_vars => IInv'
<1> SUFFICES ASSUME IInv, [Next]_vars PROVE IInv'
    OBVIOUS
<1>1. CASE ThreadStep
    BY <1>1, PrepareChunkKeeps, EndOfFileKeeps, WriteIKeeps, QueryDelayKeeps,
       ReadClockKeeps, EndingKeeps DEF ThreadStep
<1>2. CASE UNCHANGED vars
    <2>1. UNCHANGED <<pc, next, ios_stopped, fileVars, reportVars, alsaVars>>
        BY <1>2 DEF vars, dataVars
    <2>2. HandlerInv'
        BY <2>1 DEF IInv, HandlerInv, fileVars
    <2> QED BY <2>1, <2>2, AlsaStays DEF reportVars, alsaVars, IInv, TypeOK, DeviceInv
<1> QED BY <1>1, <1>2, PlayKeeps, StopKeeps, TickKeeps, DeviceFailsKeeps DEF Next

LEMMA Invariance == Spec => []IInv
BY InitEstablishes, StepPreserves, PTL DEF Spec

-----------------------------------------------------------------------------
(* The theorems.                                                            *)

\* Every variable keeps its type; in particular no position leaves the file.
THEOREM TypeCorrect == Spec => []TypeOK
<1>1. IInv => TypeOK
    BY DEF IInv
<1> QED BY <1>1, Invariance, PTL

\* ALSA is given the silence asked for and then every frame of the file, each once
\* and in its place, whatever is read short or written in part.
THEOREM EveryFrameInItsPlace == Spec => []FramesInOrder
<1>1. IInv => FramesInOrder
    BY DEF IInv
<1> QED BY <1>1, Invariance, PTL

\* Between two handlers the file is where the next frame to deliver is.
THEOREM FileKeepsUp == Spec => []FileFollowsPosition
<1>1. IInv => FileFollowsPosition
    BY DEF IInv
<1> QED BY <1>1, Invariance, PTL

\* A song that ended by itself was heard to its last frame.
THEOREM SongIsHeardToItsEnd == Spec => []HeardToTheEnd
<1>1. IInv => HeardToTheEnd
    <2> SUFFICES ASSUME IInv, next = "drain", device \in {"prepared", "xrun"}
                 PROVE  FirstPosition + heard >= Total
        BY DEF HeardToTheEnd
    <2>1. curr_position_frames_ >= Total /\ heard = Len(delivered)
        BY DEF IInv, TypeOK, HandlerInv, DeviceInv
    <2> QED BY <2>1 DEF IInv, TypeOK, FirstPosition
<1> QED BY <1>1, Invariance, PTL

\* When the listeners are told that no song plays, none does.
THEOREM SilenceIsTrue == Spec => []NoSongMeansSilence
<1>1. IInv => NoSongMeansSilence
    BY DEF IInv, DeviceInv, NoSongMeansSilence
<1> QED BY <1>1, Invariance, PTL

\* At any frame rate a reported start time is early by less than two milliseconds.
THEOREM NeverTwoMillisecondsEarly == Spec => []StartTimeNeverEarly
<1>1. IInv => StartTimeNeverEarly
    BY DEF IInv
<1> QED BY <1>1, Invariance, PTL

\* The service implements PlaybackThread, on which the controller relies.
THEOREM ServiceImplementsPlaybackThread == Spec => ThreadAsPromised
<1>1. Init => Thread!ThreadInit
    BY DEF Init, Thread!ThreadInit
<1>2. IInv /\ [Next]_vars => [Thread!ThreadNext]_Thread!threadVars
    <2> SUFFICES ASSUME IInv, [Next]_vars
                 PROVE  [Thread!ThreadNext]_Thread!threadVars
        OBVIOUS
    <2> USE DEF Thread!ThreadNext, Thread!threadVars, dataVars, fileVars, reportVars,
                alsaVars
    <2>1. ASSUME NEW offset_in_ms \in Offsets, Play(offset_in_ms)
          PROVE  Thread!Begin
        BY <2>1 DEF Play, Thread!Begin
    <2>2. ASSUME Stop PROVE Thread!BeStopped
        BY <2>2 DEF Stop, Thread!BeStopped
    <2>3. ASSUME Tick \/ DeviceFails \/ UNCHANGED vars PROVE UNCHANGED Thread!threadVars
        BY <2>3 DEF Tick, DeviceFails, vars
    <2>4. ASSUME PrepareChunk \/ EndOfFile \/ QueryDelay \/ PcmDrop
                 \/ \E written \in 1..Len(chunk) : WriteI(written)
          PROVE  UNCHANGED Thread!threadVars
        BY <2>4 DEF PrepareChunk, EndOfFile, QueryDelay, PcmDrop, WriteI, TransferLoop,
                    InHandler
    <2>5. ASSUME ReadClock PROVE Thread!ReportStart \/ UNCHANGED Thread!threadVars
        <3>1. now \in Int /\ curr_position_frames_ - delay \in Int
              /\ audio_start_time_ms_since_epoch_ \in Int
            BY DEF IInv, TypeOK
        <3>2. StartTime \in Int
            BY <3>1, StartTimeRounding DEF StartTime
        <3>3. CASE SmallJittering(StartTime - audio_start_time_ms_since_epoch_)
            BY <2>5, <3>3 DEF ReadClock
        <3>4. CASE ~SmallJittering(StartTime - audio_start_time_ms_since_epoch_)
            BY <2>5, <3>1, <3>2, <3>4 DEF ReadClock, SmallJittering, Thread!ReportStart
        <3> QED BY <3>3, <3>4
    <2>6. ASSUME AlsaFails \/ PcmDrainLoop \/ RunReturns
          PROVE  Thread!BeStopped \/ UNCHANGED Thread!threadVars
        BY <2>6 DEF AlsaFails, PcmDrainLoop, RunReturns, InHandler, Thread!BeStopped
    <2>7. ASSUME NoSongPlaying PROVE Thread!ReportEnd
        BY <2>7 DEF NoSongPlaying, Thread!ReportEnd, IInv, HandlerInv
    <2>8. ASSUME ThreadExits PROVE Thread!Exit
        BY <2>8 DEF ThreadExits, Thread!Exit, IInv, HandlerInv
    <2> QED BY <2>1, <2>2, <2>3, <2>4, <2>5, <2>6, <2>7, <2>8 DEF Next, ThreadStep
<1> QED BY <1>1, <1>2, Invariance, PTL DEF Spec, ThreadAsPromised, Thread!ThreadSafety

=============================================================================
