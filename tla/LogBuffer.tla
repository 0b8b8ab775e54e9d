------------------------------ MODULE LogBuffer ------------------------------
(***************************************************************************)
(* The text one thread has logged and not handed over: LogStream writes    *)
(* the pieces of a line into the thread's LogBuffer, and the manipulator   *)
(* end closes the line and, when the buffer is nearly full, hands all of   *)
(* it to the callback (LogThread::apendMessage) and empties it.            *)
(*                                                                         *)
(* data_ and writeIndex_ are static thread_local members: a thread has one *)
(* buffer, whichever Logger it uses, and no other thread touches it.       *)
(***************************************************************************)
EXTENDS Naturals, Sequences, SequencesExt

CONSTANTS
  bufferSize,  \* bytes of data_
  HeadGap,     \* the 3 of headLevel
  LowGap,      \* the 256 of lowLevel
  PieceSizes   \* sizes of what a << writes

headLevel == bufferSize - HeadGap
lowLevel  == bufferSize - LowGap

ASSUME LogBufferAssumption ==
  /\ bufferSize \in Nat /\ HeadGap \in Nat /\ LowGap \in Nat
  /\ 2 < HeadGap /\ HeadGap <= LowGap /\ LowGap <= bufferSize
  /\ PieceSizes \subseteq Nat

VARIABLES
  data,        \* data_, as the pieces in it
  writeIndex,  \* writeIndex_
  handed       \* the last block given to updateCallBack_

lineVars == <<data, writeIndex, handed>>

Text(size) == [kind |-> "text", size |-> size]
CRLF       == [kind |-> "crlf", size |-> 2]

LineInit == data = <<>> /\ writeIndex = 0 /\ handed = [data |-> <<>>, size |-> 0]

-----------------------------------------------------------------------------
(* LogBuffer::writeIn: a piece that does not fit is dropped, and the       *)
(* LogStream operators ignore that.                                        *)
FitsBuffer(size) == writeIndex + size <= bufferSize   \* variant: no room for CRLF
Fits(size)       == writeIndex + size <= headLevel

writeIn(size) ==
  /\ IF Fits(size)
       THEN data' = Append(data, Text(size)) /\ writeIndex' = writeIndex + size
       ELSE UNCHANGED <<data, writeIndex>>
  /\ UNCHANGED handed

(* writeEnd, which is not checked, and in end the callback and refresh.    *)
Closed == [data |-> Append(data, CRLF), size |-> writeIndex + 2]

IndexKept == data' = <<>> /\ UNCHANGED writeIndex   \* variant: the index survives
Refresh   == data' = <<>> /\ writeIndex' = 0

end ==
  IF Closed.size >= lowLevel
    THEN handed' = Closed /\ Refresh
    ELSE data' = Closed.data /\ writeIndex' = Closed.size /\ UNCHANGED handed

LineNext == (\E size \in PieceSizes : writeIn(size)) \/ end

LineSpec == LineInit /\ [][LineNext]_lineVars

-----------------------------------------------------------------------------
Piece == {Text(size) : size \in PieceSizes} \cup {CRLF}

LineTypeOK ==
  /\ data \in Seq(Piece)
  /\ writeIndex \in Nat
  /\ handed \in [data : Seq(Piece), size : Nat]

(* memcpy and the unchecked CRLF of writeEnd stay inside data_: whatever   *)
(* is logged, there is room left for the CRLF of the next end.             *)
WritesInBounds == writeIndex + 2 < bufferSize /\ handed.size < bufferSize

Bytes(s) == FoldLeft(LAMBDA sum, piece : sum + piece.size, 0, s)

(* What reaches apendMessage is whole lines and exactly the bytes written: *)
(* dropped pieces leave no hole and no byte of an earlier block comes      *)
(* again.                                                                  *)
BlocksAreWholeLines ==
  /\ writeIndex = Bytes(data)
  /\ handed.size = Bytes(handed.data)
  /\ handed.size > 0 => handed.data[Len(handed.data)] = CRLF
=============================================================================
