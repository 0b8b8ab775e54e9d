---------------------------- MODULE MCByteBuffer ----------------------------
(* ByteBuffer for TLC.                                                     *)
EXTENDS ByteBuffer

SomeChunks == UNION {[1..n -> Bytes] : n \in 1..3}
=============================================================================
