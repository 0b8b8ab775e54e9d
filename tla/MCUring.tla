------------------------------- MODULE MCUring -------------------------------
(* Small instances of Uring for TLC.                                       *)
EXTENDS Uring, TLC

\* Channel objects and application threads are interchangeable.
ChannelSymmetry == Permutations(Channels) \cup Permutations(Senders)
=============================================================================
