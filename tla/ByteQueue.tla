------------------------------ MODULE ByteQueue ------------------------------
(***************************************************************************)
(* What a Buffer promises the connection it belongs to: bytes leave it in  *)
(* the order in which they came, each of them once, a few at a time; until *)
(* its owner breaks the agreement, after which nothing is promised.        *)
(***************************************************************************)
EXTENDS Naturals, Sequences

CONSTANT Bytes

VARIABLES
  queue,    \* the bytes inside
  port,     \* those that came or left last
  broken    \* the agreement was broken

Port  == [way : {"in", "out"}, bytes : Seq(Bytes)]
Quiet == [way |-> "out", bytes |-> <<>>]

Init == queue = <<>> /\ port = Quiet /\ broken = FALSE

Put  == port'.way = "in"  /\ queue' = queue \o port'.bytes
Take == port'.way = "out" /\ queue = port'.bytes \o queue'

Next ==
  /\ ~broken
  /\ \/ broken' = FALSE /\ port' \in Port /\ (Put \/ Take)
     \/ broken' = TRUE  /\ port' = Quiet /\ queue' = <<>>

Spec == Init /\ [][Next]_<<queue, port, broken>>
=============================================================================
