------------------------------ MODULE MCServer ------------------------------
(* Server for TLC: what main calls, and the addresses of two peers.        *)
EXTENDS Server, TLC

WholeProgram   == <<"readConfig", "init", "construct", "begin", "connect">>
ExampleProgram == <<"construct", "begin">>
EarlyConnect   == <<"readConfig", "init", "construct", "connect", "begin">>
NoConfig       == <<"init", "construct", "begin">>

Registry == [ip |-> "127.0.0.1", port |-> 8888]
LastPort == [ip |-> "127.0.0.1", port |-> 65536]

\* Two peers behind different addresses.
TwoAddresses ==
  [p \in Peers |-> IF p = CHOOSE q \in Peers : TRUE
                     THEN [ip |-> "10.0.0.1", port |-> 513]
                     ELSE [ip |-> "10.0.0.2", port |-> 40000]]

SomeIps == {"127.0.0.1", "10.0.0.1", "10.0.0.2"}
=============================================================================
