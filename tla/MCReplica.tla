----------------------------- MODULE MCReplica -----------------------------
EXTENDS Replica

CONSTANTS a, b, d, c1, c2

\* Two servers, each other's peer and each with a client.
TwoHomes == (c1 :> a) @@ (c2 :> b)
TwoPeers == (a :> <<b>>) @@ (b :> <<a>>)
Commands == (c1 :> <<Ops, Ops, {"FREAD"}>>) @@ (c2 :> <<Ops>>)

\* Three servers, one client.
SoloHome == c1 :> a
AllPeers == (a :> <<b, d>>) @@ (b :> <<a, d>>) @@ (d :> <<a, b>>)
SoloCommands == c1 :> <<Ops, Ops>>

OneCell == <<Hole>>
=============================================================================
