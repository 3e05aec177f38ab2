----------------------------- MODULE MCBrokeroo -----------------------------
(* Small sets of messages and devices for Brokeroo. *)
EXTENDS Brokeroo, TLC

CONSTANTS r1, r2, m1, m2, m3, truck, van

OneMessage == m1 :> truck

\* Two messages of one device.
SameTruck == (m1 :> truck) @@ (m2 :> truck)

\* And a third message, of another device.
TruckAndVan == SameTruck @@ (m3 :> van)

ReplicaSymmetry == Permutations(Replica)
==============================================================================
