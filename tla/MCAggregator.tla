---------------------------- MODULE MCAggregator ----------------------------
(* Payloads for the job: two readings of different routes, one of each     *)
(* kind of payload that is not a reading, and one reading of each flaw.    *)
EXTENDS Aggregator

Calm == [kind |-> "reading", flaw |-> "none", route |-> 1, status |-> "driving", delta |-> 1,
         stat |-> 1, sensor |-> 2, fast |-> FALSE, alarm |-> FALSE]

Rash == [kind |-> "reading", flaw |-> "none", route |-> 2, status |-> "arrived", delta |-> 3,
         stat |-> 2, sensor |-> 1, fast |-> TRUE, alarm |-> TRUE]

Other(kind) == [Calm EXCEPT !.kind = kind]

Flawed(flaw) == [Rash EXCEPT !.flaw = flaw]

MCPayloads == {Calm, Rash, Other("absent"), Other("garbled")}
                  \cup {Flawed(flaw) : flaw \in {"any", "first", "last"}}
==============================================================================
