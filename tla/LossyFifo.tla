----------------------------- MODULE LossyFifo -----------------------------
(***************************************************************************)
(* What a user of RJTcpClient::Send may rely on: messages are numbered as  *)
(* they are accepted, and each is transmitted or lost.  None is            *)
(* transmitted twice, none after it was given up, and none overtakes an    *)
(* older one that is still under way.                                      *)
(***************************************************************************)
EXTENDS Integers

VARIABLES accepted,  \* how many messages were accepted
          through,   \* the transmitted ones
          lost       \* the lost ones

vars == <<accepted, through, lost>>

Pending == (1..accepted) \ (through \cup lost)

Init == accepted = 0 /\ through = {} /\ lost = {}

Accept == /\ accepted' = accepted + 1
          /\ UNCHANGED <<through, lost>>

Transmit == /\ \E n \in Pending : /\ \A m \in Pending : n <= m
                                  /\ through' = through \cup {n}
            /\ UNCHANGED <<accepted, lost>>

Lose == /\ \E S \in SUBSET Pending : lost' = lost \cup S
        /\ UNCHANGED <<accepted, through>>

Next == Accept \/ Transmit \/ Lose

Spec == Init /\ [][Next]_vars
=============================================================================
