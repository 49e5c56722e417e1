------------------------------ MODULE MCPackets ------------------------------
(***************************************************************************)
(* The key provider at work on one request: a spend from its coins to the  *)
(* last cosignature, a boarding, or a Savings transition. Finite instance: *)
(* five coins and three fee programs.                                      *)
(***************************************************************************)
EXTENDS SpendPackets, BoardPackets, RecoveryPackets

MCCoins == 1..5
MCValue == <<6, 4, 8, 3, 9>>
Flat(in, out) == [input |-> in, output |-> [x \in 0..40 |-> out]]

\* A program without fees, one that charges half sats and for coin 4 its whole
\* value once rounded up, and one that charges outputs by their amount.
MCPrograms ==
    {Flat(<<0, 0, 0, 0, 0>>, 0),
     Flat(<<1, 2, 1, 5, 1>>, 1),
     [input |-> <<1, 0, 2, 1, 0>>, output |-> [x \in 0..40 |-> x \div 2]]}

MCInit ==
    \/ SpendInit /\ board = NoBoard /\ recovery = NoRecovery
    \/ SpendIdle /\ BoardInit /\ recovery = NoRecovery
    \/ SpendIdle /\ board = NoBoard /\ RecoveryInit

MCNext ==
    \/ SpendNext /\ UNCHANGED <<board, recovery>>
    \/ BoardNext /\ UNCHANGED <<vars, packetVars, recovery>>
    \/ RecoveryNext /\ UNCHANGED <<vars, packetVars, board>>

MCSpec == MCInit /\ [][MCNext]_<<vars, packetVars, board, recovery>>
=============================================================================
