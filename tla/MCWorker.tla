----------------------------- MODULE MCWorker -------------------------------
(* Values for Worker's constants: two feeds of worker.New whose Bit()s,    *)
(* 2 and 3, overlap.                                                       *)
EXTENDS Worker

CONSTANTS h1, openphish, phishtank

MCHash      == {h1}
MCProviders == {openphish, phishtank}
MCBits      == {0, 1}
MCBit       == [p \in Providers |-> CASE p = openphish -> {1}
                                      [] p = phishtank -> {0, 1}]
=============================================================================
