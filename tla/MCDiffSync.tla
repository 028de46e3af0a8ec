---------------------------- MODULE MCDiffSync ------------------------------
(* Values for DiffSync's constants: the bits of URLhaus (1), OpenPhish (2) *)
(* and PhishTank (3), the three smallest of worker.New.                    *)
EXTENDS DiffSync, TLC

CONSTANTS h1, h2, urlhaus, openphish, phishtank

MCHashes    == {h1, h2}
MCProviders == {urlhaus, openphish, phishtank}
MCTwoFeeds  == {urlhaus, phishtank}
MCBits      == {0, 1}
MCBit       == [p \in Providers |-> CASE p = urlhaus   -> {0}
                                      [] p = openphish -> {1}
                                      [] p = phishtank -> {0, 1}]

Symmetry == Permutations(MCHashes)
=============================================================================
