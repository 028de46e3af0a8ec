------------------------------ MODULE MCStatus ------------------------------
(* Values for Status' constants: one feed and one URL.                     *)
EXTENDS Status

CONSTANTS h1, openphish

MCHash      == {h1}
MCProviders == {openphish}
MCBits      == {1}
MCBit       == [p \in Providers |-> {1}]
=============================================================================
