------------------------------ MODULE MCFetch -------------------------------
(* Values for Fetch's constants: one feed, which Worker shows meets the    *)
(* others only in curr; h2 is what is left of h1's URL when it is cut.     *)
EXTENDS Fetch

CONSTANTS h1, h2, openphish

MCHashes    == {h1, h2}
MCProviders == {openphish}
MCBits      == {1}
MCBit       == [p \in Providers |-> {1}]
MCLists     == {{h1}, {h1, Invalid}}
MCFragment  == [u \in Lines |-> IF u = h1 THEN h2 ELSE Invalid]
=============================================================================
