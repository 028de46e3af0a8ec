----------------------------- MODULE Blocklist ------------------------------
(***************************************************************************)
(* What the worker promises to whoever queries D1, with every table, file  *)
(* and request hidden: a hash some feed reported is pending until D1 lists *)
(* it, D1 never stops listing a hash, and the worker believes a hash       *)
(* published only when D1 lists it.  README.md, Design and Pipeline.       *)
(***************************************************************************)
EXTENDS FiniteSets

CONSTANT Hashes

VARIABLES
  pending,  (* reported since the last rotation                           *)
  transit,  (* in a request that D1 may still execute                     *)
  settled,  (* believed to be listed: not sent again while reported       *)
  listed    (* in D1                                                      *)

vars == <<pending, transit, settled, listed>>

Init == pending = {} /\ transit = {} /\ settled = {} /\ listed = {}

(* A feed lists h.                                                         *)
Report(h) ==
  /\ pending' = pending \cup {h}
  /\ UNCHANGED <<transit, settled, listed>>

(* D1 executes some of what it was sent, requests come and go.             *)
Deliver ==
  /\ listed \subseteq listed'
  /\ listed' \subseteq listed \cup pending \cup transit
  /\ transit' \subseteq transit \cup pending \cup listed
  /\ UNCHANGED <<pending, settled>>

(* A run ends well: everything reported is listed.                         *)
Settle ==
  /\ pending \subseteq listed
  /\ settled' = pending
  /\ pending' = {}
  /\ UNCHANGED <<transit, listed>>

(* The local state is lost; D1 is not.                                     *)
Forget ==
  /\ pending' = {} /\ settled' = {}
  /\ UNCHANGED <<transit, listed>>

Next == (\E h \in Hashes : Report(h)) \/ Deliver \/ Settle \/ Forget

Spec == Init /\ [][Next]_vars

-----------------------------------------------------------------------------
(* Nothing the worker skips in later diffs is missing from D1.             *)
SettledIsListed == settled \subseteq listed
=============================================================================
