----------------------------- MODULE PeerStream -----------------------------
(***************************************************************************)
(* What a link between two sites promises: the commands of a site reach    *)
(* its peer in order and without a gap.  While the link is live they come  *)
(* one at a time; a synchronisation may bring any number of them at once.  *)
(* PeerReplication relies on it: reploff counts applied commands there.    *)
(***************************************************************************)
EXTENDS Naturals

VARIABLES
    written,   \* commands the site has executed
    got,       \* commands its peer has applied
    live       \* the peer follows the stream

vars == <<written, got, live>>

Init == written = 0 /\ got = 0 /\ live = FALSE

Write == written' = written + 1 /\ UNCHANGED <<got, live>>

Deliver ==
    /\ live
    /\ got < written
    /\ got' = got + 1
    /\ UNCHANGED <<written, live>>

Synchronise ==
    /\ ~live
    /\ got' \in got..written
    /\ UNCHANGED <<written, live>>

Switch == live' = ~live /\ UNCHANGED <<written, got>>

Next == Write \/ Deliver \/ Synchronise \/ Switch

Spec == Init /\ [][Next]_vars
=============================================================================
