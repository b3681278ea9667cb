---------------------------- MODULE SitesRestart ----------------------------
(***************************************************************************)
(* Several sites that lose data and recover it from each other.  A site    *)
(* that restarts behind what its peers have, or with an empty database,    *)
(* shuts its clients out until every peer has sent it everything; while it *)
(* does, it refuses CRDT.VC, PING and CRDT.PSYNC too (none is allowed      *)
(* while loading), and so cannot help a peer that restarts meanwhile.      *)
(*                                                                         *)
(* Module SiteRecovery has the clocks of one site; here they are a choice: *)
(* whether the file is behind what the peers that answer have received.    *)
(***************************************************************************)
EXTENDS Naturals, FiniteSets

CONSTANTS Sites,
          PeersOf,          \* PeersOf[s]: the peers of site s
          MaxSiteCrashes,   \* bound
          MaxUnpeers        \* bound: PEEROF gid NO ONE by an operator

VARIABLES sites,            \* sites[s]: [up, loading, owes, peers]
          crashed, unpeered

sitesVars == <<sites, crashed, unpeered>>

Init ==
    /\ sites = [s \in Sites |-> [up |-> TRUE, loading |-> FALSE, owes |-> {}, peers |-> PeersOf[s]]]
    /\ crashed = 0 /\ unpeered = 0

\* getSelfVcuFromPeer: the peers that answer; the others count as -1.
Answering(s) == {p \in sites[s].peers : sites[p].up /\ ~sites[p].loading}

\* peerBackStream: a database that is not empty and not behind is kept.
\* Otherwise every peer owes all it has, or what comes after the largest
\* answer.
peerBackStream(s, empty, behind) ==
    IF ~empty /\ ~(behind /\ Answering(s) # {})
    THEN [sites[s] EXCEPT !.up = TRUE, !.loading = FALSE, !.owes = {}]
    ELSE [sites[s] EXCEPT !.up = TRUE, !.loading = sites[s].peers # {}, !.owes = sites[s].peers]

Crash(s) ==
    /\ sites[s].up /\ crashed < MaxSiteCrashes /\ crashed' = crashed + 1
    /\ sites' = [sites EXCEPT ![s] = [@ EXCEPT !.up = FALSE, !.loading = FALSE, !.owes = {}]]
    /\ UNCHANGED unpeered

Restart(s) ==
    /\ ~sites[s].up
    /\ \E empty, behind \in BOOLEAN : sites' = [sites EXCEPT ![s] = peerBackStream(s, empty, behind)]
    /\ UNCHANGED <<crashed, unpeered>>

\* tryCleanCrdtServerLoading.
Settled(sv, p) ==
    LET owes == sv.owes \ {p} IN [sv EXCEPT !.owes = owes, !.loading = @ /\ owes # {}]

\* Seeded fault: the cron goes no further than the first peer.
MergeEnds_FirstPeer(s, p) ==
    /\ sites[s].up /\ p \in sites[s].owes /\ \A q \in sites[s].peers : p <= q
    /\ sites[p].up /\ ~sites[p].loading
    /\ sites' = [sites EXCEPT ![s] = Settled(@, p)]
    /\ UNCHANGED <<crashed, unpeered>>

\* A peer that serves lets the site in and sends all of its data: CRDT.PSYNC
\* to CRDT.MERGE_END.
MergeEnds(s, p) ==
    /\ sites[s].up /\ p \in sites[s].owes
    /\ sites[p].up /\ ~sites[p].loading
    /\ sites' = [sites EXCEPT ![s] = Settled(@, p)]
    /\ UNCHANGED <<crashed, unpeered>>

\* crdtReplicationUnsetMaster.
Unpeer(s, p) ==
    /\ sites[s].up /\ p \in sites[s].peers /\ unpeered < MaxUnpeers /\ unpeered' = unpeered + 1
    /\ sites' = [sites EXCEPT ![s] = Settled([@ EXCEPT !.peers = @ \ {p}], p)]
    /\ UNCHANGED crashed

Next == \E s \in Sites : Crash(s) \/ Restart(s) \/ \E p \in Sites : MergeEnds(s, p) \/ Unpeer(s, p)

\* A crashed process is started again; the cron tries every peer each second.
Fairness == \A s \in Sites : /\ WF_sitesVars(Restart(s))
                             /\ \A p \in Sites : WF_sitesVars(MergeEnds(s, p))

Spec == Init /\ [][Next]_sitesVars /\ Fairness

-----------------------------------------------------------------------------
(* Properties. *)

\* Sites that all wait for one of themselves.
Circle(C) == \A s \in C : sites[s].loading /\ sites[s].owes \cap C # {}

\* peerBackStream and tryCleanCrdtServerLoading: every site serves clients
\* again, unless it waits, directly or through others, for sites that wait for
\* each other; no other reason keeps a site loading.
RecoveredUnlessCircle ==
    \A s \in Sites : /\ sites[s].up
                     /\ sites[s].loading => \E C \in SUBSET Sites : s \in C /\ Circle(C)

\* A site serves clients only when nobody owes it data, and shuts them out only
\* while somebody does: whatever peers were down when it asked.
LoadingIffOwed ==
    \A s \in Sites : sites[s].up => (sites[s].loading <=> sites[s].owes # {})
=============================================================================
