--------------------------- MODULE MergeCommands ---------------------------
(***************************************************************************)
(* The data of a full synchronisation between sites, key by key: the child *)
(* of the sender filters and splits every value and tombstone into         *)
(* CRDT.MERGE and CRDT.MERGE_DEL commands of a bounded size                *)
(* (ctrip_crdt_rdb.c), and the receiver merges them while its own clients  *)
(* write, watch and run transactions.                                      *)
(*                                                                         *)
(* A value is its type and, for every field and site, the clock of the     *)
(* site's last write of the field; a tombstone has the clocks of what was  *)
(* deleted, 0 for nothing.  Merging takes the later clock, and purging     *)
(* takes the deleted writes out of the value and drops a tombstone whose   *)
(* every clock the value has overtaken, as the methods of the CRDT module  *)
(* (external) are used here and tests/ctrip/unit/crdt_set.tcl shows them.  *)
(* What the sender writes after the fork is in its stream, not here.       *)
(***************************************************************************)
EXTENDS Integers, Sequences, FiniteSets, FiniteSetsExt, SequencesExt

CONSTANTS MergeKeys, MergeTypes, MergeFields,
          PieceSize,        \* proto_max_bulk_len, in fields
          LargeFields,      \* fields that alone exceed proto_max_bulk_len
          Expires,          \* expire times, positive
          MaxSenderOps, MaxReceiverOps, MaxMergeBreaks   \* bounds

VARIABLES from, to,         \* the databases of sender and receiver
          merging,          \* the commands on their way
          sync,             \* "none", "running", "failing" (the child gave up) or "ended"
          seen,             \* the receiver's clock of the sender
          transfers,        \* how often the sender's connection was cancelled
          watch,            \* per key: "no", "watching", "dirty"
          moved,            \* ghost: watched keys whose value changed since they were watched
          unseen,           \* ghost: an EXEC ran though a watched key had changed
          conflict,         \* ghost: keys the receiver met with two types
          gone,             \* ghost: per key, the clocks the receiver ever knew deleted
          ops               \* operations of the two sites so far

mgVars == <<from, to, merging, sync, seen, transfers, watch, moved, unseen, conflict, gone, ops>>

Units == MergeFields \X {"sender", "receiver"}
NoClocks == [u \in Units |-> 0]
NoType == "none"
Nothing == [type |-> NoType, vc |-> NoClocks]
NoExpire == -1
EmptySite == [val |-> [k \in MergeKeys |-> Nothing], tomb |-> [k \in MergeKeys |-> Nothing],
              exp |-> [k \in MergeKeys |-> NoExpire]]

Init ==
    /\ from = EmptySite /\ to = EmptySite
    /\ merging = <<>> /\ sync = "none" /\ seen = 0 /\ transfers = 0
    /\ watch = [k \in MergeKeys |-> "no"] /\ moved = {} /\ unseen = FALSE
    /\ conflict = {} /\ gone = [k \in MergeKeys |-> NoClocks] /\ ops = [sender |-> 0, receiver |-> 0]

-----------------------------------------------------------------------------
(* Commands of the sites' clients (external: the CRDT module) *)

Later(a, b) == [u \in Units |-> Max({a[u], b[u]})]

CanWrite(site, k, t) == site.val[k].type \in {NoType, t}

\* A write of a field at the clock of the site, into a value of its type.
Wrote(site, k, t, f, who, clock) ==
    [site EXCEPT !.val[k] = [type |-> t, vc |-> [@.vc EXCEPT ![<<f, who>>] = clock]]]

FieldsOf(v) == {f \in MergeFields : \E u \in Units : u[1] = f /\ v.vc[u] # 0}

\* A deletion of some fields or of all, remembered in a tombstone of the
\* value's type: what the value holds of them, at the clock of the deletion.
Deleted(site, k, fields, who, clock) ==
    LET v == site.val[k]
        left == [u \in Units |-> IF u[1] \in fields THEN 0 ELSE v.vc[u]]
        del == [u \in Units |-> IF u[1] \notin fields THEN 0
                                ELSE IF u[2] = who THEN clock ELSE v.vc[u]]
        old == IF site.tomb[k].type = v.type THEN site.tomb[k].vc ELSE NoClocks
    IN  [site EXCEPT !.val[k] = IF left = NoClocks THEN Nothing ELSE [@ EXCEPT !.vc = left],
                     !.exp[k] = IF left = NoClocks THEN NoExpire ELSE @,
                     !.tomb[k] = [type |-> v.type, vc |-> Later(old, del)]]

\* What a command of a client makes of a site's key.
Commands(site, k, who, clock) ==
    {Wrote(site, k, t, f, who, clock) : t \in {u \in MergeTypes : CanWrite(site, k, u)}, f \in MergeFields}
    \cup {Deleted(site, k, fs, who, clock) : fs \in SUBSET FieldsOf(site.val[k]) \ {{}}}
    \cup {[site EXCEPT !.exp[k] = x] :
            x \in {y \in Expires : site.val[k] # Nothing /\ site.exp[k] = NoExpire}}

SenderOp ==
    /\ sync \in {"none", "ended"} /\ ops.sender < MaxSenderOps
    /\ \E k \in MergeKeys : from' \in Commands(from, k, "sender", ops.sender + 1)
    /\ ops' = [ops EXCEPT !.sender = @ + 1]
    /\ sync' = "none"
    /\ UNCHANGED <<to, merging, seen, transfers, watch, moved, unseen, conflict, gone>>

Touched(k) == [watch EXCEPT ![k] = IF @ = "watching" THEN "dirty" ELSE @]

\* A client of the receiver writes or deletes, and the keys it watches learn of it.
ReceiverOp ==
    /\ ops.receiver < MaxReceiverOps
    /\ \E k \in MergeKeys :
        /\ to' \in Commands(to, k, "receiver", ops.receiver + 1)
        /\ watch' = Touched(k)
        /\ gone' = [gone EXCEPT ![k] = Later(@, to'.tomb[k].vc)]
        /\ conflict' = (IF to.tomb[k] # Nothing /\ to.val[k].type \notin {NoType, to.tomb[k].type}
                        THEN conflict \cup {k} ELSE conflict)
    /\ ops' = [ops EXCEPT !.receiver = @ + 1]
    /\ UNCHANGED <<from, merging, sync, seen, transfers, moved, unseen>>

WatchKey(k) ==
    /\ watch[k] = "no" /\ watch' = [watch EXCEPT ![k] = "watching"]
    /\ moved' = moved \ {k}
    /\ UNCHANGED <<from, to, merging, sync, seen, transfers, unseen, conflict, gone, ops>>

\* EXEC: refused when a watched key is dirty; afterwards nothing is watched.
Exec ==
    /\ \E k \in MergeKeys : watch[k] # "no"
    /\ unseen' = (unseen \/ ((\A k \in MergeKeys : watch[k] # "dirty") /\ moved # {}))
    /\ watch' = [k \in MergeKeys |-> "no"] /\ moved' = {}
    /\ UNCHANGED <<from, to, merging, sync, seen, transfers, conflict, gone, ops>>

-----------------------------------------------------------------------------
(* The sender's child *)

\* filterAndSplit2 (external) of a value: the sender's writes that are newer
\* than min_vc.  Of a tombstone: all of it, when some deletion is newer.
NewerThan(cmd, v, min_vc) ==
    LET new == {u \in Units : u[2] = "sender" /\ v.vc[u] > min_vc}
    IN  [u \in Units |-> IF u \in new \/ (cmd = "merge_del" /\ new # {}) THEN v.vc[u] ELSE 0]

\* And then: pieces of at most PieceSize fields.
FilterAndSplit2(cmd, v, min_vc) ==
    LET vc == NewerThan(cmd, v, min_vc)
        s == SetToSortSeq(FieldsOf([vc |-> vc]), <)
        n == (Len(s) + PieceSize - 1) \div PieceSize
        Piece(i) == ToSet(SubSeq(s, (i - 1) * PieceSize + 1, Min({i * PieceSize, Len(s)})))
    IN [i \in 1..n |-> [type |-> v.type,
                        vc |-> [u \in Units |-> IF u[1] \in Piece(i) THEN vc[u] ELSE 0]]]

\* Length -1, "value is too big": a field that no piece can hold.
TooBig(r, min_vc) ==
    r.cmd = "merge" /\ FieldsOf([vc |-> NewerThan(r.cmd, r.val, min_vc)]) \cap LargeFields # {}

\* One key: a command per piece, each with the expire of the key.
crdtSendMergeRequest2(r, min_vc) ==
    LET p == FilterAndSplit2(r.cmd, r.val, min_vc) IN [i \in DOMAIN p |-> [r EXCEPT !.val = p[i]]]

\* The values of the database, then its tombstones, up to the first that is too
\* big: it fails the save, after the keys before it went out.
crdtRdbSaveRio(min_vc) ==
    LET keys == SetToSortSeq(MergeKeys, <)
        reqs == [i \in DOMAIN keys |-> [cmd |-> "merge", key |-> keys[i],
                                        val |-> from.val[keys[i]], exp |-> from.exp[keys[i]]]]
                \o [i \in DOMAIN keys |-> [cmd |-> "merge_del", key |-> keys[i],
                                           val |-> from.tomb[keys[i]], exp |-> NoExpire]]
        bad == SelectInSeq(reqs, LAMBDA r : TooBig(r, min_vc))
        sent == IF bad = 0 THEN reqs ELSE SubSeq(reqs, 1, bad - 1)
    IN  [ok |-> bad = 0,
         cmds |-> FlattenSeq([i \in DOMAIN sent |-> crdtSendMergeRequest2(sent[i], min_vc)])]

\* One fork serves all receivers that wait: min_vc is the least of their clocks.
FullSync ==
    /\ sync = "none" /\ from # EmptySite
    /\ \E min_vc \in 0..seen :
        LET save == crdtRdbSaveRio(min_vc) IN
        /\ merging' = save.cmds
        /\ sync' = IF save.ok THEN "running" ELSE "failing"
    /\ UNCHANGED <<from, to, seen, transfers, watch, moved, unseen, conflict, gone, ops>>

-----------------------------------------------------------------------------
(* The receiver *)

SameType(a, b) == a.type = b.type

\* purge, when value and tombstone have one type: the deleted writes leave the
\* value; PURGE_VAL deletes a value with none left, PURGE_TOMBSTONE a tombstone
\* that the value has overtaken everywhere.
Purged(site, k) ==
    LET val == site.val[k]
        tomb == site.tomb[k]
        left == [u \in Units |-> IF val.vc[u] > tomb.vc[u] THEN val.vc[u] ELSE 0]
        overtaken == \A u \in Units : tomb.vc[u] # 0 => val.vc[u] > tomb.vc[u]
    IN  IF val = Nothing \/ ~SameType(tomb, val) THEN site
        ELSE IF left = NoClocks THEN [site EXCEPT !.val[k] = Nothing, !.exp[k] = NoExpire]
        ELSE [site EXCEPT !.val[k].vc = left, !.tomb[k] = IF overtaken THEN Nothing ELSE @]

Apply(k, site, clash) ==
    /\ to' = site
    /\ conflict' = (IF clash THEN conflict \cup {k} ELSE conflict)
    /\ moved' = (IF watch[k] # "no" /\ site.val[k] # to.val[k] THEN moved \cup {k} ELSE moved)

MergedVal(k, v) == [type |-> v.type, vc |-> Later(to.val[k].vc, v.vc)]

\* Seeded fault: the tombstone is not asked.
mergeCrdtObjectCommand_NoPurge(m) ==
    Apply(m.key, [to EXCEPT !.val[m.key] = MergedVal(m.key, m.val)],
          to.val[m.key] # Nothing /\ ~SameType(to.val[m.key], m.val))

\* mergeCrdtObjectCommand: a value of another type is refused; the merged value
\* is purged by a tombstone of its type, which it may overtake; the later
\* expire stands.  The key signalled to watchers is argv[1], the sender's gid:
\* no watched key learns of the change.
mergeCrdtObjectCommand(m) ==
    LET k == m.key
        x == IF to.exp[k] # NoExpire THEN Max({to.exp[k], m.exp}) ELSE m.exp
        clash == to.val[k] # Nothing /\ ~SameType(to.val[k], m.val)
    IN Apply(k, IF clash THEN to
                ELSE Purged([to EXCEPT !.val[k] = MergedVal(k, m.val), !.exp[k] = x], k),
             clash \/ (to.tomb[k] # Nothing /\ ~SameType(to.tomb[k], m.val)))

\* crdtMergeTomstoneCommand: tombstones of one type merge, then purge the value
\* or are overtaken by it.
crdtMergeTomstoneCommand(m) ==
    LET k == m.key
        tomb == [type |-> m.val.type, vc |-> Later(to.tomb[k].vc, m.val.vc)]
        clash == to.tomb[k] # Nothing /\ ~SameType(to.tomb[k], m.val)
    IN Apply(k, IF clash THEN to ELSE Purged([to EXCEPT !.tomb[k] = tomb], k),
             clash \/ (to.val[k] # Nothing /\ ~SameType(tomb, to.val[k])))

Merge ==
    /\ merging # <<>>
    /\ LET m == Head(merging) IN
       IF m.cmd = "merge"
       THEN mergeCrdtObjectCommand(m) /\ gone' = gone
       ELSE crdtMergeTomstoneCommand(m) /\ gone' = [gone EXCEPT ![m.key] = Later(@, m.val.vc)]
    /\ merging' = Tail(merging)
    /\ UNCHANGED <<from, sync, seen, transfers, watch, unseen, ops>>

\* CRDT.MERGE_END: the receiver has all of the sender up to the fork.
MergeEnds ==
    /\ sync = "running" /\ merging = <<>>
    /\ sync' = "ended" /\ seen' = ops.sender
    /\ UNCHANGED <<from, to, merging, transfers, watch, moved, unseen, conflict, gone, ops>>

\* crdtCancelReplicationHandshake: a payload that does not verify, or a lost
\* connection; the synchronisation starts again.
MergeBreaks ==
    /\ sync = "running" /\ transfers < MaxMergeBreaks
    /\ merging' = <<>> /\ sync' = "none" /\ transfers' = transfers + 1
    /\ UNCHANGED <<from, to, seen, watch, moved, unseen, conflict, gone, ops>>

\* The child failed: the sender closes the connection, with part of what the
\* child wrote merged or all of it.
SaveFails ==
    /\ sync = "failing"
    /\ merging' = <<>> /\ sync' = "none"
    /\ UNCHANGED <<from, to, seen, transfers, watch, moved, unseen, conflict, gone, ops>>

Next ==
    \/ SenderOp \/ ReceiverOp \/ Exec
    \/ \E k \in MergeKeys : WatchKey(k)
    \/ FullSync \/ Merge \/ MergeEnds \/ MergeBreaks \/ SaveFails

Spec == Init /\ [][Next]_mgVars

-----------------------------------------------------------------------------
(* Properties *)

\* Once a full synchronisation has ended, what the receiver holds of the
\* sender's writes is what the sender holds: each live write is there unless
\* the receiver knows it deleted, and none is that the sender has deleted or
\* written anew, whatever was filtered, split, broken off and sent again,
\* unless a key met another type (crdtSendMergeRequest2,
\* mergeCrdtObjectCommand, crdtMergeTomstoneCommand).
MergedAll ==
    sync = "ended" =>
        \A k \in MergeKeys \ conflict, f \in MergeFields :
            LET u == <<f, "sender">> IN
            \/ to.val[k].vc[u] = from.val[k].vc[u]
            \/ to.val[k].vc[u] = 0 /\ from.val[k].vc[u] =< gone[k][u]

\* Whatever the order of merges, deletions and local writes, a write that a
\* site ever knew to be deleted is not in its value again, even when the
\* tombstone itself was overtaken and dropped.
NeverResurrected ==
    \A k \in MergeKeys \ conflict, u \in Units :
        to.val[k].vc[u] # 0 => to.val[k].vc[u] > gone[k][u]

\* db.c: "Every time a key in the database is modified the function
\* signalModifiedKey() is called", so that no EXEC runs after a key its client
\* watches has changed.
WatchSeesMerges == ~unseen
=============================================================================
