---------------------------- MODULE VectorClock ----------------------------
(***************************************************************************)
(* The vector clocks of ctrip_vector_clock.c.                              *)
(*                                                                         *)
(* A vector clock is an array of (gid, logic clock) units, one per gid it  *)
(* knows.  Here it is the function from the gids it holds a unit for to    *)
(* the logic clock of that unit.  A unit that is absent and a unit whose   *)
(* clock is zero are different values: the length of a clock decides       *)
(* isVectorClockMonoIncr.  The order of the units in the array is left to  *)
(* VectorClockUnits, which shows that every operation below is computed by *)
(* the array algorithm of the source.                                      *)
(***************************************************************************)
EXTENDS Integers, FiniteSets

CONSTANTS
    Gid,        \* the group ids of the sites: at most MAX_PEERS in the code
    MaxClock    \* bound: the largest logic clock, 2^56 - 1 in the code

ASSUME GidAssumption == IsFiniteSet(Gid) /\ Gid # {}

ASSUME MaxClockAssumption == MaxClock \in Nat

VectorClocks == UNION {[D -> 0..MaxClock] : D \in SUBSET Gid}

max(x, y) == IF x > y THEN x ELSE y

min(x, y) == IF x > y THEN y ELSE x

\* newVectorClock(0), the clock without a unit.
NullVectorClock == [g \in {} |-> 0]

isNullVectorClock(vc) == DOMAIN vc = {}

\* The logic clock of a gid, zero when the clock holds no unit for it.
get_vcu_from_vc(vc, gid) == IF gid \in DOMAIN vc THEN vc[gid] ELSE 0

addVectorClockUnit(vc, gid, logic_time) ==
    [g \in DOMAIN vc \cup {gid} |-> IF g = gid THEN logic_time ELSE vc[g]]

\* A clock without a unit for the gid is left alone.
incrLogicClock(vc, gid, delta) ==
    IF gid \in DOMAIN vc THEN [vc EXCEPT ![gid] = @ + delta] ELSE vc

\* commonMergeFunction with CLOCK_UNIT_MAX: one unit only.
mergeLogicClock(dst, src, gid) ==
    IF gid \in DOMAIN src
    THEN addVectorClockUnit(dst, gid, max(src[gid], get_vcu_from_vc(dst, gid)))
    ELSE dst

\* commonMergeFunction with CLOCK_UNIT_ALIGN.
alignLogicClock(dst, src, gid) ==
    IF gid \in DOMAIN src THEN addVectorClockUnit(dst, gid, src[gid]) ELSE dst

updateProcessVectorClock(dst, src, gid, currentGid) ==
    IF gid = currentGid THEN alignLogicClock(dst, src, gid)
                        ELSE mergeLogicClock(dst, src, gid)

\* The least clock that is above both.
vectorClockMerge(a, b) ==
    [g \in DOMAIN a \cup DOMAIN b |->
        max(get_vcu_from_vc(a, g), get_vcu_from_vc(b, g))]

\* A gid that only one of the two clocks knows gets clock zero.
mergeMinVectorClock(a, b) ==
    [g \in DOMAIN a \cup DOMAIN b |->
        min(get_vcu_from_vc(a, g), get_vcu_from_vc(b, g))]

\* "current" happened before, or is, "future".  A null clock is comparable
\* with nothing, and a longer clock is never below a shorter one, not even
\* when its additional units are zero.
isVectorClockMonoIncr(current, future) ==
    /\ ~isNullVectorClock(current)
    /\ ~isNullVectorClock(future)
    /\ Cardinality(DOMAIN current) =< Cardinality(DOMAIN future)
    /\ \A g \in DOMAIN current : current[g] =< get_vcu_from_vc(future, g)

\* The clock of one gid on its own.
getMonoVectorClock(src, gid) ==
    IF gid \in DOMAIN src THEN [g \in {gid} |-> src[gid]] ELSE NullVectorClock

\* The units of "target" that "src" does not cover.
purgeVectorClock(target, src) ==
    IF isNullVectorClock(src)
    THEN target
    ELSE [g \in {h \in DOMAIN target : get_vcu_from_vc(src, h) < target[h]} |->
            target[g]]
=============================================================================
