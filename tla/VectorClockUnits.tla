-------------------------- MODULE VectorClockUnits --------------------------
(***************************************************************************)
(* The array algorithms of ctrip_vector_clock.c.                           *)
(*                                                                         *)
(* A clock is an array of (gid, clock) units.  Units are found by a search *)
(* from the left, new ones are put last and the array is sorted by gid,    *)
(* and two clocks are merged by walking both arrays from the left, which   *)
(* counts on that order.  The module shows that these algorithms compute   *)
(* the operators of VectorClock: Spec implements ClockRegisters.           *)
(*                                                                         *)
(* A clock of one unit lives in the word that otherwise holds the pointer; *)
(* only resetVectorClock, which is handed that word by value, can tell     *)
(* (SiteRecovery has it).                                                  *)
(***************************************************************************)
EXTENDS VectorClock, Sequences, SequencesExt

ASSUME GidOrderAssumption == Gid \subseteq Nat

VARIABLES
    vclock1, vclock2,   \* the arrays of two clocks
    call                \* the function that was called last, with its arguments

vars == <<vclock1, vclock2, call>>

Unit(gid, clock) == [gid |-> gid, clock |-> clock]

\* sort_vector_clock_unit: by gid.
sortVectorClock(vc) == SortSeq(vc, LAMBDA u, v : u.gid < v.gid)

\* The index of the first unit of a gid, or 0 for NULL.
get_clock_unit(vc, gid) == SelectInSeq(vc, LAMBDA u : u.gid = gid)

addUnit(vc, gid, logic_time) ==
    LET i == get_clock_unit(vc, gid)
    IN  IF i # 0 THEN [vc EXCEPT ![i].clock = logic_time]
        ELSE sortVectorClock(Append(vc, Unit(gid, logic_time)))

incrUnit(vc, gid, delta) ==
    LET i == get_clock_unit(vc, gid)
    IN  IF i = 0 THEN vc ELSE [vc EXCEPT ![i].clock = @ + delta]

\* "flag" chooses the clock when both arrays hold the gid.
commonMergeFunction(dst, src, gid, flag) ==
    LET i == get_clock_unit(dst, gid)
        j == get_clock_unit(src, gid)
    IN  CASE j = 0 -> dst
          [] j # 0 /\ i = 0 -> sortVectorClock(Append(dst, Unit(gid, src[j].clock)))
          [] OTHER -> [dst EXCEPT ![i].clock =
                          IF flag = "CLOCK_UNIT_MAX" THEN max(src[j].clock, @)
                                                     ELSE src[j].clock]

count_all_gid_num(dst, src) ==
    Cardinality({dst[i].gid : i \in DOMAIN dst} \cup {src[i].gid : i \in DOMAIN src})

\* The two walks over a pair of sorted arrays: "flag" chooses the clock of a gid
\* that both hold; one that only one of them holds counts as it is, or as 0.
walk(a, b, flag) ==
    LET both(c, d) == IF flag = "max" THEN max(c, d) ELSE min(c, d)
        single(c) == IF flag = "max" THEN c ELSE 0
        Rest(s, i) == [k \in 1..(Len(s) - i + 1) |->
                          Unit(s[i + k - 1].gid, single(s[i + k - 1].clock))]
        loop[i \in 1..(Len(a) + 1), j \in 1..(Len(b) + 1)] ==
            IF i > Len(a) THEN Rest(b, j)
            ELSE IF j > Len(b) THEN Rest(a, i)
            ELSE IF a[i].gid = b[j].gid
                 THEN <<Unit(a[i].gid, both(a[i].clock, b[j].clock))>> \o loop[i + 1, j + 1]
            ELSE IF a[i].gid > b[j].gid
                 THEN <<Unit(b[j].gid, single(b[j].clock))>> \o loop[i, j + 1]
                 ELSE <<Unit(a[i].gid, single(a[i].clock))>> \o loop[i + 1, j]
    IN  loop[1, 1]

mergeMax(a, b) ==
    CASE a = <<>> -> b
      [] a # <<>> /\ b = <<>> -> a
      [] a # <<>> /\ b # <<>> /\ count_all_gid_num(a, b) = 1 ->
            [b EXCEPT ![1].clock = max(@, a[1].clock)]
      [] OTHER -> walk(sortVectorClock(a), sortVectorClock(b), "max")

cleanVectorClock(vc) == [i \in DOMAIN vc |-> Unit(vc[i].gid, 0)]

\* Seeded fault: with an unknown clock the known one is kept.
mergeMin_NoClean(a, b) ==
    CASE a = <<>> -> b
      [] a # <<>> /\ b = <<>> -> a
      [] a # <<>> /\ b # <<>> /\ count_all_gid_num(a, b) = 1 ->
            [b EXCEPT ![1].clock = min(@, a[1].clock)]
      [] OTHER -> walk(sortVectorClock(a), sortVectorClock(b), "min")

mergeMin(a, b) ==
    CASE a = <<>> -> cleanVectorClock(b)
      [] a # <<>> /\ b = <<>> -> cleanVectorClock(a)
      [] a # <<>> /\ b # <<>> /\ count_all_gid_num(a, b) = 1 ->
            [b EXCEPT ![1].clock = min(@, a[1].clock)]
      [] OTHER -> walk(sortVectorClock(a), sortVectorClock(b), "min")

monoUnit(src, gid) ==
    LET i == get_clock_unit(src, gid)
    IN  IF i = 0 THEN <<>> ELSE <<src[i]>>

purgeUnits(target, src) ==
    LET Survives(u) == LET i == get_clock_unit(src, u.gid)
                       IN  IF i = 0 THEN u.clock # 0 ELSE src[i].clock < u.clock
    IN  IF target = <<>> \/ src = <<>> THEN target
        ELSE sortVectorClock(SelectSeq(target, Survives))

monoIncrUnits(current, future) ==
    /\ current # <<>>
    /\ future # <<>>
    /\ Len(current) =< Len(future)
    /\ \A i \in DOMAIN current :
         LET j == get_clock_unit(future, current[i].gid)
         IN  /\ ~(j = 0 /\ current[i].clock # 0)
             /\ j # 0 => ~(future[j].clock < current[i].clock)

\* Equal unit by unit, in the order of the arrays.
VectorClockEqual(a, b) ==
    /\ Len(a) = Len(b)
    /\ \A i \in DOMAIN a : a[i].gid = b[i].gid /\ a[i].clock = b[i].clock

vcuOf(vc, gid) == LET i == get_clock_unit(vc, gid) IN IF i = 0 THEN 0 ELSE vc[i].clock

\* "<gid>:<clock>;<gid>:<clock>", a text of one field per unit, and back.  A
\* field fills the GIDSIZE bits of the gid; reading does not sort.
GidBits == 4

vectorClockToSds(vc) == [i \in DOMAIN vc |-> <<vc[i].gid, vc[i].clock>>]

sdsToVectorClock(text) == [i \in DOMAIN text |-> Unit(text[i][1] % 2 ^ GidBits, text[i][2])]

-----------------------------------------------------------------------------
Init == vclock1 = <<>> /\ vclock2 = <<>> /\ call = <<"none">>

Add(g, t) ==
    /\ vclock1' = addUnit(vclock1, g, t)
    /\ call' = <<"addVectorClockUnit", g, t>>

Incr(g) ==
    /\ vcuOf(vclock1, g) < MaxClock
    /\ vclock1' = incrUnit(vclock1, g, 1)
    /\ call' = <<"incrLogicClock", g>>

Update(g, currentGid) ==
    /\ vclock1' = commonMergeFunction(vclock1, vclock2, g,
                      IF g = currentGid THEN "CLOCK_UNIT_ALIGN" ELSE "CLOCK_UNIT_MAX")
    /\ call' = <<"updateProcessVectorClock", g, currentGid>>

MergeUnit(g) ==
    /\ vclock1' = commonMergeFunction(vclock1, vclock2, g, "CLOCK_UNIT_MAX")
    /\ call' = <<"mergeLogicClock", g>>

MergeMax ==
    /\ vclock1' = mergeMax(vclock1, vclock2)
    /\ call' = <<"vectorClockMerge">>

MergeMin ==
    /\ vclock1' = mergeMin(vclock1, vclock2)
    /\ call' = <<"mergeMinVectorClock">>

Mono(g) ==
    /\ vclock1' = monoUnit(vclock2, g)
    /\ call' = <<"getMonoVectorClock", g>>

Purge ==
    /\ vclock1' = purgeUnits(vclock1, vclock2)
    /\ call' = <<"purgeVectorClock">>

\* A clock that is sent to another site and read there.
Copy ==
    /\ vclock1' = sdsToVectorClock(vectorClockToSds(vclock2))
    /\ call' = <<"sdsToVectorClock">>

Next ==
    \/ /\ \/ \E g \in Gid : \/ \E t \in 0..MaxClock : Add(g, t)
                            \/ Incr(g)
                            \/ \E h \in Gid : Update(g, h)
                            \/ MergeUnit(g)
                            \/ Mono(g)
          \/ MergeMax
          \/ MergeMin
          \/ Purge
          \/ Copy
       /\ UNCHANGED vclock2
    \/ vclock1' = vclock2 /\ vclock2' = vclock1 /\ call' = <<"none">>

Spec == Init /\ [][Next]_vars

-----------------------------------------------------------------------------
\* The clock that an array stands for: what a search finds in it.
Clock(vc) == [g \in {vc[i].gid : i \in DOMAIN vc} |-> vcuOf(vc, g)]

\* Every array the library hands out is sorted by gid and holds a gid once;
\* vectorClockMerge, mergeMinVectorClock and VectorClockEqual count on it.
Sorted ==
    \A vc \in {vclock1, vclock2} : \A i, j \in DOMAIN vc : i < j => vc[i].gid < vc[j].gid

\* The comparisons of two arrays are those of the clocks they stand for.
ComparisonsAgree ==
    /\ monoIncrUnits(vclock1, vclock2) <=> isVectorClockMonoIncr(Clock(vclock1), Clock(vclock2))
    /\ VectorClockEqual(vclock1, vclock2) <=> Clock(vclock1) = Clock(vclock2)

Registers == INSTANCE ClockRegisters WITH one <- Clock(vclock1), other <- Clock(vclock2)

\* The array algorithms compute the operators on clocks that the models of
\* the protocols use.
ImplementsClocks == Registers!Spec
=============================================================================
