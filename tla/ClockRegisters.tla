--------------------------- MODULE ClockRegisters ---------------------------
(***************************************************************************)
(* What the vector clock library promises to its callers: two clocks, held *)
(* as functions from gids to logic clocks, and one action for every        *)
(* function of the library that makes a clock of them.                     *)
(***************************************************************************)
EXTENDS VectorClock

VARIABLES
    one, other,   \* the clocks
    call          \* the function that was called last, with its arguments

vars == <<one, other, call>>

Init == one = NullVectorClock /\ other = NullVectorClock /\ call = <<"none">>

Add(g, t) ==
    /\ call' = <<"addVectorClockUnit", g, t>>
    /\ one' = addVectorClockUnit(one, g, t)

Incr(g) ==
    /\ call' = <<"incrLogicClock", g>>
    /\ get_vcu_from_vc(one, g) < MaxClock
    /\ one' = incrLogicClock(one, g, 1)

Update(g, currentGid) ==
    /\ call' = <<"updateProcessVectorClock", g, currentGid>>
    /\ one' = updateProcessVectorClock(one, other, g, currentGid)

MergeUnit(g) ==
    /\ call' = <<"mergeLogicClock", g>>
    /\ one' = mergeLogicClock(one, other, g)

MergeMax ==
    /\ call' = <<"vectorClockMerge">>
    /\ one' = vectorClockMerge(one, other)

MergeMin ==
    /\ call' = <<"mergeMinVectorClock">>
    /\ one' = mergeMinVectorClock(one, other)

Mono(g) ==
    /\ call' = <<"getMonoVectorClock", g>>
    /\ one' = getMonoVectorClock(other, g)

Purge ==
    /\ call' = <<"purgeVectorClock">>
    /\ one' = purgeVectorClock(one, other)

Copy ==
    /\ call' = <<"sdsToVectorClock">>
    /\ one' = other

Next ==
    \/ /\ \/ \E g \in Gid : \/ \E t \in 0..MaxClock : Add(g, t)
                            \/ Incr(g)
                            \/ \E h \in Gid : Update(g, h)
                            \/ MergeUnit(g)
                            \/ Mono(g)
          \/ MergeMax
          \/ MergeMin
          \/ Purge
          \/ Copy
       /\ UNCHANGED other
    \/ one' = other /\ other' = one /\ call' = <<"none">>

Spec == Init /\ [][Next]_vars
=============================================================================
