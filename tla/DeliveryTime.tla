---------------------------- MODULE DeliveryTime ----------------------------
(***************************************************************************)
(* resolveNextDeliveryAt (packages/knowledge-model/src/scheduler.ts): the  *)
(* instant at which a review that is due is delivered, from the learner's  *)
(* chosen wall-clock time and zone.                                        *)
(*                                                                         *)
(* Time is counted in hours.  A zone has one transition: before the        *)
(* instant at its clock is offset by before, from then on by after.  A     *)
(* wall time is the number of hours the clock of the zone has shown since  *)
(* its day 0.                                                              *)
(***************************************************************************)
EXTENDS Integers, FiniteSets, FiniteSetsExt

CONSTANT MaxDayOffset  \* days searched after the due date; 370 in the code

(* The zone's offset in force at an instant. *)
Offset(zone, instant) == IF instant < zone.at THEN zone.before ELSE zone.after

(* localParts: what the clock shows. *)
Local(zone, instant) == instant + Offset(zone, instant)

(* candidateOffsets: the offsets sampled every six hours around the wall   *)
(* time taken as UTC.                                                      *)
CandidateOffsets(zone, wall) ==
    {Offset(zone, wall + h) : h \in {-36, -30, -24, -18, -12, -6, 0, 6, 12, 18, 24, 30, 36}}

(* possibleInstants: when the clock shows the wall time; twice in a fold,  *)
(* never in a gap.                                                         *)
PossibleInstants(zone, wall) ==
    {i \in {wall - o : o \in CandidateOffsets(zone, wall)} : Local(zone, i) = wall}

(* gapShiftedInstants: the wall time moved on by the length of the gap. *)
GapShiftedInstants(zone, wall) ==
    LET offsets == CandidateOffsets(zone, wall) IN
    PossibleInstants(zone, wall + Max(offsets) - Min(offsets))

Candidates(zone, wall) ==
    IF PossibleInstants(zone, wall) = {} THEN GapShiftedInstants(zone, wall)
    ELSE PossibleInstants(zone, wall)

(* The candidates of the n-th local date from the one the due instant is on. *)
Qualifying(due, zone, hour, n) ==
    {i \in Candidates(zone, 24 * (Local(zone, due) \div 24 + n) + hour) : i >= due}

(* Mutant of ResolveNextDeliveryAt: in a fold the later occurrence is taken. *)
ResolveLatest(due, zone, hour) ==
    LET days == {n \in 0..MaxDayOffset : Qualifying(due, zone, hour, n) # {}}
    IN  Max(Qualifying(due, zone, hour, Min(days)))

(* The least qualifying instant of the first date that has one. *)
ResolveNextDeliveryAt(due, zone, hour) ==
    LET days == {n \in 0..MaxDayOffset : Qualifying(due, zone, hour, n) # {}}
    IN  Min(Qualifying(due, zone, hour, Min(days)))

-----------------------------------------------------------------------------
(* The reference: the clock strikes for a learner who chose hour when it   *)
(* shows that hour, or, on a day whose clock skips it, when it shows the   *)
(* hour moved on by what was skipped.                                      *)
Skipped(zone, wall) == \A i \in (wall - 24)..(wall + 24) : Local(zone, i) # wall

Strikes(zone, hour, i) ==
    \/ Local(zone, i) % 24 = hour
    \/ LET wall == Local(zone, i) - (zone.after - zone.before)
       IN  zone.after > zone.before /\ wall % 24 = hour /\ Skipped(zone, wall)

(* The first such instant that is not before the due one. *)
IsNextStrike(due, zone, hour, i) ==
    /\ i >= due /\ Strikes(zone, hour, i)
    /\ \A j \in due..(i - 1) : ~Strikes(zone, hour, j)
=============================================================================
