-------------------------- MODULE MCBackgroundWork --------------------------
(***************************************************************************)
(* Work that overlaps itself on one row: two operator commands that        *)
(* redrive one audio command under the one lease owner of the deployment,  *)
(* or calls that record the evidence of one concept and replay its         *)
(* schedule.  The two share nothing; a behaviour is one of them.           *)
(*                                                                         *)
(* Redrive: two copies and two request keys.  Schedule: three attempts,    *)
(* one more than a replay may hold.  The clock of the zone skips an hour   *)
(* or repeats one within the days the reviews fall due.                    *)
(***************************************************************************)
EXTENDS DlqRedrive, TLC

CONSTANTS Attempts, MaxLedger, MaxDayOffset, Judgments, Overrides, None

MCLeaseOwner == [o \in Operators |-> "redrive-01"]
Repaired == [key |-> "k1", reason |-> "configuration_repaired"]
Recovered == [key |-> "k2", reason |-> "provider_recovered"]
MCRequests == {Repaired, Recovered}

MCReviewedAt == <<30, 37, 41>>
MCSpring == [before |-> 1, after |-> 2, at |-> 49]
MCAutumn == [before |-> 2, after |-> 1, at |-> 49]
MCPreferences == {[zone |-> MCSpring, hour |-> 2], [zone |-> MCAutumn, hour |-> 2]}
MCNotBefore == [o1 |-> 90]

VARIABLES mark, stored, knowledge, schedule, override, prefers, recorded, outdated,
          holder, phase, job, pref, ledger, floor
VARIABLE part  \* the part whose behaviour this is

scheduleVars ==
    <<mark, stored, knowledge, schedule, override, prefers, recorded, outdated, holder, phase, job,
      pref, ledger, floor>>

Replay == INSTANCE ReviewSchedule WITH
    Workers <- Operators, ReviewedAt <- MCReviewedAt, Preferences <- MCPreferences,
    NotBefore <- MCNotBefore

ASSUME ScheduleBounds ==
    /\ Attempts \subseteq Nat /\ IsFiniteSet(Attempts)
    /\ MaxLedger \in Nat \ {0} /\ Judgments \subseteq Replay!Marks
    /\ None \notin Operators

WorkInit ==
    /\ part \in {"redrive", "schedule"}
    /\ Init /\ Replay!Init
    /\ part = "redrive" => prefers = CHOOSE p \in MCPreferences : TRUE
    /\ part = "schedule" => run = [o \in Operators |-> Repaired]

WorkNext ==
    \/ part = "redrive" /\ Next /\ UNCHANGED <<part, scheduleVars>>
    \/ part = "schedule" /\ Replay!Next /\ UNCHANGED <<part, vars>>

WorkSpec == WorkInit /\ [][WorkNext]_<<part, vars, scheduleVars>>

Symmetry == Permutations(Operators)

(* ReviewSchedule: no recorded evidence is lost. *)
RecordedIsSeen == Replay!RecordedIsSeen

(* ReviewSchedule: mastery, card and delivery time follow the evidence. *)
ScheduleFollows == Replay!ScheduleFollows
=============================================================================
