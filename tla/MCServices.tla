---------------------------- MODULE MCServices -----------------------------
(***************************************************************************)
(* Instances of the job handler and of the scheduler for TLC.  They share  *)
(* no variable, so that their interleavings show nothing: each moves alone *)
(* while the other stays where it begins.                                  *)
(***************************************************************************)
EXTENDS Services, TLC

CONSTANTS j1, j2, j3, a, b, once, cron, right

VARIABLE part

(* Two jobs of one jar, one of another.                                    *)
TwoJars == [j \in Job |-> IF j \in {j1, j2} THEN a ELSE b]

Init ==
    /\ part \in {"jobs", "scheduling"}
    /\ JobsInit /\ SchedulingInit
    /\ part # "scheduling" => rows = [t \in Task |-> [enabled |-> FALSE, setting |-> right]]

Next ==
    /\ IF part = "jobs" THEN JobsNext ELSE UNCHANGED jobsVars
    /\ IF part = "scheduling" THEN SchedulingNext ELSE UNCHANGED schedulingVars
    /\ UNCHANGED part

Spec == Init /\ [][Next]_<<jobsVars, schedulingVars, part>> /\ JobsFairness
=============================================================================
