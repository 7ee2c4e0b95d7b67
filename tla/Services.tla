------------------------------ MODULE Services ------------------------------
(***************************************************************************)
(* The two services that run without a user at a page: the job handler and *)
(* the scheduler.  They share no state; this module states what is common  *)
(* to them.                                                                *)
(***************************************************************************)
EXTENDS LivyJobs, Scheduling

(* Every variable of the two has its type. *)
ServicesTypeOK == JobsTypeOK /\ SchedulingTypeOK
=============================================================================
