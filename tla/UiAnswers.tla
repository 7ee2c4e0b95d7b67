----------------------------- MODULE UiAnswers ------------------------------
(***************************************************************************)
(* The pages that show what the server answers: tasks of an Oozie server,  *)
(* jobs of a Livy server, checks and tests of expressions.  They share no  *)
(* state; this module states what is common to them.                       *)
(***************************************************************************)
EXTENDS UiTasks, UiLivy, UiProjection, UiAggregation

(* What a page shows of the server's answers, it shows of what it was      *)
(* asked for: below a row of the two runtime servers, and counted in it,   *)
(* what belongs to it, in whatever order the answers come; the message of  *)
(* a check at the field that was checked; a cup of coffee for a test.      *)
AnswersAreShownWhereAsked ==
    RejectsAddUp /\ JobsAreTheirOwn /\ VerdictIsOfTheSelected /\ CoffeeIsForATest
=============================================================================
