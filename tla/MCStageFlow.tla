---------------------------- MODULE MCStageFlow -----------------------------
(* Small instances of StageFlow for TLC. *)
EXTENDS StageFlow

\* From the first stage to the last, up to plan, from review, and from plan up to
\* review.
MCRequests == {[from |-> INTERVIEW, to |-> DEVELOP], [from |-> INTERVIEW, to |-> PLAN],
               [from |-> PLAN, to |-> REVIEW], [from |-> DEVELOP, to |-> DEVELOP]}
MCSkippable == {PLAN}
\* Nothing, or the tasks of a plan without the plan; and everything it may.
MCFound == {[plan |-> 0, tasks |-> 0], [plan |-> 0, tasks |-> FOUND]}
MCFoundAny == [plan : {0, FOUND}, tasks : {0, FOUND}]
MCEmpty == {[plan |-> 0, tasks |-> 0]}
=============================================================================
