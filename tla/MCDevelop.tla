----------------------------- MODULE MCDevelop ------------------------------
EXTENDS Develop

CONSTANTS p1, p2

\* Every plan of at most four lines; two tasks and a sidecar, with an entry to
\* repair or of no use.
MCPlans ==
  [lines : UNION {[1..n -> LineKinds] : n \in 0..4}, entries : {<<>>}] \cup
  [lines : {<<"task heading", "bullet", "bullet">>},
   entries : {<<"complete", "partial", "complete">>, <<"complete", "not an object">>}]
\* By default two roles; one of the roles asked for is known; none of them is.
MCRequests == {[asked |-> FALSE, valid |-> 0], [asked |-> TRUE, valid |-> 1],
               [asked |-> TRUE, valid |-> 0]}
MCAll == {"ours", "abort", "diff3"}
MCDefault == {"ours"}
MCDiff3 == {"diff3"}
MCThreeTasks == {[lines |-> <<"task heading", "bullet", "bullet", "bullet">>, entries |-> <<>>]}
=============================================================================
