----------------------------- MODULE MCSteering -----------------------------
EXTENDS Steering

\* The stages that matter, and one before and one between them.
MCStages == <<"design", "plan", "review", "develop">>
=============================================================================
