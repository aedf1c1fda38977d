---------------------------- MODULE MCProviders -----------------------------
EXTENDS Providers

CONSTANTS s1, s2, chat

MCStages == {s1}
MCTwoStages == {s1, s2}
MCChats == {chat}
MCNone == {}
MCAnswers == {"ok", "fails", "late"}
=============================================================================
