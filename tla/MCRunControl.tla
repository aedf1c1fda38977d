---------------------------- MODULE MCRunControl ----------------------------
(* Small instances of RunControl for TLC. *)
EXTENDS RunControl, TLC

CONSTANTS s1, s2, h1, h2

MCOneStart == {s1}
MCStarts == {s1, s2}
MCNoCall == {}
MCOneCall == {h1}
MCTwoCalls == {h1, h2}

MCPauseCancel == {"pause", "cancel"}
MCResume == {"resume"}
MCPause == {"pause"}
MCCancel == {"cancel"}
MCMcp == {"mcp_pause", "mcp_resume"}
MCBlocker == {"blocker", "resolve"}
MCWarning == {"warning", "resolve"}
MCControl == {"pause", "mcp_pause", "resume", "cancel", "mcp_cancel", "steer"}
MCAll == AllOps

MCAuto == {"auto"}
MCFresh == {"auto", "fresh"}
MCModes == Interview

\* Starts are interchangeable, and so are calls.
Symmetry == Permutations({s1, s2}) \cup Permutations({h1, h2})
=============================================================================
