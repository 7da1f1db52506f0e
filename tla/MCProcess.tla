----------------------------- MODULE MCProcess -----------------------------
(* Model checking Process: the sets the .cfg files give its constants. *)
EXTENDS Process

MCPriorities == {OverlayPriority}
MCTwoPriorities == {1, OverlayPriority}
=============================================================================
