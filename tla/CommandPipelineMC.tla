------------------------- MODULE CommandPipelineMC -------------------------
(***************************************************************************)
(* Values of CommandPipeline's constants for TLC: one command of each kind *)
(* the handler tells apart, valid at times 0 and 1 and late from 2 on.     *)
(***************************************************************************)
EXTENDS CommandPipeline

MCThree == {"door", "restart", "unknown"}

MCKind == [c \in Cmd |-> CASE c = "door" -> "OPEN_DOOR"
                           [] c = "restart" -> "RESERVED"
                           [] c = "unknown" -> "UNKNOWN"]
MCIssued == [c \in Cmd |-> 0]
MCExpires == [c \in Cmd |-> 1]
=============================================================================
