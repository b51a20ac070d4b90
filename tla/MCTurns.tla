------------------------------ MODULE MCTurns ------------------------------
EXTENDS TurnPersistence, TLC
CONSTANTS goalRequest, chat, slice
MCKind == goalRequest :> "goal" @@ chat :> "chat" @@ slice :> "slice"
=============================================================================
