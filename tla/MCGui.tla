------------------------------- MODULE MCGui --------------------------------
EXTENDS GuiRuns, TLC
CONSTANTS a, b

MCSubtasks == a :> 2 @@ b :> 1
MCSteps == a :> 2 @@ b :> 1
MCRetries == a :> 2 @@ b :> 1
=============================================================================
