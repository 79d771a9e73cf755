SPECIFICATION Spec
CONSTANTS
    Charges = {1, 2}
    Started <- MCStarted
    Lasted <- MCLasted
    IsDC <- MCIsDC
    OpenCharges = {3}
    Names = {"home"}
    Areas <- MCAreas
    FencePrices <- MCPrices
    Files <- MCFiles
    EditedCosts = {5}
    InitialCosts <- MCInitialCosts
    MaxUses = 3
    MaxFails = 1
INVARIANT
    ImportCanBeUndone
