SPECIFICATION Spec
CONSTANTS
    LoadOrder <- MCLoadOrder
    Offers <- MCOffers
    Manager = "cmdmanager"
    Referee = "poweradmin"
    Listed = {"stats"}
    Words = {"slap", "score", "s", "x"}
    Levels = {0, 1}
    CodeLevel = 0
    Nobody = Nobody
    NoWord = NoWord
    NoRow = NoRow
INVARIANT OverridesHold
