SPECIFICATION PluginsSpec
CONSTANTS
    LoadOrder <- MCLoadOrder
    Offers <- MCOffers
    Manager = "cmdmanager"
    Referee = "poweradmin"
    Listed = {"stats"}
    Words = {"slap", "score", "s", "x"}
    Levels = {0}
    CodeLevel = 0
    Nobody = Nobody
    NoWord = NoWord
    NoRow = NoRow
INVARIANTS PluginsTypeOK AliasesAgree SwitchedOffStaysOff PromisesHold PluginsInOrder NobodyIsOverlooked
PROPERTIES FirstKeepsTheWord NothingWithoutCause
\* the clocks are bounded
CHECK_DEADLOCK FALSE
