SPECIFICATION CacheSpec
CONSTANTS
    Work <- SplitWork
    Recipe <- SplitRecipe
    Sources <- SplitSources
    Content <- PlainContent
    Ports <- SplitPorts
    Draws <- SplitDraws
INVARIANT
    ResultsAreRight
