SPECIFICATION CacheSpec
CONSTANTS
    Work <- PlainWork
    Recipe <- PlainRecipe
    Sources <- PlainSources
    Content <- PlainContent
    Ports <- PlainPorts
    Draws <- PlainDraws
INVARIANT
    ResultsAreRight
