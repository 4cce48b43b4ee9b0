SPECIFICATION SeparationSpec
CONSTANTS
    White = 3
    Bicubic <- ModelBicubic
    Depth = 3
    Sources <- ModelSources
    Crops <- ModelCrops
    Levels <- ModelLevels
    Limits = {0, 2, 3}
    Palettes <- ModelPalettes
    Colors = {1, 2}
    Grows = {0, 1}
    MaxNodes = 2
CHECK_DEADLOCK FALSE
INVARIANTS
    TransparencyIsPaper
    TreeShapeIsNothing
    SeamsAreCovered
    TrapsStayNear
    DrawnIsShown
PROPERTIES
    DownsampleFits
    IndexMeansColour
