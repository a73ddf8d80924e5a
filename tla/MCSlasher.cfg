\* Two deals, a clock of eight blocks, windows of two and three blocks.
SPECIFICATION SlasherSpec
CONSTANTS
    Deals = {d1, d2}
    Windows = {2, 3}
    FirstWindow = 2
    LastBlock = 8
PROPERTIES
    DecisionsBecomeFinal
    SlasherArbitrates
