SPECIFICATION LifeSpec
CONSTANTS
  TilesW = 6
  TilesH = 6
  TileSize = 2
  WordTiles = 2
  SeedBlock = 3
  Seeds <- MCSeeds
INVARIANTS
  ActiveIsNeighbourhood
  OverlayCanBeCleared
PROPERTY
  ImplementsLifeRule
