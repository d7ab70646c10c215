\* Two failures fire a rung, three make the worker exit; one request of the owner, and
\* one mishap: a death at an arbitrary point, a failed write or a clock setback.
CONSTANTS
  FailThreshold = 2
  GiveUp = 2
  Base = 1
  MtxDwell = 1
  ArgusDwell = 2
  RebootInterval = 3
  AllowReboot = TRUE
  MaxRequests = 1
  MaxMishaps = 1
SPECIFICATION FairSpec
INVARIANTS TypeOK RebootIsLastResort
PROPERTIES RebootsAreSpaced RemediesGetTheirTime LadderIsClimbed
