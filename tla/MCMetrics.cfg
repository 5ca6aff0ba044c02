SPECIFICATION Spec
CONSTANTS
  Goroutines = {g1, g2}
  Readers = {r1}
  MaxRuns = 3
  MaxEvents = 1
SYMMETRY Symmetry
INVARIANTS TypeOK CountersBalance MapsFollow 
