CONSTANTS
  p1 = p1
  p2 = p2
  g1 = g1
  g2 = g2
  big = big
  small = small
  k1 = k1
  k2 = k2
  m1 = m1
  m2 = m2
  Nothing = Nothing
  Publisher = {p1, p2}
  Collector = {g1, g2}
  Layout = {big, small}
  LayoutOf <- TwoLayouts
  ChunksOf <- Chunks
  ManifestOf <- Manifests
  MaxVersion = 3
SPECIFICATION TransportSpec
CHECK_DEADLOCK FALSE
INVARIANTS
  CommittedComplete
  RecordIsEvidence
