\* All histories of up to five views over every loaded snapshot.
SPECIFICATION Spec
CONSTANTS
  Items = {a, b}
  MaxDepth = 3
  MaxEntries = 2
  MaxViews = 5
SYMMETRY Symmetry
INVARIANTS CumulativeIsExact OriginsNameTheirEdit FingerprintIsContent
\* Views stop being made at MaxViews.
CHECK_DEADLOCK FALSE
