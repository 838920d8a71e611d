\* Three resources and one entry per page over a ring of two that wraps twice: the
\* client falls behind and is outrun, and a page may be cut where two resources
\* are synthesized.  No symmetry, because PagingEnds is temporal.
SPECIFICATION Spec
CONSTANTS
  Key = {k1, k2, k3}
  Value = {v1, v2}
  Absent = Absent
  NoEntry = NoEntry
  Limit = 2
  MaxSeq = 4
  PageLimit = 1
INVARIANTS
  StoreTypeOK
  OrderInv
  TailDecides
  TailOrdered
  FullReplay
  PagesDoNotSkip
  PagingReconstructs
  OutrunKeepsLive
PROPERTIES
  LogRefinement
  PagingEnds
\* The sequence ids are used up in the end.
CHECK_DEADLOCK FALSE
