SPECIFICATION Spec
CONSTANTS
  r1 = r1
  r2 = r2
  p1 = p1
  p2 = p2
  Requests <- MCRequests
  Pods <- MCPods
  Unset = Unset
  LabelsOf <- MCLabelsOf
  LabelName <- MCLabelName
  Empty = ""
  Number <- MCNumber
  Urls <- MCUrls
SYMMETRY MCSymmetry
INVARIANTS
  OwnTotalUnlessDisturbed
  DetailFindsATotal
  MemoryLimitShown
  SelectsWhatWasAsked
