\* every kernel on pictures of up to 4 by 4 (KPU rows up to 65 bytes), nnil
\* methods of up to 9 instructions, node bodies at every alignment
\* three networks of facedetect and three of yolo, one refused of each; two sizes of fastfacedetect;
\* objects of person around a screen of 12 by 7
CONSTANTS
  Nets <- Named
  Kind <- KindOf
  Floats <- FloatsOf
  AnchorMax = 2
  MaskAnchors = 3
  Raw <- Corners
  Screen = 9
  Outputs <- Sizes
  FastNets <- Pair
  Strides <- Steps
  PerCell <- Priors
  Thresholds <- Levels
  Iou = 30
  Boxes <- Around
  Scores <- Marks
  FastScreen <- Edge
  Objects <- Seen
  Right = 11
  Bottom = 6
  Programs <- Nodes
  Stale <- Unwritten
  Methods <- Bodies
  Elements <- Numbers
  Literals <- Inlined
  StackSize = 3
  Options <- Written4
  Alignment = 4
  Bases <- Positions
SPECIFICATION Spec
INVARIANTS NetsApart BoxesHaveSize FrameIsOwn EveryBoxOnce FacesOnScreen CornersInside SumsAgree ElementsMoveRight QuantizationRounds DownloadUndoesUpload KpuComputes MethodsRun BodiesPreserved
CHECK_DEADLOCK FALSE
