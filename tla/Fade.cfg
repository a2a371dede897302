CONSTANTS
  Names = {back, title, missing}
  imagelib = {back, title}
  NoImage = NoImage
SPECIFICATION FairSpec
INVARIANTS LayersConsistent
PROPERTIES FadeSettles
