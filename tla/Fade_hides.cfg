CONSTANTS
  Names = {back, title, missing}
  imagelib = {back, title}
  NoImage = NoImage
SPECIFICATION FairSpec
PROPERTIES FadeOutHides
