SPECIFICATION Spec
CONSTANTS
  Fields <- MCFields
  Optional <- MCOptional
  Numbers <- MCNumbers
  DirFields <- MCDirFields
  FileFields <- MCFileFields
  Foreign = {"newer"}
  Words <- MCWords
  Dirs <- MCDirs
  Files <- MCFiles
  Listing <- MCListing
  Parent <- MCParent
  StartDir = "/"
  OtherSettings <- MCOther
  MaxEdits = 1
  Default = "/"
  None = None
  Blank = ""
  Nonsense = "12x"
CHECK_DEADLOCK FALSE
INVARIANTS
  TypeOK
  SavedIsReloaded
  ForeignKeysSurvive
  
