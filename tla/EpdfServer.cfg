CONSTANTS
  plain = plain
  protected = protected
  missing = missing
  attachment = attachment
  highlight = highlight
  note = note
  new1 = new1
  new2 = new2
  icon = icon
  isopen = isopen
  usecolors = usecolors
  File = {plain, protected, missing}
  NPages = 3
  Annot = {attachment, highlight, note, new1, new2}
  PropName = {icon, isopen}
  OptName = {usecolors}
  Option = {usecolors}
  Val = {0, 1}
  DefaultVal = 0
  Bad = Bad
  Closed = Closed
  Access <- MCAccess
  OnDisk <- MCOnDisk
  BadPage <- MCBadPage
  AnnotType <- MCAnnotType
  Modifiable <- MCModifiable
  KeyIndex <- MCKeyIndex
CONSTRAINT Bounds
SPECIFICATION Spec
INVARIANTS IInv TypeOK KeysMatchLists KeysUnique ListsMatchPdf ScanNeverClashes NoDangling ListingComplete
PROPERTIES ErrorChangesNothing KeyNeverRebound ImplementsStore
