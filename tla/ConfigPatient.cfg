SPECIFICATION FairSpec
CONSTANTS
  cooldown = cooldown
  template = template
  pass = pass
  d4200 = d4200
  clip = clip
  d = d
  a = a
  b = b
  long = long
  lines = lines
  cut = cut
  Fields <- MCFields
  Value <- MCValue
  Mask = mask
  Blank = blank
  Disabled = disabled
  Default <- MCDefault
  Truncated <- Shortens
  Stripped <- Strips
  Shown <- AsItIs
  Sent <- MCSent
  Initial <- MCInitial
  Section <- MCSection
  Edits <- MCEdits
  Imports <- MCImports
  ClipSelect = {clip}
  ClipLists <- MCClipLists
  MaskedByUi = {pass, d4200}
  MaskedByCgi = {pass}
  MaxOverrides = 5
  MaxSaves = 3
  Env = {}
INVARIANTS TypeOK AckedSavesStick ReadersSeeWholeFile FormShowsSaved
PROPERTIES OnlyAskedValues SavesReachFlash
