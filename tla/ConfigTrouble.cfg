SPECIFICATION FairSpec
CONSTANTS
  cooldown = cooldown
  template = template
  pass = pass
  d4200 = d4200
  clip = clip
  d = d
  a = a
  b = b
  long = long
  lines = lines
  cut = cut
  Fields <- OneField
  Value <- MCValue
  Mask = mask
  Blank = blank
  Disabled = disabled
  Default <- MCDefault
  Truncated <- KeepsAll
  Stripped <- KeepsAll
  Shown <- AsItIs
  Sent <- AsItIs
  Initial <- MCInitial
  Section <- OneSection
  Edits <- OneEdit
  Imports = {}
  ClipSelect = {}
  ClipLists = {}
  MaskedByUi = {}
  MaskedByCgi = {}
  MaxOverrides = 3
  MaxSaves = 3
  Env = {"hasty", "crash", "persist"}
INVARIANT QuietSaveSticks
PROPERTY PageRecovers
