SPECIFICATION Spec
CONSTANTS
  Names <- MCNames
  Suffix <- MCSuffix
  ServiceOf <- MCServiceOf
  Template <- MCTemplate
  NoName = "-"
  Builtin = {"m.target", "d.target"}
  Default = "d.target"
  Dirs = {1, 2}
  Contents <- MCContents
  Initial <- MCInitial
  Edited = {"w@.service", "w@1.service", "h.service"}
  Dropins = {"h.service"}
  MaxOps = 3
INVARIANTS MaskRoundTrip NoTornFile
PROPERTIES InstallIsSeen ReloadIsComplete
