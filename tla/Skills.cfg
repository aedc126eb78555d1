CONSTANTS
  Provider = {p1, p2}
  Files = 2
  SkillMd = 1
  Default <- DefaultProviders
  Configs <- StartConfigs
  Boot = boot
  Panel = {w1}
  None = None
  MaxVersion = 2
  MaxEvents = 3
SPECIFICATION Spec
INVARIANTS WholeCopy OfferedIsCached BootHeals
CHECK_DEADLOCK FALSE
