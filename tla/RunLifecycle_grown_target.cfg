CONSTANTS
  Configs <- WorldwideRun
  Bounds <- ExtensionBounds
SPECIFICATION Spec
INVARIANTS
  TargetLabelled
