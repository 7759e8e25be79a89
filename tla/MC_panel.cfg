\* Two elements and a pad; what the user and the application do is bounded.
SPECIFICATION Spec
CONSTANTS
  Elements = {a, b}
  Pads = {x}
  Nothing = nothing
  mute = mute
  mode = mode
  Props = {mute, mode}
  Widget <- MCWidget
  MaxClicks = 3
  MaxChanges = 2
INVARIANTS TypeOK PanelIsOfSelected ShownIsTrue  CrashesOnlyOnReplaced
PROPERTY ChangedOnPurpose
SYMMETRY ElementSymmetry
CHECK_DEADLOCK FALSE
