SPECIFICATION Spec
CONSTANTS
  Target = {t1, t2}
  Port = {p1}
  Repeat = 1
  MaxCycles = 2
  PresetOrder <- MCPresetOrder
  PresetCount <- MCPresetCount
  Explicit <- MCExplicit
  MaxSignals = 2
INVARIANTS TrafficInWindow PassedPhaseCovered OutcomeIsTrue WindowsAddUp
PROPERTY StopIsObeyed
CHECK_DEADLOCK FALSE
