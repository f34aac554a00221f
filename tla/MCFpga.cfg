CONSTANTS
  Sensors = {amds_sensor, adc_sensor}
  CountWrap = 4
  Ratios = {1, 2}
  EventGap = 3
  MaxWrites = 4
  Patient = TRUE
  Channels = {0, 1}
  Lines = {0, 1}
  Enabled <- MCEnabled
  FeTimeout = 1
  MaxDamaged = 1
SPECIFICATION EitherSpec
INVARIANTS NoTriggerWhileCollecting ValidDataIsFresh
PROPERTIES TicksComeInSession ImplementsSensor
