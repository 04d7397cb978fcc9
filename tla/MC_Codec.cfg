SPECIFICATION CodecSpec
CONSTANT Sample <- MCSample
CONSTANT Damage <- MCDamage
INVARIANTS CodecTypeOK ReadyIsSet RoundTrip DamageNoticed OnlyFilledAccepted
CHECK_DEADLOCK FALSE
