SPECIFICATION StorageSpec
CONSTANTS
  Keys = {k1}
  InputModes = {"standard", "private", "ghost", "bunker", "emergency"}
  InputClasses = {"identity_key_material", "message_content", "media_cache", "thumbnail_cache",
                  "ai_prompt_cache", "protected_content_reveal_state", "device_risk_state",
                  "bundle_export", "settings", "logs",
                  "debug_artifact"}
  InputSensitivities = {"content", "metadata"}
  InputRestrictions <- SomeRestrictions
  MaxRecords = 1
  NoEntry = NoEntry
INVARIANT EmergencyStillErases
