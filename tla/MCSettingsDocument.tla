------------------------ MODULE MCSettingsDocument -------------------------
EXTENDS SettingsDocument

MCDevices == {"laptop", "phone"}
MCKeys == {"theme"}
=============================================================================
