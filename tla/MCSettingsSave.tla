---------------------------- MODULE MCSettingsSave ----------------------------
EXTENDS SettingsSave
=============================================================================
