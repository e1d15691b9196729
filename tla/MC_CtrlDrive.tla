---- MODULE MC_CtrlDrive ----
EXTENDS CtrlDrive
====
