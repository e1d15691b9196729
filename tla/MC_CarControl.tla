---- MODULE MC_CarControl ----
EXTENDS CarControl
OnePlace == {<<1, 1>>}
====
