---- MODULE MC_TouchGui ----
EXTENDS TouchGui
====
