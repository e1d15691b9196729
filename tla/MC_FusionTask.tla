---- MODULE MC_FusionTask ----
EXTENDS FusionTask
Corner == {<<1, 1>>, <<1, 2>>, <<2, 1>>}
====
