---- MODULE MC_Peripherals ----
(* The small components, side by side.  They share no state: a behaviour   *)
(* is one of the part chosen at its beginning, the others rest.            *)
EXTENDS SensorAverage, PingPong, ReadMcuLink, SdtpLink, ParamStore,
        SdCard, Steering, Sorting, TouchSample, DebugMonitor, TLC

VARIABLE part

MCSizes   == {2, 4}
MCValues  == {0, 3, A5}
MCChecks  == {0, FF}
MCPads    == {0, 2}
MCBytes   == {{0, 3, 4, 6}, {3, 4, 6, 7}, {}}    \* 0x59 and 0xd8, the speed 23000; 0
MCAsked   == {-200, -1, 0, 100, 139, 140, 141, 159, 160, 161, 180, 181, 255, 256, 330}
Parts     == {"average", "dma", "read", "sdtp", "params", "card", "steering",
              "sort", "touch", "debug"}

MCInit ==
  /\ part \in Parts
  /\ Init /\ DmaInit /\ ReadInit /\ SdtpInit /\ ParamInit /\ CardInit
  /\ SteerInit /\ SortInit /\ TouchInit /\ DebugInit
  /\ part # "card" => card = "v1"

MCNext ==
  \/ /\ part = "average" /\ Next
     /\ UNCHANGED <<dma_vars, read_vars, sdtp_vars, param_vars, card_vars,
                    steer_vars, sort_vars, touch_vars, debug_vars, part>>
  \/ /\ part = "dma" /\ DmaNext
     /\ UNCHANGED <<vars, read_vars, sdtp_vars, param_vars, card_vars,
                    steer_vars, sort_vars, touch_vars, debug_vars, part>>
  \/ /\ part = "read" /\ ReadNext
     /\ UNCHANGED <<vars, dma_vars, sdtp_vars, param_vars, card_vars,
                    steer_vars, sort_vars, touch_vars, debug_vars, part>>
  \/ /\ part = "sdtp" /\ SdtpNext
     /\ UNCHANGED <<vars, dma_vars, read_vars, param_vars, card_vars,
                    steer_vars, sort_vars, touch_vars, debug_vars, part>>
  \/ /\ part = "params" /\ ParamNext
     /\ UNCHANGED <<vars, dma_vars, read_vars, sdtp_vars, card_vars,
                    steer_vars, sort_vars, touch_vars, debug_vars, part>>
  \/ /\ part = "card" /\ CardNext
     /\ UNCHANGED <<vars, dma_vars, read_vars, sdtp_vars, param_vars,
                    steer_vars, sort_vars, touch_vars, debug_vars, part>>
  \/ /\ part = "steering" /\ lqr_control
     /\ UNCHANGED <<vars, dma_vars, read_vars, sdtp_vars, param_vars,
                    card_vars, sort_vars, touch_vars, debug_vars, part>>
  \/ /\ part = "sort" /\ Sort
     /\ UNCHANGED <<vars, dma_vars, read_vars, sdtp_vars, param_vars,
                    card_vars, steer_vars, touch_vars, debug_vars, part>>
  \/ /\ part = "touch" /\ TouchNext
     /\ UNCHANGED <<vars, dma_vars, read_vars, sdtp_vars, param_vars,
                    card_vars, steer_vars, sort_vars, debug_vars, part>>
  \/ /\ part = "debug" /\ DebugNext
     /\ UNCHANGED <<vars, dma_vars, read_vars, sdtp_vars, param_vars,
                    card_vars, steer_vars, sort_vars, touch_vars, part>>

MCSpec ==
  MCInit /\ [][MCNext]_<<vars, dma_vars, read_vars, sdtp_vars, param_vars,
                         card_vars, steer_vars, sort_vars, touch_vars, debug_vars, part>>

(* The types of the parts, and that no buffer is written beyond its end:   *)
(* the words of a packet of read_mcu, the frames of a scan, a block of the *)
(* DMA.                                                                    *)
TypesOK ==
  /\ ReadTypeOK /\ WithinBuffer /\ BuffersOK
  /\ SdtpTypeOK /\ ParamTypeOK /\ CardTypeOK /\ DebugTypeOK
====
