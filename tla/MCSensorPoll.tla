---------------------------- MODULE MCSensorPoll ----------------------------
(* Two temperature sensors that can lose their probes, with the meter      *)
(* between them, and an ammonia sensor that delivers 0x2710.               *)
EXTENDS SensorPoll

Values == [d \in Dev |-> CASE d = 0 -> {30, NO_PROBE}
                           [] d = 2 -> {71, NO_PROBE}
                           [] OTHER -> {NO_PROBE}]
=============================================================================
