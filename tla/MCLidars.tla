------------------------------ MODULE MCLidars ------------------------------
(* The lidars' software one part at a time: part says which one runs, the   *)
(* others rest in one of their initial states.                              *)
EXTENDS RsDevice, RsJumbo, RsDriver, HesaiDevice, HesaiPtc

VARIABLE part

AllLidars == Lidars
AllKinds == {"1_4", "2_4", "2_5", "3_1", "3_2", "4_3", "6_1", "7_2", "P40", "P64"}

\* The user's parameters, each value of each at least once.
Base == [wait_for_difop |-> TRUE, config_from_file |-> FALSE, angle_file |-> <<>>,
         start_angle |-> 0, end_angle |-> 36000, split_frame_mode |-> "angle", split_angle |-> 0,
         num_blks_split |-> 1, use_lidar_clock |-> TRUE, dense_points |-> FALSE, ts_first_point |-> FALSE]
MCParams ==
  {Base,
   [Base EXCEPT !.wait_for_difop = FALSE, !.split_angle = 18000, !.dense_points = TRUE, !.ts_first_point = TRUE],
   [Base EXCEPT !.config_from_file = TRUE, !.start_angle = 35900, !.end_angle = 60, !.use_lidar_clock = FALSE,
                !.angle_file = <<[vert |-> 100, horiz |-> 10], [vert |-> -100, horiz |-> 20]>>],
   [Base EXCEPT !.wait_for_difop = FALSE, !.split_frame_mode = "custom", !.num_blks_split = 5],
   [Base EXCEPT !.split_frame_mode = "custom", !.num_blks_split = 200],
   [Base EXCEPT !.wait_for_difop = FALSE, !.split_frame_mode = "fixed"],
   [Base EXCEPT !.wait_for_difop = FALSE, !.split_angle = 35990],
   [Base EXCEPT !.wait_for_difop = FALSE, !.split_angle = 35960]}

\* The cut is less than one step before zero.
WrapParams == {[Base EXCEPT !.wait_for_difop = FALSE, !.split_angle = 35990]}

\* Two datagrams of one identification, one of another and one that has none.
MCIds == "a" :> 1 @@ "b" :> 1 @@ "c" :> 2 @@ "d" :> 0
MCSizes == "a" :> 5 @@ "b" :> 4 @@ "c" :> 3 @@ "d" :> 3
MCLens == "calib" :> 2 @@ "fire" :> 1 @@ "chan" :> 0

RsRests ==
  /\ dec = createDecoder("RSBP", Base)
  /\ device = [mode |-> "single", rps |-> 10, firings |-> 28, split |-> 0]
  /\ sent = 0 /\ faults = [count |-> 0, last |-> FALSE] /\ difops = 0
HesaiRests ==
  /\ lidar = [kind |-> "4_3", h |-> HeaderOf("4_3", TRUE), first |-> 0, base |-> 0, start |-> 0,
              tool |-> FALSE, gaps |-> FALSE]
  /\ hs = [p |-> NewParser("4_3"), o |-> NoOutput, frame |-> NewFrame, packet_index |-> 0, clean |-> TRUE,
           published |-> [frame |-> NewFrame, laser_num |-> 1, block_num |-> 1, clean |-> TRUE]]
  /\ datagrams = 0 /\ missed = {} /\ disturbances = 0 /\ silent = FALSE
PtcRests == PInit /\ client_mode_ = "tcp"
DriverRests == DriverInit /\ inputType = "raw" /\ repeat = FALSE /\ msops = 0
MCInputs == {"sock", "pcap", "pcap_jumbo", "raw"}

\* Once each: a micro mirror knows neither speed nor cut nor split mode, and the two
\* captures begin anew in the same way.
RsOnce == dec.lidar \in MemsLidars =>
            device.rps = 10 /\ device.split \in {0, 18000} /\ dec.param.split_frame_mode = "angle"
DriverOnce == repeat => inputType = "pcap"

Init ==
  \/ part = "rs" /\ RsInit /\ RsOnce /\ JInit /\ HesaiRests /\ PtcRests /\ DriverRests
  \/ part = "jumbo" /\ RsRests /\ JInit /\ HesaiRests /\ PtcRests /\ DriverRests
  \/ part = "hesai" /\ RsRests /\ JInit /\ HesaiInit /\ PtcRests /\ DriverRests
  \/ part = "ptc" /\ RsRests /\ JInit /\ HesaiRests /\ PInit /\ DriverRests
  \/ part = "driver" /\ RsRests /\ JInit /\ HesaiRests /\ PtcRests /\ DriverInit /\ DriverOnce

Next ==
  /\ UNCHANGED part
  /\ \/ part = "rs" /\ RsNext /\ UNCHANGED <<jumboVars, hesaiVars, ptcVars, driverVars>>
     \/ part = "jumbo" /\ JNext /\ UNCHANGED <<rsVars, hesaiVars, ptcVars, driverVars>>
     \/ part = "hesai" /\ HesaiNext /\ UNCHANGED <<rsVars, jumboVars, ptcVars, driverVars>>
     \/ part = "ptc" /\ PNext /\ UNCHANGED <<rsVars, jumboVars, hesaiVars, driverVars>>
     \/ part = "driver" /\ DriverNext /\ UNCHANGED <<rsVars, jumboVars, hesaiVars, ptcVars>>
=============================================================================
