------------------------------ MODULE MCDrivers ------------------------------
(***************************************************************************)
(* The instance for TLC of the parts that share nothing with each other:   *)
(* the repair plug-in, the cache and clock drivers, the camera, the panel, *)
(* the codec and the card.  A behaviour is one of one part, `driver'; the  *)
(* others stay in their initial states.                                    *)
(***************************************************************************)
EXTENDS FmRepair, KraitL2, PmicClkDiv, Imx132, PanelSirius, WcdSlim, WcdPower, SndCard

VARIABLE driver

\* Of the three pairs of the table, one lies under and one between the rates.
MCL2Map == <<<<3, 4>>, <<10, 7>>, <<20, 17>>>>

MCStreams == {<<"PB", 1>>, <<"CAP", 1>>}

\* A capture path with two outputs of one bias and two biases of one filter and
\* a converter that never asks for its clock; three decimators; the headphones.
MCPowBoards ==
  {{<<"ldo_h", 0>>, <<"bias", 1, "External">>, <<"bias", 1, "Internal1">>,
    <<"bias", 4, "External">>, <<"adc", 1>>, <<"adc", 2>>, <<"adc", 5>>},
   {<<"dsm", 0>>, <<"dec", 5>>, <<"dec", 6>>, <<"dec", 7>>},
   {<<"rx_bias", 0>>, <<"dac", 1>>, <<"dac", 2>>, <<"comp", 1>>, <<"rx", 1>>, <<"rx", 3>>}}

\* Both directions of one interface, the tuner's, its internal port, a front end.
MCCardLinks ==
  {<<"PRIMARY_MI2S_RX", TRUE, TRUE>>, <<"PRIMARY_MI2S_TX", TRUE, TRUE>>,
   <<"SECONDARY_MI2S_TX", FALSE, TRUE>>, <<"INT_FM_TX", FALSE, FALSE>>,
   <<"MultiMedia1", FALSE, FALSE>>}

codec_vars == <<slim_vars, pow_vars, card_vars>>
board_vars == <<l2_vars, div_vars, cam_vars, panel_vars>>

DriversInit ==
  /\ driver \in {"repair", "l2", "div", "cam", "panel", "slim", "pow", "card"}
  /\ Init /\ L2Init /\ DivInit /\ CamInit /\ PanelInit /\ SlimInit
  /\ PowInit /\ (driver # "pow" => pow_wired = CHOOSE b \in PowBoards : TRUE)
  /\ CardInit /\ (driver # "card" => card_links = {})

DriversNext ==
  /\ UNCHANGED driver
  /\ \/ driver = "repair" /\ Next /\ UNCHANGED <<board_vars, codec_vars>>
     \/ driver = "l2" /\ L2Next /\ UNCHANGED <<vars, div_vars, cam_vars, panel_vars, codec_vars>>
     \/ driver = "div" /\ DivNext /\ UNCHANGED <<vars, l2_vars, cam_vars, panel_vars, codec_vars>>
     \/ driver = "cam" /\ CamNext /\ UNCHANGED <<vars, l2_vars, div_vars, panel_vars, codec_vars>>
     \/ driver = "panel" /\ PanelNext /\ UNCHANGED <<vars, l2_vars, div_vars, cam_vars, codec_vars>>
     \/ driver = "slim" /\ SlimNext /\ UNCHANGED <<vars, board_vars, pow_vars, card_vars>>
     \/ driver = "pow" /\ PowNext /\ UNCHANGED <<vars, board_vars, slim_vars, card_vars>>
     \/ driver = "card" /\ CardNext /\ UNCHANGED <<vars, board_vars, slim_vars, pow_vars>>

DriversSpec == DriversInit /\ [][DriversNext]_<<driver, vars, board_vars, codec_vars>>

=============================================================================
