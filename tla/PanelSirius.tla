----------------------------- MODULE PanelSirius ----------------------------
(***************************************************************************)
(* The display panel, panel-sony-sirius.c.  Four panels, each with its own *)
(* order of supplies, reset line and commands, are driven by one set of    *)
(* functions: a call is a script of steps made from the panel's            *)
(* description.  A supply and a command may fail; once a command has, the  *)
(* rest of its sequence is not sent.                                       *)
(*                                                                         *)
(* External: the DRM core, which prepares, enables, disables and           *)
(* unprepares in turn, remembers whether it did and never enables twice    *)
(* what it prepared once.  Left out: the modes, the settings the commands  *)
(* carry, the identification read back and logged (a read that fails does  *)
(* nothing), and all delays but power_down_ms.                             *)
(***************************************************************************)
EXTENDS Integers, Sequences

CONSTANTS
  AdcReadings,     (* readings the boot loader passes as lcdid_adc=        *)
  MaxPanelFaults   (* bound on supplies and commands that fail             *)

VARIABLES
  panel,           (* the variant, or "none" before probe                  *)
  panel_call,      (* the call that runs, or "none"                        *)
  panel_todo,      (* the steps it has still to make                       *)
  panel_on,        (* the supplies that are on                             *)
  panel_released,  (* the reset line is high                               *)
  panel_lpm,       (* MIPI_DSI_MODE_LPM                                    *)
  panel_shows,     (* what the panel itself is: awake, lit                 *)
  panel_off_time,  (* off_time: never, less than power_down_ms ago, longer *)
  panel_cold,      (* when vddio went off: "long" ago, "short"ly, or "cut" *)
                   (* shortly but by a power-on that failed or by a driver *)
                   (* that was unbound since                               *)
  panel_drm,       (* the DRM core's view: prepared, enabled, and whether  *)
                   (* it has yet to enable what it prepared                *)
  panel_faults

panel_power == <<panel_on, panel_released, panel_shows, panel_off_time, panel_cold>>
panel_vars  == <<panel, panel_call, panel_todo, panel_power, panel_lpm, panel_drm, panel_faults>>

\* Sequences of commands.  "settings" stands for the manufacturer's writes
\* between the standard commands: one that fails ends the sequence all the same.
sirius_on_exit_sleep_120ms_display_on == <<"exit_sleep", "display_on">>

sirius_off_20ms_80ms == <<"display_off", "enter_sleep">>

sirius_renesas_jdi_init == <<"soft_reset", "settings">>

sirius_renesas_sharp_init == <<"settings", "exit_sleep">>

sirius_renesas_sharp_on == <<"display_on">>

sirius_renesas_sharp_off == <<"display_off", "enter_sleep">>

sirius_renesas_auo_init == <<"settings", "display_on">>

sirius_renesas_auo_on == <<"exit_sleep">>

sirius_renesas_auo_off == <<"display_off", "enter_sleep">>

sirius_novatek_jdi_init == <<"soft_reset", "settings">>

\* What the reset line does: after power-on, before vsp goes, and between vsp
\* and vddio going.
ResetSeq(on, off_pre, off) == [on |-> on, off_pre |-> off_pre, off |-> off]

ResetReleased == ResetSeq(<<"release">>, <<>>, <<"assert">>)

SharpReset == ResetSeq(<<"assert", "release">>, <<"assert">>, <<>>)

AuoReset == ResetSeq(<<"release", "assert", "release">>, <<>>, <<"assert">>)

\* The order in which a panel is powered and spoken to; rests: power_down_ms.
sirius_panels ==
  [ renesas_sharp |->
      [adc |-> <<0, 57000>>, init |-> sirius_renesas_sharp_init, on |-> sirius_renesas_sharp_on,
       off |-> sirius_renesas_sharp_off, reset |-> SharpReset, rests |-> FALSE],
    renesas_auo |->
      [adc |-> <<215000, 256000>>, init |-> sirius_renesas_auo_init, on |-> sirius_renesas_auo_on,
       off |-> sirius_renesas_auo_off, reset |-> AuoReset, rests |-> FALSE],
    renesas_jdi |->
      [adc |-> <<353000, 414000>>, init |-> sirius_renesas_jdi_init,
       on |-> sirius_on_exit_sleep_120ms_display_on, off |-> sirius_off_20ms_80ms,
       reset |-> ResetReleased, rests |-> FALSE],
    novatek_jdi |->
      [adc |-> <<1087000, 1231000>>, init |-> sirius_novatek_jdi_init,
       on |-> sirius_on_exit_sleep_120ms_display_on, off |-> sirius_off_20ms_80ms,
       reset |-> ResetReleased, rests |-> TRUE] ]

Variants == DOMAIN sirius_panels
desc == sirius_panels[panel]
Commands == {"soft_reset", "settings", "exit_sleep", "display_on", "display_off", "enter_sleep"}

-----------------------------------------------------------------------------
(* Choosing the variant                                                    *)

\* The reading is behind a 1:3 divider.
sirius_panel_detect(adc) ==
  {v \in Variants : sirius_panels[v].adc[1] <= 3 * adc /\ 3 * adc <= sirius_panels[v].adc[2]}

\* The module parameter overrides the compatible; the generic compatible asks
\* for a reading.
sirius_panel_select(param, compatible, adc) ==
  CASE param # "unset"       -> {param} \intersect Variants
    [] compatible = "auto"   -> sirius_panel_detect(adc)
    [] OTHER                 -> {compatible}

\* The reset line is held low until the first prepare.
sirius_panel_probe ==
  /\ panel = "none"
  /\ \E param \in Variants \union {"unset", "unknown"}, compatible \in Variants \union {"auto"},
        adc \in AdcReadings :
       panel' \in sirius_panel_select(param, compatible, adc)
  /\ panel_released' = FALSE /\ panel_lpm' = FALSE /\ panel_off_time' = "never"
  /\ panel_cold' = IF panel_cold = "long" THEN "long" ELSE "cut"
  /\ UNCHANGED <<panel_call, panel_todo, panel_on, panel_shows, panel_drm, panel_faults>>

sirius_panel_remove ==
  /\ panel # "none" /\ panel_call = "none" /\ ~panel_drm.prepared
  /\ panel' = "none"
  /\ UNCHANGED <<panel_call, panel_todo, panel_power, panel_lpm, panel_drm, panel_faults>>

-----------------------------------------------------------------------------
(* The calls as scripts                                                    *)

sirius_panel_power_on == <<"rest", "vddio_on", "vsp_on">> \o desc.reset.on

\* Variant: the line is pulled low after both supplies have gone.
sirius_panel_power_off_late ==
  <<"vsp_off", "vddio_off">> \o desc.reset.off_pre \o desc.reset.off \o <<"note_time">>

\* Variant: no time is noted.
sirius_panel_power_off_unnoted ==
  desc.reset.off_pre \o <<"vsp_off">> \o desc.reset.off \o <<"vddio_off">>

sirius_panel_power_off ==
  desc.reset.off_pre \o <<"vsp_off">> \o desc.reset.off \o <<"vddio_off", "note_time">>

Calls(call, script, lpm) ==
  /\ panel # "none" /\ panel_call = "none"
  /\ panel_call' = call
  /\ panel_todo' = script
  /\ panel_lpm' = lpm
  /\ UNCHANGED <<panel, panel_power, panel_drm, panel_faults>>

\* The mode of the commands is part of the script: it is set once the power is on.
sirius_panel_prepare ==
  /\ ~panel_drm.prepared
  /\ Calls("prepare", sirius_panel_power_on \o <<"set_lpm">> \o desc.init, panel_lpm)

sirius_panel_enable ==
  /\ panel_drm.prepared /\ panel_drm.fresh
  /\ Calls("enable", desc.on, FALSE)

sirius_panel_disable ==
  /\ panel_drm.enabled
  /\ Calls("disable", desc.off, FALSE)

sirius_panel_unprepare ==
  /\ panel_drm.prepared /\ ~panel_drm.enabled
  /\ Calls("unprepare", sirius_panel_power_off, panel_lpm)

\* "failed" is an enable, or a prepare that has powered the panel down again.
call_ends ==
  /\ panel_call # "none" /\ panel_todo = <<>>
  /\ panel_drm' = CASE panel_call = "prepare"   -> [panel_drm EXCEPT !.prepared = TRUE, !.fresh = TRUE]
                    [] panel_call = "enable"    -> [panel_drm EXCEPT !.enabled = TRUE, !.fresh = FALSE]
                    [] panel_call = "disable"   -> [panel_drm EXCEPT !.enabled = FALSE]
                    [] panel_call = "unprepare" -> [panel_drm EXCEPT !.prepared = FALSE, !.fresh = FALSE]
                    [] panel_call = "failed"    -> [panel_drm EXCEPT !.fresh = FALSE]
  /\ panel_call' = "none"
  /\ UNCHANGED <<panel, panel_todo, panel_power, panel_lpm, panel_faults>>

-----------------------------------------------------------------------------
(* The steps                                                               *)

Dark == [awake |-> FALSE, lit |-> FALSE]

\* "minimum time between power off and power on": off_time decides.
Rests == desc.rests /\ panel_off_time = "short"

StepOn(step) ==
  panel_on' = CASE step = "vddio_on"  -> panel_on \union {"vddio"}
                [] step = "vsp_on"    -> panel_on \union {"vsp"}
                [] step = "vsp_off"   -> panel_on \ {"vsp"}
                [] step = "vddio_off" -> panel_on \ {"vddio"}
                [] OTHER              -> panel_on

StepReset(step) ==
  panel_released' = CASE step = "release" -> TRUE
                      [] step = "assert"  -> FALSE
                      [] OTHER            -> panel_released

StepShows(step) ==
  panel_shows' = CASE step \in {"assert", "soft_reset", "vsp_off"} -> Dark
                   [] step = "exit_sleep"  -> [panel_shows EXCEPT !.awake = TRUE]
                   [] step = "enter_sleep" -> [panel_shows EXCEPT !.awake = FALSE]
                   [] step = "display_on"  -> [panel_shows EXCEPT !.lit = TRUE]
                   [] step = "display_off" -> [panel_shows EXCEPT !.lit = FALSE]
                   [] OTHER                -> panel_shows

StepTime(step) ==
  /\ panel_off_time' = CASE step = "note_time"         -> "short"
                         [] step = "rest" /\ Rests      -> "long"
                         [] OTHER                      -> panel_off_time
  /\ panel_cold' = CASE step = "vddio_off"     -> "short"
                     [] step = "rest" /\ Rests  -> "long"
                     [] OTHER                  -> panel_cold

panel_step ==
  /\ panel_todo # <<>>
  /\ LET step == Head(panel_todo)
     IN  /\ StepOn(step) /\ StepReset(step) /\ StepShows(step) /\ StepTime(step)
         /\ panel_lpm' = (panel_lpm \/ step = "set_lpm")
  /\ panel_todo' = Tail(panel_todo)
  /\ UNCHANGED <<panel, panel_call, panel_drm, panel_faults>>

PanelFault(what) ==
  /\ panel_todo # <<>> /\ Head(panel_todo) \in what
  /\ panel_faults < MaxPanelFaults
  /\ panel_faults' = panel_faults + 1

\* The second supply fails: the first is switched off, and no time noted.
supply_fails ==
  /\ PanelFault({"vddio_on", "vsp_on"})
  /\ panel_call' = "failed" /\ panel_todo' = <<>>
  /\ panel_on' = {}
  /\ panel_cold' = IF "vddio" \in panel_on THEN "cut" ELSE panel_cold
  /\ UNCHANGED <<panel, panel_released, panel_lpm, panel_shows, panel_off_time, panel_drm>>

\* Variant: a prepare that fails leaves the panel as it is.
init_fails_stays ==
  /\ panel_call = "prepare" /\ PanelFault(Commands)
  /\ panel_call' = "failed" /\ panel_todo' = <<>>
  /\ UNCHANGED <<panel, panel_power, panel_lpm, panel_drm>>

init_fails ==
  /\ panel_call = "prepare" /\ PanelFault(Commands)
  /\ panel_call' = "failed" /\ panel_todo' = sirius_panel_power_off
  /\ UNCHANGED <<panel, panel_power, panel_lpm, panel_drm>>

\* An enable that fails is the core's to undo; a disable that fails is only
\* logged.
command_fails ==
  /\ panel_call \in {"enable", "disable"} /\ PanelFault(Commands)
  /\ panel_call' = IF panel_call = "enable" THEN "failed" ELSE "disable"
  /\ panel_todo' = <<>>
  /\ UNCHANGED <<panel, panel_power, panel_lpm, panel_drm>>

panel_time_passes ==
  /\ panel_call = "none"
  /\ panel_cold # "long"
  /\ panel_cold' = "long"
  /\ panel_off_time' = IF panel_off_time = "never" THEN "never" ELSE "long"
  /\ UNCHANGED <<panel, panel_call, panel_todo, panel_on, panel_released, panel_shows,
                 panel_lpm, panel_drm, panel_faults>>

-----------------------------------------------------------------------------

PanelInit ==
  /\ panel = "none" /\ panel_call = "none" /\ panel_todo = <<>>
  /\ panel_on = {} /\ panel_released = FALSE /\ panel_lpm = FALSE
  /\ panel_shows = Dark
  /\ panel_off_time = "never" /\ panel_cold = "long"
  /\ panel_drm = [prepared |-> FALSE, enabled |-> FALSE, fresh |-> FALSE]
  /\ panel_faults = 0

PanelNext ==
  \/ sirius_panel_probe \/ sirius_panel_remove
  \/ sirius_panel_prepare \/ sirius_panel_enable \/ sirius_panel_disable \/ sirius_panel_unprepare
  \/ panel_step \/ supply_fails \/ init_fails \/ command_fails \/ call_ends
  \/ panel_time_passes

PanelSpec == PanelInit /\ [][PanelNext]_panel_vars

-----------------------------------------------------------------------------
(* Properties                                                              *)

\* Whatever the variant and whatever fails: vsp is never on without vddio, the
\* line is never high without vddio, and a command goes to a panel that has
\* both supplies and is out of reset, in low power mode while the panel is
\* prepared and in high speed mode afterwards.
PanelInOrder ==
  /\ "vsp" \in panel_on \/ panel_released => "vddio" \in panel_on
  /\ panel_todo # <<>> /\ Head(panel_todo) \in Commands
       => /\ panel_on = {"vddio", "vsp"} /\ panel_released
          /\ panel_lpm = (panel_call = "prepare")

\* Between calls: a panel that is not prepared has no supply and is held in
\* reset, also after a prepare that failed half way; and one the core has
\* enabled is awake and lit, which for each variant takes the commands of
\* prepare and of enable together.
PanelSettled ==
  panel_call = "none"
    => /\ ~panel_drm.prepared => panel_on = {} /\ ~panel_released
       /\ panel_drm.enabled => panel_shows.awake /\ panel_shows.lit

\* A panel with a power-down period is not powered on again before its end
\* ("minimum time between power off and power on").  Two cases are excepted,
\* for they leave no time noted: a power-on that failed at the second supply
\* has switched vddio off, and a driver that is bound anew starts without.
PanelRests ==
  panel_todo # <<>> /\ Head(panel_todo) = "vddio_on" /\ desc.rests => panel_cold # "short"

\* All three, for each variant and whatever fails.
PanelSequenced == PanelInOrder /\ PanelSettled /\ PanelRests

=============================================================================
