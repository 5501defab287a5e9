------------------------------- MODULE Imx132 -------------------------------
(***************************************************************************)
(* The driver of the front camera, imx132.c: power, runtime power          *)
(* management, streaming and controls.  The sensor forgets its registers   *)
(* whenever it is off, and every write to one may fail.                    *)
(*                                                                         *)
(* The V4L2 and runtime PM cores are external: one lock for controls and   *)
(* streams, a control that is committed when its write succeeded, a value  *)
(* clamped to a range that shrinks.  "flip" stands for the controls with   *)
(* neither a range of their own nor an effect on another's: the two flips  *)
(* and the gain.  The sensor is not unbound under a running stream.        *)
(* Left out: the fixed mode, formats and controls that are read-only.      *)
(***************************************************************************)
EXTENDS Integers, Sequences

CONSTANTS
  HEIGHT,           (* lines of the mode                                   *)
  EXPOSURE_MARGIN,
  EXPOSURE_DEFAULT,
  VBlanks,          (* blankings a user sets                               *)
  VBlankDefault,
  MaxCamFaults      (* bound on writes and power supplies that fail        *)

VARIABLES
  cam_probe,      (* the stage of probe, "unbound" or "bound"              *)
  cam_held,       (* what probe has set up                                 *)
  cam_on,         (* which of supplies, reset (released) and xclk are on   *)
  cam_rpm,        (* runtime PM: enabled, active, usage                    *)
  cam_ctrl,       (* the controls' current values                          *)
  cam_max,        (* the maximum of the exposure control                   *)
  cam_regs,       (* the sensor's registers                                *)
  cam_op,         (* the call that has the lock: a start (configure, then  *)
                  (* start), stop, ctrl, or none                           *)
  cam_todo,       (* the writes it has still to make                       *)
  cam_streaming,  (* enable_streams() succeeded, disable_streams() not yet *)
  cam_faults,
  cam_failed      (* history: a write failed since the sensor was reset    *)

cam_call == <<cam_op, cam_todo>>
cam_vals == <<cam_ctrl, cam_max>>
cam_vars == <<cam_probe, cam_held, cam_on, cam_rpm, cam_vals, cam_regs, cam_call,
              cam_streaming, cam_faults, cam_failed>>

AllOn == {"supplies", "reset", "xclk"}

CamDefaults ==
  [vblank |-> VBlankDefault, exposure |-> EXPOSURE_DEFAULT, flip |-> FALSE]

\* After power-on or a software reset.
ResetRegs == [mode |-> "standby", vendor |-> FALSE, sized |-> FALSE, frame_length |-> HEIGHT + VBlankDefault,
              exposure |-> EXPOSURE_DEFAULT, flip |-> FALSE]

ExposureMax(vblank) == HEIGHT + vblank - EXPOSURE_MARGIN

CamBlankings == VBlanks \union {VBlankDefault}

\* The default exposure is capped to its range when the control is made, and
\* the least blanking leaves room for the least exposure, 1.
ASSUME CamAssumption ==
  /\ HEIGHT \in Int /\ EXPOSURE_MARGIN \in Int /\ EXPOSURE_DEFAULT \in Int
  /\ VBlankDefault \in Int /\ VBlanks \subseteq Int
  /\ EXPOSURE_DEFAULT <= ExposureMax(VBlankDefault)
  /\ \A v \in CamBlankings : 1 <= ExposureMax(v)

CamFault == cam_faults < MaxCamFaults /\ cam_faults' = cam_faults + 1

-----------------------------------------------------------------------------
(* Power                                                                   *)

imx132_power_on(from, to) == from = {} /\ to = AllOn

\* The regulators or the clock fail: what was on is taken back.
power_on_fails == CamFault /\ cam_on = {}

imx132_power_off == cam_on' = {} /\ cam_regs' = ResetRegs

\* Runtime suspend, a second after the last user.
autosuspend ==
  /\ cam_rpm.enabled /\ cam_rpm.active /\ cam_rpm.usage = 0
  /\ cam_rpm' = [cam_rpm EXCEPT !.active = FALSE]
  /\ imx132_power_off
  /\ UNCHANGED <<cam_probe, cam_held, cam_vals, cam_call, cam_streaming, cam_faults, cam_failed>>

-----------------------------------------------------------------------------
(* Probe and remove                                                        *)

\* The stages; each but the last can fail.
Stages == <<"power", "identify", "ctrls", "entity", "subdev", "async", "registered">>

\* Variant: a failure to set up the pads goes to err_power_off.
Unwound_early(stage) ==
  CASE stage = "power" -> {}
    [] stage \in {"identify", "ctrls", "entity"} -> {"power"}
    [] stage = "subdev" -> {"power", "ctrls", "entity"}
    [] stage = "async"  -> {"power", "ctrls", "entity", "subdev", "pm"}

\* What is given back when a stage fails: the label it goes to and those below.
Unwound(stage) ==
  CASE stage = "power" -> {}
    [] stage \in {"identify", "ctrls"} -> {"power"}
    [] stage = "entity" -> {"power", "ctrls"}
    [] stage = "subdev" -> {"power", "ctrls", "entity"}
    [] stage = "async"  -> {"power", "ctrls", "entity", "subdev", "pm"}

cam_probe_begins ==
  /\ cam_probe = "unbound"
  /\ cam_probe' = Stages[1]
  /\ cam_ctrl' = CamDefaults /\ cam_max' = ExposureMax(VBlankDefault)
  /\ cam_failed' = FALSE
  /\ UNCHANGED <<cam_held, cam_on, cam_rpm, cam_regs, cam_call, cam_streaming, cam_faults>>

\* Runtime PM is enabled after the subdev, with the sensor active and held.
cam_probe_step ==
  /\ \E i \in 1 .. Len(Stages) - 1 : cam_probe = Stages[i] /\ cam_probe' = Stages[i + 1]
  /\ cam_held' = cam_held \union (IF cam_probe = "identify" THEN {} ELSE {cam_probe})
                          \union (IF cam_probe = "subdev" THEN {"pm"} ELSE {})
  /\ IF cam_probe = "power" THEN imx132_power_on(cam_on, cam_on') ELSE UNCHANGED cam_on
  /\ cam_rpm' = IF cam_probe = "subdev"
                THEN [enabled |-> TRUE, active |-> TRUE, usage |-> cam_rpm.usage + 1]
                ELSE cam_rpm
  /\ UNCHANGED <<cam_vals, cam_regs, cam_call, cam_streaming, cam_faults, cam_failed>>

cam_probe_fails ==
  /\ \E i \in 1 .. Len(Stages) - 1 : cam_probe = Stages[i]
  /\ CamFault
  /\ cam_held' = cam_held \ Unwound(cam_probe)
  /\ IF "power" \in Unwound(cam_probe) THEN imx132_power_off ELSE UNCHANGED <<cam_on, cam_regs>>
  /\ cam_rpm' = IF "pm" \in Unwound(cam_probe)
                THEN [cam_rpm EXCEPT !.enabled = FALSE, !.usage = @ - 1] ELSE cam_rpm
  /\ cam_probe' = "unbound"
  /\ UNCHANGED <<cam_vals, cam_call, cam_streaming, cam_failed>>

\* The reference probe holds goes; others may have used the sensor by now.
cam_probe_ends ==
  /\ cam_probe = "registered"
  /\ cam_probe' = "bound"
  /\ cam_rpm' = [cam_rpm EXCEPT !.usage = @ - 1]
  /\ UNCHANGED <<cam_held, cam_on, cam_vals, cam_regs, cam_call, cam_streaming,
                 cam_faults, cam_failed>>

imx132_remove ==
  /\ cam_probe = "bound" /\ cam_op = "none" /\ ~cam_streaming
  /\ cam_held' = cam_held \ {"async", "subdev", "entity", "ctrls", "pm", "power"}
  /\ IF cam_rpm.active THEN imx132_power_off ELSE UNCHANGED <<cam_on, cam_regs>>
  /\ cam_rpm' = [cam_rpm EXCEPT !.enabled = FALSE, !.active = FALSE]
  /\ cam_probe' = "unbound"
  /\ UNCHANGED <<cam_vals, cam_call, cam_streaming, cam_faults, cam_failed>>

-----------------------------------------------------------------------------
(* Writes.  A call is the list of its writes; the first that fails ends it *)
(* unless it is ignored.                                                   *)

Write(reg, val) == [reg |-> reg, val |-> val, ignored |-> FALSE]

Attempt(reg, val) == [reg |-> reg, val |-> val, ignored |-> TRUE]

\* The settings the vendor wants after a reset, in one call.
imx132_vendor_init == <<Write("vendor", TRUE)>>

\* Clocks, window and line length of the mode.
imx132_mode_1976x1144 == <<Write("sized", TRUE)>>

\* Standby and software reset first, as both would be lost in them.
imx132_configure ==
  <<Write("mode", "standby"), Write("reset", TRUE)>> \o imx132_vendor_init \o imx132_mode_1976x1144

\* A new blanking moves the range of the exposure first, and with it, perhaps,
\* the exposure; whether that write succeeds is not looked at.
Clamped(vblank) == cam_ctrl.exposure > ExposureMax(vblank)

\* Variant: the frame length before the exposure that has to fit in it.
vblank_writes_first(v) ==
  <<Write("frame_length", HEIGHT + v)>>
  \o IF Clamped(v) THEN <<Attempt("exposure", ExposureMax(v))>> ELSE <<>>

vblank_writes(v) ==
  (IF Clamped(v) THEN <<Attempt("exposure", ExposureMax(v))>> ELSE <<>>)
  \o <<Write("frame_length", HEIGHT + v)>>

\* Variant: the flips are not set up.
handler_setup_partly == vblank_writes(cam_ctrl.vblank) \o <<Write("exposure", cam_ctrl.exposure)>>

\* __v4l2_ctrl_handler_setup(): the controls in the order they were created.
handler_setup ==
  vblank_writes(cam_ctrl.vblank)
  \o <<Write("exposure", cam_ctrl.exposure), Write("flip", cam_ctrl.flip)>>

\* What is written: a set up of the exposure takes its value of that moment,
\* which the set up of the blanking may have clamped.
Value(w) == IF cam_op = "start" /\ w.reg = "exposure" /\ ~w.ignored THEN cam_ctrl.exposure ELSE w.val

\* The control a write that succeeded commits.
Commits(w) ==
  CASE w.reg = "exposure"     -> [cam_ctrl EXCEPT !.exposure = Value(w)]
    [] w.reg = "frame_length" -> [cam_ctrl EXCEPT !.vblank = w.val - HEIGHT]
    [] w.reg = "flip"         -> [cam_ctrl EXCEPT !.flip = w.val]
    [] OTHER                  -> cam_ctrl

cam_writes ==
  /\ cam_todo # <<>>
  /\ LET w == Head(cam_todo)
     IN  /\ cam_regs' = IF w.reg = "reset" THEN ResetRegs
                        ELSE [cam_regs EXCEPT ![w.reg] = Value(w)]
         /\ cam_ctrl' = Commits(w)
  /\ cam_todo' = Tail(cam_todo)
  /\ UNCHANGED <<cam_probe, cam_held, cam_on, cam_rpm, cam_max, cam_op,
                 cam_streaming, cam_faults, cam_failed>>

\* Variant: the path of a start that failed keeps its reference.
call_fails_keeps(ignored) ==
  IF ignored THEN cam_todo' = Tail(cam_todo) /\ UNCHANGED <<cam_op, cam_rpm>>
  ELSE /\ cam_todo' = <<>> /\ cam_op' = "none"
       /\ UNCHANGED cam_rpm

\* The call goes on after a failure that is ignored; otherwise it gives its
\* reference back and returns the error.
call_fails(ignored) ==
  IF ignored THEN cam_todo' = Tail(cam_todo) /\ UNCHANGED <<cam_op, cam_rpm>>
  ELSE /\ cam_todo' = <<>> /\ cam_op' = "none"
       /\ cam_rpm' = [cam_rpm EXCEPT !.usage = @ - 1]

cam_write_fails ==
  /\ cam_todo # <<>>
  /\ CamFault
  /\ cam_failed' = TRUE
  /\ call_fails(Head(cam_todo).ignored)
  /\ UNCHANGED <<cam_probe, cam_held, cam_on, cam_vals, cam_regs, cam_streaming>>

-----------------------------------------------------------------------------
(* Streaming                                                               *)

Registered == cam_probe \in {"registered", "bound"}

\* pm_runtime_resume_and_get(), then the writes.
imx132_enable_streams ==
  /\ Registered /\ cam_op = "none" /\ ~cam_streaming
  /\ cam_rpm' = [cam_rpm EXCEPT !.active = TRUE, !.usage = @ + 1]
  /\ IF cam_rpm.active THEN UNCHANGED cam_on ELSE imx132_power_on(cam_on, cam_on')
  /\ cam_op' = "configure" /\ cam_todo' = imx132_configure
  /\ UNCHANGED <<cam_probe, cam_held, cam_vals, cam_regs, cam_streaming, cam_faults, cam_failed>>

configured ==
  /\ cam_op = "configure" /\ cam_todo = <<>>
  /\ cam_op' = "start" /\ cam_todo' = handler_setup \o <<Write("mode", "streaming")>>
  /\ cam_max' = ExposureMax(cam_ctrl.vblank)
  /\ cam_failed' = FALSE
  /\ UNCHANGED <<cam_probe, cam_held, cam_on, cam_rpm, cam_ctrl, cam_regs, cam_streaming,
                 cam_faults>>

enable_streams_no_power ==
  /\ Registered /\ cam_op = "none" /\ ~cam_streaming /\ ~cam_rpm.active
  /\ power_on_fails
  /\ UNCHANGED <<cam_probe, cam_held, cam_on, cam_rpm, cam_vals, cam_regs, cam_call,
                 cam_streaming, cam_failed>>

imx132_disable_streams ==
  /\ cam_op = "none" /\ cam_streaming
  /\ cam_op' = "stop" /\ cam_todo' = <<Attempt("mode", "standby")>>
  /\ cam_streaming' = FALSE
  /\ UNCHANGED <<cam_probe, cam_held, cam_on, cam_rpm, cam_vals, cam_regs,
                 cam_faults, cam_failed>>

\* A call ends; a start keeps its reference until the stop.
call_returns ==
  /\ cam_op \in {"start", "stop", "ctrl"} /\ cam_todo = <<>>
  /\ cam_streaming' = (cam_streaming \/ cam_op = "start")
  /\ cam_rpm' = IF cam_op = "start" THEN cam_rpm ELSE [cam_rpm EXCEPT !.usage = @ - 1]
  /\ cam_op' = "none"
  /\ UNCHANGED <<cam_probe, cam_held, cam_on, cam_vals, cam_regs, cam_todo,
                 cam_faults, cam_failed>>

-----------------------------------------------------------------------------
(* Controls                                                                *)

InUse == cam_rpm.enabled /\ cam_rpm.active /\ cam_rpm.usage > 0

ctrl_writes(c, v) == IF c = "vblank" THEN vblank_writes(v) ELSE <<Write(c, v)>>

CtrlInput(c, v) ==
  /\ Registered /\ cam_op = "none"
  /\ v # cam_ctrl[c]
  /\ cam_max' = IF c = "vblank" THEN ExposureMax(v) ELSE cam_max

CtrlValues(c) ==
  CASE c = "vblank" -> VBlanks [] c = "exposure" -> {1, cam_max} [] c = "flip" -> BOOLEAN

\* imx132_set_ctrl() with the sensor in use: the writes follow.
set_ctrl_in_use ==
  \E c \in DOMAIN cam_ctrl : \E v \in CtrlValues(c) :
    /\ CtrlInput(c, v)
    /\ InUse
    /\ cam_rpm' = [cam_rpm EXCEPT !.usage = @ + 1]
    /\ cam_op' = "ctrl" /\ cam_todo' = ctrl_writes(c, v)
    /\ UNCHANGED <<cam_probe, cam_held, cam_on, cam_ctrl, cam_regs, cam_streaming,
                   cam_faults, cam_failed>>

\* Otherwise the value waits for the next start.
set_ctrl_idle ==
  \E c \in DOMAIN cam_ctrl : \E v \in CtrlValues(c) :
    /\ CtrlInput(c, v)
    /\ ~InUse
    /\ cam_ctrl' = IF c = "vblank" /\ Clamped(v)
                   THEN [cam_ctrl EXCEPT !.vblank = v, !.exposure = ExposureMax(v)]
                   ELSE [cam_ctrl EXCEPT ![c] = v]
    /\ UNCHANGED <<cam_probe, cam_held, cam_on, cam_rpm, cam_regs, cam_call,
                   cam_streaming, cam_faults, cam_failed>>

-----------------------------------------------------------------------------

CamInit ==
  /\ cam_probe = "unbound" /\ cam_held = {} /\ cam_on = {}
  /\ cam_rpm = [enabled |-> FALSE, active |-> FALSE, usage |-> 0]
  /\ cam_ctrl = CamDefaults /\ cam_max = ExposureMax(VBlankDefault)
  /\ cam_regs = ResetRegs
  /\ cam_op = "none" /\ cam_todo = <<>>
  /\ cam_streaming = FALSE /\ cam_faults = 0 /\ cam_failed = FALSE

CamNext ==
  \/ cam_probe_begins \/ cam_probe_step \/ cam_probe_fails \/ cam_probe_ends \/ imx132_remove
  \/ autosuspend
  \/ imx132_enable_streams \/ configured \/ enable_streams_no_power \/ imx132_disable_streams
  \/ cam_writes \/ cam_write_fails \/ call_returns
  \/ set_ctrl_in_use \/ set_ctrl_idle

CamSpec == CamInit /\ [][CamNext]_cam_vars

-----------------------------------------------------------------------------
(* Properties                                                              *)

\* The sensor never streams with an exposure that does not fit into its frame
\* ("below frame length"), not even between the two writes of a change of the
\* blanking; unless a write has failed since the stream began.
CamExposureFits ==
  cam_regs.mode = "streaming" /\ ~cam_failed
    => cam_regs.exposure <= cam_regs.frame_length - EXPOSURE_MARGIN

\* A running stream is powered, configured and held against autosuspend, and
\* it shows what the controls say, whether they were set before the sensor
\* was on, while it waited for autosuspend or under the stream.
CamAsSet ==
  cam_streaming /\ cam_op = "none" /\ ~cam_failed
    => /\ cam_on = AllOn /\ cam_rpm.active /\ cam_rpm.usage > 0
       /\ cam_regs = [mode |-> "streaming", vendor |-> TRUE, sized |-> TRUE,
                      frame_length |-> HEIGHT + cam_ctrl.vblank,
                      exposure |-> cam_ctrl.exposure, flip |-> cam_ctrl.flip]

\* Both, over any controls set before, between and under streams.
CamShows == CamExposureFits /\ CamAsSet

\* However probe fails, and after remove, nothing is held, on or enabled; and
\* a driver that is neither streaming nor in a call can autosuspend: no path
\* keeps or gives back a reference too many.
CamReleased ==
  /\ cam_probe = "unbound" => cam_held = {} /\ cam_on = {} /\ ~cam_rpm.enabled
  /\ cam_probe \in {"unbound", "bound"} /\ cam_op = "none"
       => cam_rpm.usage = IF cam_streaming THEN 1 ELSE 0

=============================================================================
