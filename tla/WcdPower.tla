------------------------------ MODULE WcdPower ------------------------------
(***************************************************************************)
(* The power events of the WCD9320 codec, wcd9320.c, and of its class H    *)
(* block, wcd-clsh.c: what each DAPM widget's handler does to the shared   *)
(* clocks, filters and supplies, with the controls a user moves meanwhile. *)
(*                                                                         *)
(* External: DAPM.  A widget comes up with PRE_PMU, the write of its own   *)
(* register, POST_PMU, and goes down with PRE_PMD, the write, POST_PMD; a  *)
(* supply is up before its users and goes down after them, and so is the   *)
(* bias of a microphone.  Widgets are otherwise taken in any order.  A bit *)
(* is in pow.bits while it is set.  Left out: gains, rates and thresholds, *)
(* bits set and cleared by the same event (resets), the ANC pins, the      *)
(* handlers that only print "unimplemented".                               *)
(***************************************************************************)
EXTENDS Integers, Sequences, FiniteSets

CONSTANTS
  PowBoards,        (* sets of widgets that are routed together            *)
  MaxClshUsers      (* bound on the users of the class H block             *)

\* The widgets modelled: <<kind, number>>, and for a bias which of its outputs.
PowWidgets ==
  {<<"ldo_h", 0>>, <<"rx_bias", 0>>, <<"dsm", 0>>}
    \union ({"adc"} \X (1 .. 6)) \union ({"dec"} \X (1 .. 10))
    \union ({"dac"} \X (1 .. 2)) \union ({"rx"} \X (1 .. 7)) \union ({"comp"} \X (0 .. 2))
    \union ({"bias"} \X (1 .. 4) \X {"External", "Internal1", "Internal2", "Internal3"})

\* A bias is routed with the regulator, a headphone with the bias of its path.
ASSUME PowAssumption ==
  \A b \in PowBoards :
    /\ b \subseteq PowWidgets
    /\ \A w \in b : w[1] = "bias" => <<"ldo_h", 0>> \in b
    /\ \A w \in b : w[1] = "dac" => <<"rx_bias", 0>> \in b

VARIABLES
  pow_wired,        (* the widgets in play                                 *)
  pow_phase,        (* off, rising, on, falling                            *)
  pow               (* the driver's counts and the codec's registers       *)

pow_vars == <<pow_wired, pow_phase, pow>>

Counted(cond, bits, bit) == IF cond THEN bits \union {bit} ELSE bits

Dropped(cond, bits, bit) == IF cond THEN bits \ {bit} ELSE bits

\* The widgets a widget is powered after.
Needs(w) ==
  CASE w[1] = "bias" -> {<<"ldo_h", 0>>}
    [] w[1] = "adc"  -> pow_wired \intersect {<<"bias", w[2], "External">>}
    [] w[1] = "dac"  -> {<<"rx_bias", 0>>}
    [] w[1] = "rx"   -> {v \in pow_wired : v[1] = "comp" /\ (v[2] = 1 <=> w[2] \in {1, 2})}
    [] OTHER         -> {}

-----------------------------------------------------------------------------
(* Capture                                                                 *)

\* ADC5 and ADC6 get POST_PMU only.
taiko_codec_enable_adc(n, event, r) ==
  CASE event = "PRE_PMU" /\ n <= 4 ->
         [r EXCEPT !.adc_users = @ + 1,
                   !.bits = Counted(r.adc_users = 0, @, <<"adc_clk", 0>>) \union {<<"init", n>>}]
    [] event = "POST_PMU" -> [r EXCEPT !.bits = @ \ {<<"init", n>>}]
    [] event = "POST_PMD" /\ n <= 4 ->
         [r EXCEPT !.adc_users = IF @ > 0 THEN @ - 1 ELSE 0,
                   !.bits = Dropped(r.adc_users = 1, @, <<"adc_clk", 0>>)]
    [] OTHER -> r

taiko_codec_enable_ldo_h(event, r) ==
  CASE event = "PRE_PMU" ->
         [r EXCEPT !.ldo_h_users = @ + 1, !.bits = Counted(r.ldo_h_users = 0, @, <<"ldo_h", 0>>)]
    [] event = "POST_PMD" ->
         [r EXCEPT !.ldo_h_users = IF @ > 0 THEN @ - 1 ELSE 0,
                   !.bits = Dropped(r.ldo_h_users = 1, @, <<"ldo_h", 0>>)]
    [] OTHER -> r

\* Bias 1 and 4 share the first filter.
cfilt(n) == CASE n = 1 -> 0 [] n = 2 -> 1 [] n = 3 -> 2 [] n = 4 -> 0

\* An internal output has a resistor of its own.
rbias(w) == IF w[3] = "External" THEN {} ELSE {<<"rbias", w[2], w[3]>>}

Outputs(n) == {v \in pow_wired : v[1] = "bias" /\ v[2] = n}

\* Variant: the filter goes with the first of its biases.
taiko_codec_enable_micbias_uncounted(w, event, r) ==
  LET f == cfilt(w[2])
  IN  CASE event = "PRE_PMU" ->
             [r EXCEPT !.cfilt_users[f] = @ + 1,
                       !.bits = Counted(r.cfilt_users[f] = 0, @, <<"cfilt", f>>)
                                  \union ({<<"micb", w[2]>>} \union rbias(w)),
                       !.undercut = {v \in @ : v[2] # w[2]}]
        [] event = "POST_PMD" ->
             [r EXCEPT !.cfilt_users[f] = IF @ > 0 THEN @ - 1 ELSE 0,
                       !.bits = @ \ ({<<"cfilt", f>>, <<"micb", w[2]>>} \union rbias(w)),
                       !.undercut = (@ \union Outputs(w[2])) \ {w}]
        [] OTHER -> r

\* The filter has its users counted; the bias itself, one bit for all of its
\* outputs, does not: `undercut' notes the outputs left up without it.
taiko_codec_enable_micbias(w, event, r) ==
  LET f == cfilt(w[2])
  IN  CASE event = "PRE_PMU" ->
             [r EXCEPT !.cfilt_users[f] = @ + 1,
                       !.bits = Counted(r.cfilt_users[f] = 0, @, <<"cfilt", f>>)
                                  \union ({<<"micb", w[2]>>} \union rbias(w)),
                       !.undercut = {v \in @ : v[2] # w[2]}]
        [] event = "POST_PMD" ->
             [r EXCEPT !.cfilt_users[f] = IF @ > 0 THEN @ - 1 ELSE 0,
                       !.bits = Dropped(r.cfilt_users[f] = 1, @, <<"cfilt", f>>)
                                  \ ({<<"micb", w[2]>>} \union rbias(w)),
                       !.undercut = (@ \union Outputs(w[2])) \ {w}]
        [] OTHER -> r

\* Muted from PRE_PMU to POST_PMU and from PRE_PMD on; the high pass is on until
\* POST_PMD sets its bypass bit.
taiko_codec_enable_dec(n, event, r) ==
  CASE event = "PRE_PMU"  -> [r EXCEPT !.bits = (@ \ {<<"bypass", n>>}) \union {<<"mute", n>>}]
    [] event = "POST_PMU" -> [r EXCEPT !.bits = @ \ {<<"mute", n>>}]
    [] event = "PRE_PMD"  -> [r EXCEPT !.bits = @ \union {<<"mute", n>>}]
    [] event = "POST_PMD" -> [r EXCEPT !.bits = @ \union {<<"bypass", n>>}]

-----------------------------------------------------------------------------
(* Playback                                                                *)

\* wcd_clsh_ctrl_set_state() with PRE_DAC for a headphone: nothing for the
\* channel that asked last.  No event ever takes a user off again.
wcd_clsh_ctrl_set_state(n, r) ==
  IF r.clsh = n THEN r
  ELSE [r EXCEPT !.clsh = n, !.clsh_users = @ + 1, !.cp_users = @ + 1,
                 !.bits = Counted(r.cp_users = 0, Counted(r.clsh_users = 0, @, <<"clsh", 0>>), <<"cp", 0>>)
                            \union {<<"clsh_hph", n>>, <<"buck", 0>>, <<"ncp", 0>>}]

\* taiko_hphl_dac_event() and taiko_hphr_dac_event().
hph_dac_event(n, event, r) ==
  CASE event = "PRE_PMU"  ->
         wcd_clsh_ctrl_set_state(n, [r EXCEPT !.bits = @ \union {<<"rdac", n>>}])
    [] event = "POST_PMD" -> [r EXCEPT !.bits = @ \ {<<"rdac", n>>}]
    [] OTHER -> r

taiko_codec_enable_rx_bias(event, r) ==
  CASE event = "PRE_PMU"  -> [r EXCEPT !.bits = @ \union {<<"rx_bias", 0>>}]
    [] event = "POST_PMD" -> [r EXCEPT !.bits = @ \ {<<"rx_bias", 0>>}]
    [] OTHER -> r

\* The mux is powered only with RX1 selected, and copies the selection.
taiko_codec_dsm_mux_event(event, r) ==
  CASE event = "POST_PMU" -> [r EXCEPT !.bits = @ \union {<<"zoh", 0>>}]
    [] event = "POST_PMD" -> [r EXCEPT !.bits = @ \ {<<"zoh", 0>>}]
    [] OTHER -> r

CompanderBits(c) == {<<"comp_clk", c>>, <<"comp_gain", c>>, <<"comp", c>>}

\* Variant: the clock is left running.
taiko_config_compander_clocked(c, event, r) ==
  CASE r.comp_enabled[c] /\ event = "PRE_PMU" ->
         [r EXCEPT !.bits = @ \union CompanderBits(c), !.moved = @ \ {c}]
    [] r.comp_enabled[c] /\ event = "PRE_PMD" ->
         [r EXCEPT !.bits = @ \ {<<"comp_gain", c>>, <<"comp", c>>}, !.moved = @ \ {c}]
    [] OTHER -> r

\* Clock, reset, gain source, enable; all undone before the supply goes down.
\* With the control off neither event does anything.
taiko_config_compander(c, event, r) ==
  CASE r.comp_enabled[c] /\ event = "PRE_PMU" ->
         [r EXCEPT !.bits = @ \union CompanderBits(c), !.moved = @ \ {c}]
    [] r.comp_enabled[c] /\ event = "PRE_PMD" ->
         [r EXCEPT !.bits = @ \ CompanderBits(c), !.moved = @ \ {c}]
    [] OTHER -> r

-----------------------------------------------------------------------------

\* The handler of widget w.
Event(w, event, r) ==
  CASE w[1] = "adc"     -> taiko_codec_enable_adc(w[2], event, r)
    [] w[1] = "ldo_h"   -> taiko_codec_enable_ldo_h(event, r)
    [] w[1] = "bias"    -> taiko_codec_enable_micbias(w, event, r)
    [] w[1] = "dec"     -> taiko_codec_enable_dec(w[2], event, r)
    [] w[1] = "dac"     -> hph_dac_event(w[2], event, r)
    [] w[1] = "rx_bias" -> taiko_codec_enable_rx_bias(event, r)
    [] w[1] = "dsm"     -> taiko_codec_dsm_mux_event(event, r)
    [] w[1] = "comp"    -> taiko_config_compander(w[2], event, r)
    [] OTHER            -> r

\* The register DAPM writes itself: an interpolator's clock enable.
RegisterOf(w) == IF w[1] = "rx" THEN {<<"rx_clk", w[2]>>} ELSE {}

WidgetStep(w, from, to, r) ==
  /\ pow_phase[w] = from
  /\ pow_phase' = [pow_phase EXCEPT ![w] = to]
  /\ pow' = r
  /\ UNCHANGED pow_wired

pre_pmu ==
  \E w \in pow_wired :
    /\ \A v \in Needs(w) : pow_phase[v] = "on"
    /\ w[1] = "dac" => pow.clsh_users < MaxClshUsers
    /\ WidgetStep(w, "off", "rising", Event(w, "PRE_PMU", pow))

post_pmu ==
  \E w \in pow_wired :
    WidgetStep(w, "rising", "on",
      Event(w, "POST_PMU", [pow EXCEPT !.bits = @ \union RegisterOf(w), !.overrun = @ \ {w}]))

pre_pmd ==
  \E w \in pow_wired :
    /\ \A v \in pow_wired : w \in Needs(v) => pow_phase[v] = "off"
    /\ WidgetStep(w, "on", "falling", Event(w, "PRE_PMD", pow))

post_pmd ==
  \E w \in pow_wired :
    WidgetStep(w, "falling", "off",
      Event(w, "POST_PMD", [pow EXCEPT !.bits = @ \ RegisterOf(w)]))

-----------------------------------------------------------------------------
(* Controls, and the prepare of a playback                                 *)

ControlStep(r) == pow' = r /\ UNCHANGED <<pow_wired, pow_phase>>

\* Only the flag: a compander that runs is not told.
taiko_set_compander ==
  \E w \in pow_wired :
    /\ w[1] = "comp"
    /\ ControlStep([pow EXCEPT !.comp_enabled[w[2]] = ~@,
                               !.moved = IF pow_phase[w] = "off" THEN @ ELSE @ \union {w[2]}])

\* What a selection connects: nothing, a digital microphone, or a converter.
Digital(n, val) == IF n <= 6 THEN val = 1 ELSE val \in {1, 2}

\* Variant: the second selection of a late decimator is taken for a converter.
adc_dmic_sel_early(n, val) == val = 1

adc_dmic_sel(n, val) == (n <= 6 /\ val = 1) \/ (n >= 6 /\ val \in {1, 2})

wcd9320_put_dec_enum ==
  \E w \in pow_wired, val \in 0 .. 3 :
    /\ w[1] = "dec" /\ (w[2] <= 6 => val <= 2)
    /\ ControlStep([pow EXCEPT !.dec[w[2]] = val,
         !.bits = IF adc_dmic_sel(w[2], val) THEN @ \union {<<"dmic", w[2]>>} ELSE @ \ {<<"dmic", w[2]>>}])

\* wcd9320_prepare() writes the whole register of interpolator clocks: 1 and 2
\* on, the others off.
prepare_playback ==
  /\ \E w \in pow_wired : w[1] = "rx"
  /\ ControlStep([pow EXCEPT
       !.bits = {b \in @ : b[1] # "rx_clk"} \union {<<"rx_clk", 1>>, <<"rx_clk", 2>>},
       !.overrun = {w \in pow_wired : w[1] = "rx" /\ (w[2] > 2 \/ pow_phase[w] = "off")}])

PowInit ==
  /\ pow_wired \in PowBoards
  /\ pow_phase = [w \in pow_wired |-> "off"]
  /\ pow = [bits |-> {}, adc_users |-> 0, ldo_h_users |-> 0, cfilt_users |-> [f \in 0 .. 2 |-> 0],
            clsh |-> 0, clsh_users |-> 0, cp_users |-> 0,
            comp_enabled |-> [c \in 0 .. 2 |-> FALSE], dec |-> [n \in 1 .. 10 |-> 0],
            undercut |-> {}, moved |-> {}, overrun |-> {}]

PowNext ==
  \/ pre_pmu \/ post_pmu \/ pre_pmd \/ post_pmd
  \/ taiko_set_compander \/ wcd9320_put_dec_enum \/ prepare_playback

PowSpec == PowInit /\ [][PowNext]_pow_vars

-----------------------------------------------------------------------------
(* Properties                                                              *)

IsOn(w)  == pow_phase[w] = "on"
IsOff(w) == pow_phase[w] = "off"

\* What a widget that is on relies on is there, whatever other widgets shared it
\* and went down: the regulator, the filter and the bias behind an output; the
\* clock of a converter whose initialisation bit has been released; an unmuted
\* decimator behind its high pass; the bias, the class H block, the charge pump
\* and the channel's switch of a headphone amplifier.  Three exceptions are what
\* the code does: an output whose bias another output took down, ADC5 and ADC6,
\* which never ask for the clock, and an interpolator above the second whose
\* clock the prepare of another playback cleared.
PowPowered ==
  \A w \in {v \in pow_wired : IsOn(v)} :
    /\ w[1] = "bias" =>
         /\ {<<"ldo_h", 0>>, <<"cfilt", cfilt(w[2])>>} \subseteq pow.bits
         /\ w \notin pow.undercut => <<"micb", w[2]>> \in pow.bits
    /\ w[1] = "adc" =>
         /\ <<"init", w[2]>> \notin pow.bits
         /\ w[2] <= 4 => <<"adc_clk", 0>> \in pow.bits
    /\ w[1] = "dec" => {<<"mute", w[2]>>, <<"bypass", w[2]>>} \intersect pow.bits = {}
    /\ w[1] = "dac" =>
         {<<"rx_bias", 0>>, <<"rdac", w[2]>>, <<"clsh", 0>>, <<"cp", 0>>, <<"clsh_hph", w[2]>>,
          <<"buck", 0>>, <<"ncp", 0>>} \subseteq pow.bits
    /\ w[1] = "rx" /\ w \notin pow.overrun => <<"rx_clk", w[2]>> \in pow.bits
    /\ w[1] = "comp" /\ w[2] \notin pow.moved =>
         CompanderBits(w[2]) \intersect pow.bits
           = IF pow.comp_enabled[w[2]] THEN CompanderBits(w[2]) ELSE {}

\* What nobody uses is off: each count is the number of its users, and a clock,
\* filter, regulator or bias without one is off.  Two exceptions are what the
\* code does: a compander whose control was moved while it ran keeps its clock
\* (wcd9320.c:1189), and the prepare of a playback, which writes the whole
\* register (wcd9320.c:2595), leaves on the clock of an interpolator that is
\* off.  The class H block and its supplies are not in this list: they stay on
\* after the first use.
PowReleased ==
  LET Up(kind) == {w \in pow_wired : w[1] = kind /\ ~IsOff(w)}
      adcs == {w \in Up("adc") : w[2] <= 4}
  IN  /\ pow.adc_users = Cardinality(adcs)
      /\ adcs = {} => <<"adc_clk", 0>> \notin pow.bits
      /\ Up("ldo_h") = {} => <<"ldo_h", 0>> \notin pow.bits
      /\ \A f \in 0 .. 2 :
           LET biases == {w \in Up("bias") : cfilt(w[2]) = f}
           IN  /\ pow.cfilt_users[f] = Cardinality(biases)
               /\ biases = {} => <<"cfilt", f>> \notin pow.bits
      /\ \A n \in 1 .. 4 :
           {w \in Up("bias") : w[2] = n} = {} =>
             \A b \in pow.bits : b[1] \in {"micb", "rbias"} => b[2] # n
      /\ \A w \in {v \in pow_wired : IsOff(v)} :
           /\ w[1] = "comp" /\ w[2] \notin pow.moved => CompanderBits(w[2]) \intersect pow.bits = {}
           /\ w[1] = "rx" /\ w \notin pow.overrun => <<"rx_clk", w[2]>> \notin pow.bits

\* A decimator takes the digital input exactly when its control names a digital
\* microphone; the sixth alone, which both halves of the test take for theirs,
\* also does when it is set to ADC1.
DecFollows ==
  \A w \in pow_wired :
    w[1] = "dec" /\ <<w[2], pow.dec[w[2]]>> # <<6, 2>> =>
      (<<"dmic", w[2]>> \in pow.bits <=> Digital(w[2], pow.dec[w[2]]))

\* What is on works, and works on what the controls say.
PowServes == PowPowered /\ DecFollows

=============================================================================
