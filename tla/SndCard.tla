------------------------------- MODULE SndCard ------------------------------
(***************************************************************************)
(* The sound card, msm8974-sndcard.c: which links become back ends, and    *)
(* the clocks of an MI2S interface as its streams are started and shut     *)
(* down.  The hw_params of a SLIMbus back end is in WcdSlim.               *)
(*                                                                         *)
(* External: qcom_snd_parse_of() (a link without a codec is dynamic), the  *)
(* PCM core (a link whose startup failed is not shut down), the DSP (one   *)
(* pair of clocks for both directions of an interface; any request may be  *)
(* refused).                                                               *)
(***************************************************************************)
EXTENDS Integers, FiniteSets

CONSTANTS
  CardLinks,        (* <<id, codec, platform>>: the port, and whether the  *)
                    (* device tree names a codec and a platform for it     *)
  MaxCardFaults     (* bound on requests the DSP refuses                   *)

VARIABLES
  card_links,       (* of the links that exist, the ones on this card      *)
  card_ops,         (* link -> the operations it was given                 *)
  card_open,        (* links that are started                              *)
  card_clks,        (* interface -> the clocks that run                    *)
  card_ws,          (* link -> who drives word select                      *)
  card_cut,         (* interfaces where a stream has ended, or failed to   *)
                    (* start, next to another                              *)
  codecless_ws_internal,
  card_faults

card_vars == <<card_links, card_ops, card_open, card_clks, card_ws, card_cut,
               codecless_ws_internal, card_faults>>

\* <<interface, direction>>, or -1: SLIMbus, INT_FM_TX and the front ends.
msm8974_mi2s_index(link) ==
  CASE link[1] \in {"PRIMARY_MI2S_RX", "PRIMARY_MI2S_TX"} -> 0
    [] link[1] \in {"SECONDARY_MI2S_RX", "SECONDARY_MI2S_TX"} -> 1
    [] link[1] \in {"TERTIARY_MI2S_RX", "TERTIARY_MI2S_TX"} -> 2
    [] link[1] \in {"QUATERNARY_MI2S_RX", "QUATERNARY_MI2S_TX"} -> 3
    [] OTHER -> -1

\* A link that names a codec is a back end already; one that names a platform
\* and no codec is made one, and so is the FM link where a back end exists whose
\* platform it can use.
msm8974_add_ops(links) ==
  LET routing == \E l \in links : l[2]
  IN  [l \in links |->
         CASE l[2] -> "be"
           [] ~l[2] /\ (l[3] \/ (l[1] = "INT_FM_TX" /\ routing)) -> "codecless"
           [] OTHER -> "front"]

msm8974_snd_platform_probe ==
  /\ card_ops = <<>>
  /\ card_ops' = msm8974_add_ops(card_links)
  /\ UNCHANGED <<card_links, card_open, card_clks, card_ws, card_cut,
                 codecless_ws_internal, card_faults>>

-----------------------------------------------------------------------------

Refused == card_faults < MaxCardFaults /\ card_faults' = card_faults + 1

BackEnd(l) == l \in DOMAIN card_ops /\ card_ops[l] # "front"

Sharing(l) == {m \in card_open : msm8974_mi2s_index(m) = msm8974_mi2s_index(l)}

\* The port drives word select; the format of a codecless link is set again.
ws_of(l) ==
  IF card_ops[l] = "codecless" /\ ~codecless_ws_internal THEN "external" ELSE "internal"

\* What a refused format leaves, which is only warned of: the earlier one, or,
\* with two to set, what either of them alone says.
ws_refused(l) ==
  {card_ws[l]} \union IF card_ops[l] = "codecless" THEN {"internal", ws_of(l)} ELSE {}

msm8974_snd_startup ==
  \E l \in card_links \ card_open :
    LET i == msm8974_mi2s_index(l)
    IN  /\ BackEnd(l)
        /\ card_open' = card_open \union {l}
        /\ IF i < 0 THEN UNCHANGED <<card_clks, card_cut, card_ws, card_faults>>
           ELSE /\ card_clks' = [card_clks EXCEPT ![i] = {"osr", "bit"}]
                /\ card_cut' = card_cut \ {i}
                /\ \/ card_ws' = [card_ws EXCEPT ![l] = ws_of(l)] /\ UNCHANGED card_faults
                   \/ Refused /\ \E w \in ws_refused(l) : card_ws' = [card_ws EXCEPT ![l] = w]
        /\ UNCHANGED <<card_links, card_ops, codecless_ws_internal>>

startup_osr_refused ==
  /\ \E l \in card_links \ card_open : BackEnd(l) /\ msm8974_mi2s_index(l) >= 0
  /\ Refused
  /\ UNCHANGED <<card_links, card_ops, card_open, card_clks, card_ws, card_cut,
                 codecless_ws_internal>>

\* Variant: the oversampling clock is left on.
bit_refused_leaves(clks) == clks \union {"osr"}

\* The oversampling clock is stopped again.
bit_refused(clks) == clks \ {"osr"}

startup_bit_refused ==
  \E l \in card_links \ card_open :
    LET i == msm8974_mi2s_index(l)
    IN  /\ BackEnd(l) /\ i >= 0
        /\ Refused
        /\ card_clks' = [card_clks EXCEPT ![i] = bit_refused(@)]
        /\ card_cut' = IF Sharing(l) = {} THEN card_cut ELSE card_cut \union {i}
        /\ UNCHANGED <<card_links, card_ops, card_open, card_ws, codecless_ws_internal>>

msm8974_snd_shutdown ==
  \E l \in card_open :
    LET i == msm8974_mi2s_index(l)
    IN  /\ card_open' = card_open \ {l}
        /\ IF i < 0 THEN UNCHANGED <<card_clks, card_cut>>
           ELSE /\ card_clks' = [card_clks EXCEPT ![i] = {}]
                /\ card_cut' = IF Sharing(l) = {l} THEN card_cut \ {i} ELSE card_cut \union {i}
        /\ UNCHANGED <<card_links, card_ops, card_ws, codecless_ws_internal, card_faults>>

\* codecless_ws_internal is writable (0644).
ws_parameter_written ==
  /\ codecless_ws_internal' = ~codecless_ws_internal
  /\ UNCHANGED <<card_links, card_ops, card_open, card_clks, card_ws, card_cut, card_faults>>

CardInit ==
  /\ card_links \in SUBSET CardLinks
  /\ card_ops = <<>> /\ card_open = {}
  /\ card_clks = [i \in 0 .. 3 |-> {}]
  /\ card_ws = [l \in CardLinks |-> "unset"]
  /\ card_cut = {} /\ codecless_ws_internal = FALSE /\ card_faults = 0

CardNext ==
  \/ msm8974_snd_platform_probe
  \/ msm8974_snd_startup \/ startup_osr_refused \/ startup_bit_refused
  \/ msm8974_snd_shutdown \/ ws_parameter_written

CardSpec == CardInit /\ [][CardNext]_card_vars

-----------------------------------------------------------------------------
(* Properties                                                              *)

\* "Two clocks have to be enabled, not one": an interface with a started stream
\* has both, and one without has none, whichever clock was refused; unless the
\* stream of the other direction was shut down, or failed to start, since: the
\* clocks have no count, and the first to leave stops them.  And no port waits
\* "for a word-select that nothing generates": with a codec it drives it itself.
CardClocked ==
  /\ \A i \in 0 .. 3 :
       LET users == {l \in card_open : msm8974_mi2s_index(l) = i}
       IN  /\ users # {} /\ i \notin card_cut => card_clks[i] = {"osr", "bit"}
           /\ users = {} => card_clks[i] = {}
  /\ \A l \in card_open :
       msm8974_mi2s_index(l) >= 0 /\ l[2] /\ card_faults = 0 => card_ws[l] = "internal"

=============================================================================
