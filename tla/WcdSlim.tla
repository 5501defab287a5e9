------------------------------ MODULE WcdSlim -------------------------------
(***************************************************************************)
(* The SLIMbus side of the WCD9320 codec, wcd9320.c, with the part of the  *)
(* sound card, msm8974-sndcard.c, that tells the DSP which channels to     *)
(* use: coming up, the channel lists behind the mixer controls, and the    *)
(* hw_params, prepare and trigger of a stream.  The controls and the       *)
(* module parameters change at any time.                                   *)
(*                                                                         *)
(* External: the PCM core (the order of a stream's calls; one whose start  *)
(* failed is not stopped), DAPM (an interface is powered while its stream  *)
(* is active and a control connects it), the SLIMbus core (a stream that   *)
(* is prepared cannot be prepared again, one without ports not unprepared; *)
(* it reports the codec present once).  Its calls and the codec's register *)
(* writes may fail wherever the driver makes them.                         *)
(* A channel has the number of its port.  Left out: sample rates, the      *)
(* printed messages, a control that changes a list while it is walked, and *)
(* wcd9320_set_channel_map(), which the sound card never calls.            *)
(***************************************************************************)
EXTENDS Integers, Sequences, FiniteSets

CONSTANTS
  RxPorts, TxPorts,
  Aifs,             (* numbers of the interfaces, AIF1 ...                 *)
  Streams,          (* interfaces a PCM is opened on                       *)
  MaxMoves,         (* bound on changes of controls and parameters         *)
  MaxOpens,         (* bound on the hw_params of all streams               *)
  MaxSlimFaults     (* bound on calls that fail                            *)

ASSUME SlimAssumption ==
  /\ RxPorts \intersect TxPorts = {} /\ 0 \notin Aifs
  /\ Streams \subseteq {"PB", "CAP"} \X Aifs

VARIABLES
  slim_stage,       (* unbound, probed, registered or bound                *)
  slim_power,       (* supplies and reset, the master clock's users, and   *)
                    (* whether the interface device has its address        *)
  slim_touched,     (* devices whose registers have been accessed          *)
  rx_port_value, tx_port_value,
  slim_ch_list,     (* the channels of each interface                      *)
  slim_paths,       (* switches of the capture mixers that are on, as DAPM *)
                    (* knows them                                          *)
  slim_crossed,     (* history: transmit ports of which a switch was       *)
                    (* written while they were on another's list           *)
  slim_dai,         (* dai[]: state of each stream                         *)
  slim_ports_on,    (* slave ports enabled in the codec                    *)
  clocks_started,
  keep_stream, disable_ports_on_stop,
  slim_moves, slim_opens, slim_faults

slim_up   == <<slim_stage, slim_power, slim_touched>>
slim_ctls == <<rx_port_value, tx_port_value, slim_ch_list, slim_paths, slim_crossed>>
slim_pars == <<keep_stream, disable_ports_on_stop>>
slim_vars == <<slim_up, slim_ctls, slim_pars, slim_dai, slim_ports_on, clocks_started,
               slim_moves, slim_opens, slim_faults>>

SlimDais == {"PB", "CAP"} \X Aifs

\* A pointer: Null, or <<what it points to>>.
Null == <<>>

Elems(list) == {list[i] : i \in DOMAIN list}

\* list_del_init(): the channel comes off its list, which it is on once.
Without(list, p) ==
  IF p \notin Elems(list) THEN list
  ELSE LET i == CHOOSE i \in DOMAIN list : list[i] = p
       IN  SubSeq(list, 1, i - 1) \o SubSeq(list, i + 1, Len(list))

SlimFault == slim_faults < MaxSlimFaults /\ slim_faults' = slim_faults + 1

-----------------------------------------------------------------------------
(* Coming up                                                               *)

\* wcd9320_parse_dt() and wcd9320_power_on_reset().  The clock is enabled half
\* way through, and no failure disables it again.
wcd9320_slim_probe ==
  /\ slim_stage = "unbound"
  /\ slim_stage' = "probed"
  /\ slim_power' = [slim_power EXCEPT !.on = TRUE, !.mclk = @ + 1]
  /\ UNCHANGED <<slim_touched, slim_ctls, slim_pars, slim_dai, slim_ports_on, clocks_started,
                 slim_moves, slim_opens, slim_faults>>

slim_probe_fails ==
  /\ slim_stage = "unbound"
  /\ SlimFault
  /\ \E clock \in {0, 1} : slim_power' = [slim_power EXCEPT !.mclk = @ + clock]
  /\ UNCHANGED <<slim_stage, slim_touched, slim_ctls, slim_pars, slim_dai, slim_ports_on,
                 clocks_started, slim_moves, slim_opens>>

\* Variant: the interface device is used whether it was enumerated or not.
slim_status_fails_late ==
  /\ slim_stage = "probed"
  /\ SlimFault
  /\ slim_stage' = "registered"
  /\ slim_touched' = slim_touched \union {"codec", "ifc"}
  /\ UNCHANGED <<slim_power, slim_ctls, slim_pars, slim_dai, slim_ports_on, clocks_started,
                 slim_moves, slim_opens>>

\* Nothing is registered until the interface device has its logical address.
slim_status_fails ==
  /\ slim_stage = "probed"
  /\ SlimFault
  /\ \E address \in BOOLEAN : slim_power' = [slim_power EXCEPT !.laddr = @ \/ address]
  /\ UNCHANGED <<slim_stage, slim_touched, slim_ctls, slim_pars, slim_dai, slim_ports_on,
                 clocks_started, slim_moves, slim_opens>>

\* wcd9320_bring_up() reads the codec; wcd9320_probe() sets the channels up.
wcd9320_slim_status ==
  /\ slim_stage = "probed"
  /\ slim_power' = [slim_power EXCEPT !.laddr = TRUE]
  /\ slim_stage' = "registered"
  /\ slim_touched' = slim_touched \union {"codec"}
  /\ UNCHANGED <<slim_ctls, slim_pars, slim_dai, slim_ports_on, clocks_started,
                 slim_moves, slim_opens, slim_faults>>

\* The card binds the component: register defaults, port interrupts, lists.
wcd9320_codec_probe ==
  /\ slim_stage = "registered"
  /\ slim_stage' = "bound"
  /\ slim_touched' = slim_touched \union {"codec", "ifc"}
  /\ UNCHANGED <<slim_power, slim_ctls, slim_pars, slim_dai, slim_ports_on, clocks_started,
                 slim_moves, slim_opens, slim_faults>>

-----------------------------------------------------------------------------
(* Controls                                                                *)

Connected(d, rx, paths) ==
  IF d[1] = "PB" THEN \E p \in RxPorts : rx[p] = d[2] ELSE \E p \in TxPorts : <<d[2], p>> \in paths

\* DAPM has powered the interface up: its stream is active and it is connected.
Powered(d) == slim_dai[d].active /\ Connected(d, rx_port_value, slim_paths)

\* A control has changed list and connection.  An interface that is powered down
\* frees its channel array (taiko_codec_enable_slimrx() and _slimtx()); powering
\* it up makes none.  Histories: `loose', channels that have left the list since
\* the DSP was told of them; `retold', the list changed between the DSP's look at
\* it and the codec's; `cut', a control has powered the interface down.
Relisted(d, new, rx, paths) ==
  LET s == slim_dai[d]
      down == Powered(d) /\ ~Connected(d, rx, paths)
  IN  [s EXCEPT !.chs = IF down THEN Null ELSE @,
                !.cut = @ \/ down,
                !.loose = @ \union (Elems(s.map) \ Elems(new)),
                !.retold = @ \/ (s.pcm = "mapped" /\ new # slim_ch_list[d])]

\* The lists change first, then DAPM follows.
ControlMoves(rx, tx, lists, paths) ==
  /\ slim_stage = "bound"
  /\ slim_moves < MaxMoves
  /\ slim_moves' = slim_moves + 1
  /\ rx_port_value' = rx /\ tx_port_value' = tx
  /\ slim_ch_list' = lists /\ slim_paths' = paths
  /\ slim_dai' = [d \in Streams |-> Relisted(d, lists[d], rx, paths)]
  /\ UNCHANGED <<slim_up, slim_pars, slim_ports_on, clocks_started, slim_opens, slim_faults>>

\* Variant: the channel is added to its new interface and stays on the old one.
rx_relist_twice(p, v) ==
  [d \in SlimDais |-> IF d = <<"PB", v>> THEN Append(slim_ch_list[d], p) ELSE slim_ch_list[d]]

\* "a port belongs to one interface at a time"
rx_relist(p, v) ==
  [d \in SlimDais |->
     Without(slim_ch_list[d], p) \o (IF d = <<"PB", v>> THEN <<p>> ELSE <<>>)]

\* Setting a mux to the value it has does nothing.
slim_rx_mux_put ==
  /\ \E p \in RxPorts, v \in Aifs \union {0} :
       /\ rx_port_value[p] # v
       /\ ControlMoves([rx_port_value EXCEPT ![p] = v], tx_port_value, rx_relist(p, v), slim_paths)
  /\ UNCHANGED slim_crossed

\* Variant: the bit is not looked at.
tx_relist_always(a, p, enable) ==
  [d \in SlimDais |->
     IF ~enable THEN Without(slim_ch_list[d], p)
     ELSE IF d = <<"CAP", a>> THEN Append(slim_ch_list[d], p) ELSE slim_ch_list[d]]

\* The interfaces share tx_port_value: a port goes on the list of a switch that
\* is set while no bit is ("only add to the list if value not set"), and off
\* whatever list it is on when any of its switches is cleared while the bit is.
tx_relist(a, p, enable) ==
  CASE enable /\ p \notin tx_port_value -> [slim_ch_list EXCEPT ![<<"CAP", a>>] = Append(@, p)]
    [] ~enable /\ p \in tx_port_value -> [d \in SlimDais |-> Without(slim_ch_list[d], p)]
    [] OTHER -> slim_ch_list

\* A switch may be written the value it has; DAPM has one of its own for each.
slim_tx_mixer_put ==
  \E a \in Aifs, p \in TxPorts, enable \in BOOLEAN :
    /\ ControlMoves(rx_port_value,
         IF enable THEN tx_port_value \union {p} ELSE tx_port_value \ {p},
         tx_relist(a, p, enable),
         IF enable THEN slim_paths \union {<<a, p>>} ELSE slim_paths \ {<<a, p>>})
    /\ slim_crossed' = IF \E b \in Aifs \ {a} : p \in Elems(slim_ch_list[<<"CAP", b>>])
                       THEN slim_crossed \union {p} ELSE slim_crossed

\* keep_stream and disable_ports_on_stop are writable (0644).
parameter_written ==
  /\ slim_moves < MaxMoves /\ slim_moves' = slim_moves + 1
  /\ \/ keep_stream' = ~keep_stream /\ UNCHANGED disable_ports_on_stop
     \/ disable_ports_on_stop' = ~disable_ports_on_stop /\ UNCHANGED keep_stream
  /\ UNCHANGED <<slim_up, slim_ctls, slim_dai, slim_ports_on, clocks_started,
                 slim_opens, slim_faults>>

-----------------------------------------------------------------------------
(* hw_params                                                               *)

Rest == <<slim_up, slim_ctls, slim_pars, slim_moves>>

Becomes(d, s) == slim_dai' = [slim_dai EXCEPT ![d] = s]

\* The stream is closed, or its hw_params failed: DAPM powers it down.
Closed(d) ==
  [slim_dai[d] EXCEPT !.pcm = "closed", !.active = FALSE,
                      !.chs = IF Powered(d) THEN Null ELSE @]

wcd9320_get_channel_map(d) == slim_ch_list[d]

\* The card asks the codec for its channels and hands them to the AFE port.
msm8974_be_hw_params ==
  \E d \in Streams :
    LET s == slim_dai[d]
    IN  /\ slim_stage = "bound"
        /\ s.pcm \in {"closed", "setup", "prepared", "stopped"}
        /\ slim_opens < MaxOpens /\ slim_opens' = slim_opens + 1
        /\ \/ /\ Becomes(d, [s EXCEPT !.pcm = "mapped", !.map = wcd9320_get_channel_map(d),
                                    !.loose = {}, !.retold = FALSE])
              /\ UNCHANGED slim_faults
           \/ SlimFault /\ Becomes(d, Closed(d))
        /\ UNCHANGED <<Rest, slim_ports_on, clocks_started>>

\* Variant: the ports are enabled later.
ports_enabled_late(list) == slim_ports_on

ports_enabled(list) == slim_ports_on \union Elems(list)

\* A new channel array, the ports enabled, and a runtime the first time.
wcd9320_slim_set_hw_params ==
  \E d \in Streams :
    LET s == slim_dai[d]
        l == slim_ch_list[d]
    IN  /\ s.pcm = "mapped"
        /\ Becomes(d, [s EXCEPT !.pcm = "setup", !.chs = <<l>>, !.port_mask = Elems(l), !.rt = TRUE,
                                !.again = FALSE, !.cut = FALSE])
        /\ slim_ports_on' = ports_enabled(l)
        /\ UNCHANGED <<Rest, clocks_started, slim_opens, slim_faults>>

\* A write or an allocation fails: the array goes, the ports stay as they are.
set_hw_params_fails ==
  \E d \in Streams :
    LET s == slim_dai[d]
        l == slim_ch_list[d]
    IN  /\ s.pcm = "mapped"
        /\ SlimFault
        /\ \E n \in 0 .. Len(l) : slim_ports_on' = slim_ports_on \union Elems(SubSeq(l, 1, n))
        /\ Becomes(d, [Closed(d) EXCEPT !.chs = Null, !.port_mask = Elems(l)])
        /\ UNCHANGED <<Rest, clocks_started, slim_opens>>

\* Bandgap and clock buffers are started once; DAPM powers a connected interface.
wcd9320_prepare ==
  \E d \in Streams :
    LET s == slim_dai[d]
    IN  /\ s.pcm \in {"setup", "stopped"}
        /\ clocks_started' = TRUE
        /\ Becomes(d, [s EXCEPT !.pcm = "prepared", !.active = TRUE])
        /\ UNCHANGED <<Rest, slim_ports_on, slim_opens, slim_faults>>

-----------------------------------------------------------------------------
(* trigger                                                                 *)

\* A start after prepare, or a release from a pause.
Starts(s) == s.pcm \in {"prepared", "stopped"} /\ s.rt

\* History `kept': a parameter has kept the stream on the bus.
trigger_start_kept ==
  \E d \in Streams :
    LET s == slim_dai[d]
    IN  /\ Starts(s) /\ keep_stream /\ s.stream_up
        /\ Becomes(d, [s EXCEPT !.pcm = "running", !.kept = TRUE])
        /\ UNCHANGED <<Rest, slim_ports_on, clocks_started, slim_opens, slim_faults>>

\* slim_stream_prepare() refuses a stream that is prepared, and reads the
\* channel array of one with ports: there is no step for one whose is gone.
Preparable(s) ==
  /\ Starts(s) /\ ~(keep_stream /\ s.stream_up)
  /\ s.prepared = {}
  /\ s.chs # Null \/ s.port_mask = {}

\* Then slim_stream_enable().
trigger_start ==
  \E d \in Streams :
    LET s == slim_dai[d]
    IN  /\ Preparable(s)
        /\ Becomes(d, [s EXCEPT !.pcm = "running", !.prepared = {s.port_mask}, !.stream_up = TRUE,
                                !.bus = IF s.port_mask = {} THEN <<<<>>>> ELSE s.chs])
        /\ UNCHANGED <<Rest, slim_ports_on, clocks_started, slim_opens, slim_faults>>

\* A stream that cannot be enabled stays prepared.  History `refused': the bus
\* has refused a call that the driver makes nothing good of.
trigger_start_fails ==
  \E d \in Streams :
    LET s == slim_dai[d]
    IN  /\ Preparable(s)
        /\ SlimFault
        /\ \E enabling \in BOOLEAN :
             Becomes(d, [s EXCEPT !.prepared = IF enabling THEN {s.port_mask} ELSE @,
                                  !.refused = enabling \/ @])
        /\ UNCHANGED <<Rest, slim_ports_on, clocks_started, slim_opens>>

\* Variant: the ports are not looked at.
ports_disabled_not(d, failing) == slim_ports_on

\* wcd9320_slim_ports_disable(): the ports on the list now, but for those whose
\* write fails.
ports_disabled(d, failing) ==
  IF disable_ports_on_stop THEN slim_ports_on \ (Elems(slim_ch_list[d]) \ failing)
  ELSE slim_ports_on

\* Variant: the bus keeps what was prepared.
taken_down_not(s, refused) == [s EXCEPT !.stream_up = FALSE, !.kept = FALSE]

\* Variant: the stream still counts as up.
taken_down_still_up(s, refused) == [s EXCEPT !.prepared = {}, !.bus = Null, !.kept = FALSE]

\* slim_stream_disable() and slim_stream_unprepare(), whose results are not
\* looked at; the bus always refuses both for a stream without ports.
taken_down(s, refused) ==
  LET fail == IF s.prepared = {{}} THEN {"disable", "unprepare"} ELSE refused
  IN  [s EXCEPT !.bus = IF "disable" \in fail THEN @ ELSE Null,
                !.prepared = IF "unprepare" \in fail THEN @ ELSE {},
                !.stream_up = FALSE, !.kept = FALSE, !.refused = @ \/ refused # {}]

\* A stop while the bus refuses some calls and some writes fail.
Stops(d, refused, failing) ==
  LET s == slim_dai[d]
  IN  /\ s.pcm = "running" /\ ~keep_stream
      /\ Becomes(d, [taken_down(s, refused) EXCEPT
                       !.pcm = "stopped", !.again = TRUE,
                       !.loose = @ \union IF disable_ports_on_stop THEN failing ELSE Elems(s.map)])
      /\ slim_ports_on' = ports_disabled(d, failing)
      /\ UNCHANGED <<Rest, clocks_started, slim_opens>>

trigger_stop == UNCHANGED slim_faults /\ \E d \in Streams : Stops(d, {}, {})

trigger_stop_fails ==
  /\ SlimFault
  /\ \E d \in Streams, refused \in SUBSET {"disable", "unprepare"} :
       \E failing \in SUBSET Elems(slim_ch_list[d]) :
         refused \union failing # {} /\ Stops(d, refused, failing)

trigger_stop_kept ==
  \E d \in Streams :
    LET s == slim_dai[d]
    IN  /\ s.pcm = "running" /\ keep_stream
        /\ Becomes(d, [s EXCEPT !.pcm = "stopped", !.again = TRUE, !.kept = TRUE,
                                !.loose = @ \union Elems(s.map)])
        /\ UNCHANGED <<Rest, slim_ports_on, clocks_started, slim_opens, slim_faults>>

stream_closes ==
  \E d \in Streams :
    /\ slim_dai[d].pcm \in {"setup", "prepared", "stopped"}
    /\ Becomes(d, Closed(d))
    /\ UNCHANGED <<Rest, slim_ports_on, clocks_started, slim_opens, slim_faults>>

-----------------------------------------------------------------------------

SlimInit ==
  /\ slim_stage = "unbound" /\ slim_power = [on |-> FALSE, mclk |-> 0, laddr |-> FALSE]
  /\ slim_touched = {}
  /\ rx_port_value = [p \in RxPorts |-> 0] /\ tx_port_value = {}
  /\ slim_ch_list = [d \in SlimDais |-> <<>>] /\ slim_paths = {} /\ slim_crossed = {}
  /\ slim_dai = [d \in Streams |->
       [pcm |-> "closed", map |-> <<>>, chs |-> Null, port_mask |-> {}, rt |-> FALSE,
        prepared |-> {}, bus |-> Null, stream_up |-> FALSE, active |-> FALSE, again |-> FALSE,
        loose |-> {}, retold |-> FALSE, cut |-> FALSE, kept |-> FALSE, refused |-> FALSE]]
  /\ slim_ports_on = {} /\ clocks_started = FALSE
  /\ keep_stream = FALSE /\ disable_ports_on_stop = TRUE
  /\ slim_moves = 0 /\ slim_opens = 0 /\ slim_faults = 0

SlimNext ==
  \/ wcd9320_slim_probe \/ slim_probe_fails \/ wcd9320_slim_status \/ slim_status_fails
  \/ wcd9320_codec_probe
  \/ slim_rx_mux_put \/ slim_tx_mixer_put \/ parameter_written
  \/ msm8974_be_hw_params \/ wcd9320_slim_set_hw_params \/ set_hw_params_fails
  \/ wcd9320_prepare
  \/ trigger_start \/ trigger_start_kept \/ trigger_start_fails
  \/ trigger_stop \/ trigger_stop_fails \/ trigger_stop_kept \/ stream_closes

SlimSpec == SlimInit /\ [][SlimNext]_slim_vars

-----------------------------------------------------------------------------
(* Properties                                                              *)

\* The codec's registers are accessed with its supplies, reset and clock in
\* place, and the interface device's after it was enumerated ("without a
\* logical address its messages are misaddressed"), whichever step of coming up
\* fails and is tried again.
SlimReachable ==
  /\ slim_touched # {} => slim_power.on /\ slim_power.mclk > 0
  /\ "ifc" \in slim_touched => slim_power.laddr

\* However the controls are moved, a list names a channel once.  A receive port is
\* on the list its mux points to.  A transmit port is on one list if its switches
\* read as on (slim_tx_mixer_get()) and else on none, and only on that of an
\* interface whose own switch is on; it is on the list of the one whose switch is
\* on as long as no switch of it was written while it was on another's list.  For
\* then a switch may be on and its port on no list: set AIF1's, then AIF2's, and
\* clear either.
SlimLists ==
  /\ \A d \in SlimDais : Cardinality(Elems(slim_ch_list[d])) = Len(slim_ch_list[d])
  /\ \A p \in RxPorts, a \in Aifs :
       p \in Elems(slim_ch_list[<<"PB", a>>]) <=> rx_port_value[p] = a
  /\ \A p \in TxPorts :
       LET on == {a \in Aifs : p \in Elems(slim_ch_list[<<"CAP", a>>])}
           switched == {a \in Aifs : <<a, p>> \in slim_paths}
       IN  /\ Cardinality(on) = IF p \in tx_port_value THEN 1 ELSE 0
           /\ on \subseteq switched
           /\ p \notin slim_crossed => on = switched

\* A stream that runs has on the bus the channels the DSP was told of, unless
\* their list changed before the codec looked at it, or a parameter has kept an
\* earlier stream there; until it first stops their ports are enabled, but for
\* those a control has taken off its list; and it can only be started with its
\* channel array in place, unless a control has powered the interface down, which
\* frees it (:834).
SlimStarts ==
  \A d \in Streams :
    LET s == slim_dai[d]
    IN  /\ s.pcm = "running" /\ ~s.retold /\ ~s.kept => s.bus = <<s.map>>
        /\ s.pcm = "running" /\ ~s.again => Elems(s.map) \ s.loose \subseteq slim_ports_on
        /\ s.pcm \in {"prepared", "stopped"} /\ ~s.cut => s.chs # Null

\* stream_up, on which a start that keeps the stream relies (:2622), is what the
\* bus has: whatever was moved, kept, reopened or refused, a stream counted as up
\* is prepared and enabled with the same channels, and one that runs counts as up.
SlimOnBus ==
  \A d \in Streams :
    LET s == slim_dai[d]
    IN  /\ s.stream_up => Len(s.bus) = 1 /\ s.prepared = {Elems(s.bus[1])}
        /\ s.pcm = "running" => s.stream_up

\* "The stream has to be taken down when the PCM stops": one that does not run
\* holds no channel on the bus and can be started again; except for a stream
\* that was kept, one for which the bus has refused to be enabled or taken down
\* (:2631, :2644), and one that ran without a channel, which it always refuses.
SlimTakenDown ==
  \A d \in Streams :
    LET s == slim_dai[d]
    IN  s.pcm # "running" /\ ~s.kept /\ ~s.refused /\ s.prepared # {{}} =>
          s.prepared = {} /\ s.bus = Null

\* A stream that has stopped has left none of its ports enabled ("the next
\* stream's channel activation sometimes raced with the leftovers"), but for those
\* a control had taken off its list, which the stop does not look at, those whose
\* write failed, and all of them if a parameter told it to.
SlimPortsOff ==
  \A d \in Streams :
    LET s == slim_dai[d]
    IN  s.pcm = "stopped" => (Elems(s.map) \ s.loose) \intersect slim_ports_on = {}

\* The registers and the channels behind the controls.
SlimRouted == SlimReachable /\ SlimLists

\* A stream from its hw_params to its stop, and to its next start.
SlimStreams == SlimStarts /\ SlimOnBus /\ SlimTakenDown /\ SlimPortsOff

=============================================================================
