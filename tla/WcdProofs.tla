----------------------------- MODULE WcdProofs -----------------------------
(***************************************************************************)
(* Proofs about the WCD9320 codec, for any ports and interfaces of its bus *)
(* (WcdSlim) and any widgets routed together (WcdPower): a stream runs on  *)
(* the channels its controls name, what is on has what it relies on, and   *)
(* what nobody uses is off.  Each module by an invariant of its own, one   *)
(* named part for each thing that is shared.                               *)
(***************************************************************************)
EXTENDS WcdSlim, WcdPower, SequenceTheorems, FiniteSetTheorems, FunctionTheorems, TLAPS

-----------------------------------------------------------------------------
(* The codec's channel lists.                                              *)

Distinct(l) == \A i, j \in DOMAIN l : l[i] = l[j] => i = j

Ports == RxPorts \union TxPorts

\* Coming up: what each stage has.
SlimUp ==
  /\ slim_stage \in {"unbound", "probed", "registered", "bound"}
  /\ slim_power \in [on : BOOLEAN, mclk : Nat, laddr : BOOLEAN]
  /\ slim_stage # "unbound" => slim_power.on /\ slim_power.mclk > 0
  /\ slim_stage \in {"registered", "bound"} => slim_power.laddr
  /\ slim_touched # {} => slim_stage # "unbound"
  /\ "ifc" \in slim_touched => slim_stage = "bound"

\* Lists name a channel once.
SlimTyped ==
  /\ slim_ch_list \in [SlimDais -> Seq(Ports)]
  /\ \A d \in SlimDais : Distinct(slim_ch_list[d])
  /\ rx_port_value \in [RxPorts -> Aifs \union {0}]
  /\ tx_port_value \subseteq TxPorts

\* A receive port is on the list its mux points to.
RxListed ==
  \A a \in Aifs : Elems(slim_ch_list[<<"PB", a>>]) = {p \in RxPorts : rx_port_value[p] = a}

\* A transmit port is on one list while its bit is set.
TxListed ==
  /\ \A a \in Aifs : Elems(slim_ch_list[<<"CAP", a>>]) \subseteq tx_port_value
  /\ \A p \in tx_port_value : \E a \in Aifs : p \in Elems(slim_ch_list[<<"CAP", a>>])
  /\ \A a, b \in Aifs, p \in tx_port_value :
       p \in Elems(slim_ch_list[<<"CAP", a>>]) /\ p \in Elems(slim_ch_list[<<"CAP", b>>]) => a = b

\* It is on the list of an interface whose switch is on, and on every such list
\* until a switch is written while it is on another's.
TxSwitched ==
  /\ \A a \in Aifs, p \in TxPorts :
       p \in Elems(slim_ch_list[<<"CAP", a>>]) => <<a, p>> \in slim_paths
  /\ \A a \in Aifs, p \in TxPorts :
       p \notin slim_crossed /\ <<a, p>> \in slim_paths => p \in Elems(slim_ch_list[<<"CAP", a>>])

ListsInv == SlimTyped /\ RxListed /\ TxListed /\ TxSwitched

SlimDai ==
  [pcm : {"closed", "mapped", "setup", "prepared", "running", "stopped"}, map : Seq(Ports),
   chs : Seq(Seq(Ports)), port_mask : SUBSET Ports, rt : BOOLEAN,
   prepared : SUBSET SUBSET Ports, bus : Seq(Seq(Ports)), stream_up : BOOLEAN, active : BOOLEAN,
   again : BOOLEAN, loose : SUBSET Ports, retold : BOOLEAN, cut : BOOLEAN, kept : BOOLEAN,
   refused : BOOLEAN]

Opened == {"setup", "prepared", "running", "stopped"}

\* What the DSP was told of the list l, but for what has left it, is still on it.
MapOK(s, l) ==
  /\ s.pcm # "closed" => Elems(s.map) \ s.loose \subseteq Elems(l)
  /\ s.pcm = "mapped" /\ ~s.retold => s.map = l

\* The channel array and the port mask were made of one list.
ArrayOK(s) ==
  /\ s.chs # Null => Len(s.chs) = 1 /\ s.port_mask = Elems(s.chs[1])
  /\ s.pcm \in Opened /\ ~s.cut => s.chs # Null
  /\ s.pcm \in Opened /\ ~s.retold => s.port_mask = Elems(s.map) /\ s.chs \in {Null, <<s.map>>}

\* The bus has what was prepared, and nothing of a stream that was taken down.
BusOK(s) ==
  /\ s.pcm = "running" /\ ~s.retold /\ ~s.kept => s.bus = <<s.map>>
  /\ s.stream_up => Len(s.bus) = 1 /\ s.prepared = {Elems(s.bus[1])}
  /\ s.pcm = "running" => s.stream_up
  /\ s.pcm # "running" /\ ~s.kept /\ ~s.refused /\ s.prepared # {{}} =>
       s.prepared = {} /\ s.bus = Null

\* Its ports are on from its hw_params to its first stop, and off after a stop.
PortsOK(s, on) ==
  /\ s.pcm \in {"setup", "prepared", "running"} /\ ~s.again => Elems(s.map) \ s.loose \subseteq on
  /\ s.pcm = "stopped" => s.again /\ (Elems(s.map) \ s.loose) \intersect on = {}

\* The stream s of an interface with the list l, while the ports `on' are enabled.
StreamOK(s, l, on) == MapOK(s, l) /\ ArrayOK(s) /\ BusOK(s) /\ PortsOK(s, on)

StreamsInv ==
  /\ slim_dai \in [Streams -> SlimDai]
  /\ slim_ports_on \subseteq Ports
  /\ \A d \in Streams : StreamOK(slim_dai[d], slim_ch_list[d], slim_ports_on)

SlimInv == SlimUp /\ ListsInv /\ StreamsInv

\* A channel at the end of a list it is not on.
LEMMA AppendElems ==
  ASSUME NEW S, NEW l \in Seq(S), NEW p \in S
  PROVE  /\ Append(l, p) \in Seq(S)
         /\ Elems(Append(l, p)) = Elems(l) \union {p}
         /\ Distinct(l) /\ p \notin Elems(l) => Distinct(Append(l, p))
<1> DEFINE m == Append(l, p)
<1>1. /\ m \in Seq(S) /\ Len(l) \in Nat
      /\ DOMAIN l = 1 .. Len(l) /\ DOMAIN m = 1 .. Len(l) + 1
      /\ \A i \in 1 .. Len(l) : m[i] = l[i]
      /\ m[Len(l) + 1] = p
  OBVIOUS
<1> HIDE DEF m
<1>2. \A i \in DOMAIN m : i \in DOMAIN l \/ i = Len(l) + 1
  BY <1>1
<1>3. \A i \in DOMAIN l : i \in DOMAIN m /\ m[i] = l[i]
  BY <1>1
<1>4. Len(l) + 1 \in DOMAIN m
  BY <1>1
<1>5. Elems(m) = Elems(l) \union {p}
  BY <1>1, <1>2, <1>3, <1>4 DEF Elems
<1>6. ASSUME Distinct(l), p \notin Elems(l) PROVE Distinct(m)
  BY <1>1, <1>2, <1>3, <1>6 DEF Distinct, Elems
<1> QED BY <1>1, <1>5, <1>6 DEF m

\* A channel that comes off its list.
LEMMA WithoutElems ==
  ASSUME NEW S, NEW l \in Seq(S), NEW p, Distinct(l)
  PROVE  /\ Without(l, p) \in Seq(S)
         /\ Elems(Without(l, p)) = Elems(l) \ {p}
         /\ Distinct(Without(l, p))
<1>1. CASE p \notin Elems(l)
  BY <1>1 DEF Without
<1>2. CASE p \in Elems(l)
  <2> DEFINE i == CHOOSE i \in DOMAIN l : l[i] = p
             u == SubSeq(l, 1, i - 1)
             v == SubSeq(l, i + 1, Len(l))
             m == u \o v
  <2>1. Without(l, p) = m
    BY <1>2 DEF Without
  <2>2. i \in DOMAIN l /\ l[i] = p
    BY <1>2 DEF Elems
  <2>3. Len(l) \in Nat /\ DOMAIN l = 1 .. Len(l) /\ i \in Nat /\ 1 <= i /\ i <= Len(l)
    BY <2>2
  <2> HIDE DEF i
  <2>4. \A j \in 1 .. Len(l) : l[j] \in S
    OBVIOUS
  <2>5. /\ u \in Seq(S) /\ Len(u) = i - 1
        /\ \A j \in 1 .. i - 1 : u[j] = l[j]
    <3>1. \A j \in 1 .. i - 1 : l[j] \in S
      BY <2>3, <2>4
    <3>2. /\ u \in Seq(S) /\ Len(u) = IF 1 <= i - 1 THEN (i - 1) - 1 + 1 ELSE 0
          /\ \A j \in 1 .. (i - 1) - 1 + 1 : u[j] = l[1 + j - 1]
      BY <2>3, <3>1, SubSeqProperties
    <3> QED BY <2>3, <3>2
  <2>6. /\ v \in Seq(S) /\ Len(v) = Len(l) - i
        /\ \A j \in 1 .. Len(l) - i : v[j] = l[j + i]
    <3>1. \A j \in i + 1 .. Len(l) : l[j] \in S
      BY <2>3, <2>4
    <3>2. /\ v \in Seq(S) /\ Len(v) = IF i + 1 <= Len(l) THEN Len(l) - (i + 1) + 1 ELSE 0
          /\ \A j \in 1 .. Len(l) - (i + 1) + 1 : v[j] = l[(i + 1) + j - 1]
      BY <2>3, <3>1, SubSeqProperties
    <3>3. Len(v) = Len(l) - i
      <4>1. Len(v) = IF i + 1 <= Len(l) THEN Len(l) - (i + 1) + 1 ELSE 0
        BY <3>2
      <4>2. CASE i + 1 <= Len(l)
        <5>1. Len(v) = Len(l) - (i + 1) + 1
          BY <4>1, <4>2
        <5> HIDE DEF v
        <5> QED BY <2>3, <5>1
      <4>3. CASE i = Len(l)
        <5>1. Len(v) = 0
          BY <2>3, <4>1, <4>3
        <5> HIDE DEF v
        <5>2. Len(l) - i = 0
          BY <2>3, <4>3
        <5> QED BY <5>1, <5>2
      <4>4. \A n, k \in Nat : k <= n => k + 1 <= n \/ k = n
        OBVIOUS
      <4>5. i + 1 <= Len(l) \/ i = Len(l)
        BY <2>3, <4>4
      <4> QED BY <4>2, <4>3, <4>5
    <3>4. \A j \in 1 .. Len(l) - i : j \in 1 .. Len(l) - (i + 1) + 1 /\ (i + 1) + j - 1 = j + i
      BY <2>3
    <3>5. \A j \in 1 .. Len(l) - i : v[j] = l[j + i]
      BY <3>2, <3>4
    <3> QED BY <3>2, <3>3, <3>5
  <2> HIDE DEF u, v
  <2>7. /\ m \in Seq(S) /\ Len(m) = Len(l) - 1 /\ DOMAIN m = 1 .. Len(l) - 1
        /\ \A j \in 1 .. Len(l) - 1 : m[j] = IF j <= i - 1 THEN u[j] ELSE v[j - (i - 1)]
    <3>1. /\ m \in Seq(S) /\ Len(m) = (i - 1) + (Len(l) - i)
          /\ \A j \in 1 .. (i - 1) + (Len(l) - i) :
               m[j] = IF j <= i - 1 THEN u[j] ELSE v[j - (i - 1)]
      <4>1. /\ m \in Seq(S) /\ Len(m) = Len(u) + Len(v)
            /\ \A j \in 1 .. Len(u) + Len(v) : m[j] = IF j <= Len(u) THEN u[j] ELSE v[j - Len(u)]
        BY <2>5, <2>6, ConcatProperties
      <4>2. Len(u) = i - 1 /\ Len(v) = Len(l) - i
        BY <2>5, <2>6
      <4> HIDE DEF m
      <4> QED BY <4>1, <4>2
    <3>2. (i - 1) + (Len(l) - i) = Len(l) - 1
      BY <2>3
    <3>3. DOMAIN m = 1 .. Len(m)
      BY <3>1
    <3> QED BY <3>1, <3>2, <3>3
  <2> HIDE DEF m
  <2>8. ASSUME NEW j \in 1 .. Len(l) - 1 PROVE m[j] = IF j < i THEN l[j] ELSE l[j + 1]
    <3>1. CASE j < i
      <4>1. j <= i - 1 /\ j \in 1 .. i - 1
        BY <2>3, <3>1
      <4> QED BY <2>5, <2>7, <3>1, <4>1
    <3>2. CASE ~(j < i)
      <4>1. ~(j <= i - 1) /\ j - (i - 1) \in 1 .. Len(l) - i /\ (j - (i - 1)) + i = j + 1
        BY <2>3, <3>2
      <4> QED BY <2>6, <2>7, <3>2, <4>1
    <3> QED BY <3>1, <3>2
  <2>9. ASSUME NEW j \in DOMAIN m PROVE \E k \in DOMAIN l : k # i /\ m[j] = l[k]
    <3>1. j \in 1 .. Len(l) - 1
      BY <2>7
    <3>2. CASE j < i
      <4>1. j \in DOMAIN l /\ j # i
        BY <2>3, <3>1, <3>2
      <4> QED BY <2>8, <3>1, <3>2, <4>1
    <3>3. CASE ~(j < i)
      <4>1. j + 1 \in DOMAIN l /\ j + 1 # i
        BY <2>3, <3>1, <3>3
      <4> QED BY <2>8, <3>1, <3>3, <4>1
    <3> QED BY <3>2, <3>3
  <2>10. \A k \in DOMAIN l : k # i => \E j \in DOMAIN m : m[j] = l[k]
    <3> SUFFICES ASSUME NEW k \in DOMAIN l, k # i PROVE \E j \in DOMAIN m : m[j] = l[k]
      OBVIOUS
    <3>1. CASE k < i
      BY <2>3, <2>7, <2>8, <3>1
    <3>2. CASE k > i
      <4>1. k - 1 \in DOMAIN m /\ m[k - 1] = l[k]
        BY <2>3, <2>7, <2>8, <3>2
      <4> QED BY <4>1
    <3> QED BY <2>3, <3>1, <3>2
  <2>11. Elems(m) = Elems(l) \ {p}
    BY <2>2, <2>9, <2>10 DEF Elems, Distinct
  <2>12. Distinct(m)
    <3> SUFFICES ASSUME NEW j \in DOMAIN m, NEW k \in DOMAIN m, m[j] = m[k] PROVE j = k
      BY DEF Distinct
    <3> DEFINE at(n) == IF n < i THEN n ELSE n + 1
    <3>1. at(j) \in DOMAIN l /\ at(k) \in DOMAIN l /\ m[j] = l[at(j)] /\ m[k] = l[at(k)]
      BY <2>3, <2>7, <2>8
    <3>2. at(j) = at(k)
      BY <3>1 DEF Distinct
    <3> QED BY <2>3, <2>7, <3>2
  <2> QED BY <2>1, <2>7, <2>11, <2>12
<1> QED BY <1>1, <1>2

\* A list that names a channel once is as long as it has channels.
LEMMA DistinctLength ==
  ASSUME NEW S, NEW l \in Seq(S), Distinct(l)
  PROVE  Cardinality(Elems(l)) = Len(l)
<1>1. Len(l) \in Nat /\ DOMAIN l = 1 .. Len(l)
  OBVIOUS
<1>2. l \in [1 .. Len(l) -> Elems(l)]
  BY <1>1 DEF Elems
<1>3. \A i, j \in 1 .. Len(l) : l[i] = l[j] => i = j
  BY <1>1 DEF Distinct
<1>4. \A x \in Elems(l) : \E i \in 1 .. Len(l) : l[i] = x
  BY <1>1 DEF Elems
<1>5. ExistsBijection(1 .. Len(l), Elems(l))
  BY <1>2, <1>3, <1>4 DEF ExistsBijection, Bijection, Injection, IsInjective, Surjection
<1>6. Cardinality(1 .. Len(l)) = Len(l) /\ IsFiniteSet(1 .. Len(l))
  BY <1>1, FS_Interval
<1> QED BY <1>5, <1>6, FS_Bijection

-----------------------------------------------------------------------------
(* Coming up.                                                              *)

\* The supplies are on and the clock has one more user.
LEMMA Supplied ==
  ASSUME NEW r \in [on : BOOLEAN, mclk : Nat, laddr : BOOLEAN],
         NEW q, q = [r EXCEPT !.on = TRUE, !.mclk = @ + 1]
  PROVE  /\ q \in [on : BOOLEAN, mclk : Nat, laddr : BOOLEAN]
         /\ q.on /\ q.mclk = r.mclk + 1 /\ r.mclk \in Nat
<1>1. ASSUME NEW n \in Nat, NEW z, z = [r EXCEPT !.on = TRUE, !.mclk = n]
      PROVE  /\ z \in [on : BOOLEAN, mclk : Nat, laddr : BOOLEAN]
             /\ z.on /\ z.mclk = n
  BY <1>1
<1>2. r.mclk \in Nat /\ r.mclk + 1 \in Nat
  OBVIOUS
<1> QED BY <1>1, <1>2

\* What the codec has before its registers are accessed.
LEMMA SlimUpStep == ASSUME SlimUp, [SlimNext]_slim_vars PROVE SlimUp'
<1> USE DEF SlimUp
<1>1. CASE wcd9320_slim_probe
  <2>1. /\ slim_power' \in [on : BOOLEAN, mclk : Nat, laddr : BOOLEAN]
        /\ slim_power'.on /\ slim_power'.mclk = slim_power.mclk + 1 /\ slim_power.mclk \in Nat
    BY <1>1, Supplied DEF wcd9320_slim_probe
  <2>2. slim_power'.mclk > 0
    BY <2>1
  <2> QED BY <1>1, <2>1, <2>2 DEF wcd9320_slim_probe
<1>2. CASE slim_probe_fails
  BY <1>2 DEF slim_probe_fails
<1>3. CASE wcd9320_slim_status
  BY <1>3 DEF wcd9320_slim_status
<1>4. CASE slim_status_fails
  BY <1>4 DEF slim_status_fails
<1>5. CASE wcd9320_codec_probe
  BY <1>5 DEF wcd9320_codec_probe
<1>6. CASE UNCHANGED slim_up
  BY <1>6 DEF slim_up
<1>7. ASSUME [SlimNext]_slim_vars,
             ~wcd9320_slim_probe, ~slim_probe_fails, ~wcd9320_slim_status, ~slim_status_fails,
             ~wcd9320_codec_probe
      PROVE  UNCHANGED slim_up
  <2>1. CASE slim_rx_mux_put \/ slim_tx_mixer_put
    BY <2>1 DEF slim_rx_mux_put, slim_tx_mixer_put, ControlMoves
  <2>2. CASE parameter_written
    BY <2>2 DEF parameter_written
  <2>3. CASE msm8974_be_hw_params \/ wcd9320_slim_set_hw_params \/ set_hw_params_fails
    BY <2>3 DEF msm8974_be_hw_params, wcd9320_slim_set_hw_params, set_hw_params_fails, Rest
  <2>4. CASE wcd9320_prepare \/ trigger_start_kept \/ trigger_start \/ trigger_start_fails
               \/ stream_closes
    BY <2>4 DEF wcd9320_prepare, trigger_start_kept, trigger_start, trigger_start_fails,
                stream_closes, Rest
  <2>5. CASE trigger_stop \/ trigger_stop_fails \/ trigger_stop_kept
    BY <2>5 DEF trigger_stop, trigger_stop_fails, trigger_stop_kept, Stops, Rest
  <2>6. CASE UNCHANGED slim_vars
    BY <2>6 DEF slim_vars
  <2> QED BY <1>7, <2>1, <2>2, <2>3, <2>4, <2>5, <2>6 DEF SlimNext
<1> QED BY <1>1, <1>2, <1>3, <1>4, <1>5, <1>6, <1>7

-----------------------------------------------------------------------------
(* Controls and their lists.                                               *)

\* The lists hold ports of their direction, so they share no channel.
LEMMA ListsApart ==
  ASSUME ListsInv
  PROVE  /\ \A d \in SlimDais : Elems(slim_ch_list[d]) \subseteq Ports
         /\ \A a \in Aifs : Elems(slim_ch_list[<<"PB", a>>]) \subseteq RxPorts
         /\ \A a \in Aifs : Elems(slim_ch_list[<<"CAP", a>>]) \subseteq TxPorts
         /\ \A d, e \in SlimDais :
              d # e => Elems(slim_ch_list[d]) \intersect Elems(slim_ch_list[e]) = {}
<1>1. /\ \A a \in Aifs : Elems(slim_ch_list[<<"PB", a>>]) \subseteq RxPorts
      /\ \A a \in Aifs : Elems(slim_ch_list[<<"CAP", a>>]) \subseteq TxPorts
  BY DEF ListsInv, SlimTyped, RxListed, TxListed
<1>2. \A d \in SlimDais : \E a \in Aifs : d = <<"PB", a>> \/ d = <<"CAP", a>>
  BY DEF SlimDais
<1>3. \A d \in SlimDais : Elems(slim_ch_list[d]) \subseteq Ports
  BY <1>1, <1>2 DEF Ports
<1>4. ASSUME NEW d \in SlimDais, NEW e \in SlimDais, NEW p,
             p \in Elems(slim_ch_list[d]), p \in Elems(slim_ch_list[e])
      PROVE  d = e
  <2>1. PICK a \in Aifs : d = <<"PB", a>> \/ d = <<"CAP", a>>
    BY <1>2
  <2>2. PICK b \in Aifs : e = <<"PB", b>> \/ e = <<"CAP", b>>
    BY <1>2
  <2>3. CASE d = <<"PB", a>> /\ e = <<"PB", b>>
    <3>1. rx_port_value[p] = a /\ rx_port_value[p] = b
      BY <1>4, <2>3 DEF ListsInv, RxListed
    <3> QED BY <2>3, <3>1
  <2>4. CASE d = <<"CAP", a>> /\ e = <<"CAP", b>>
    <3>1. p \in tx_port_value
      BY <1>4, <2>4 DEF ListsInv, TxListed
    <3>2. a = b
      BY <1>4, <2>4, <3>1 DEF ListsInv, TxListed
    <3> QED BY <2>4, <3>2
  <2>5. CASE d[1] # e[1]
    <3>1. p \in RxPorts /\ p \in TxPorts
      BY <1>1, <1>4, <2>1, <2>2, <2>5
    <3> QED BY <3>1, SlimAssumption
  <2> QED BY <2>1, <2>2, <2>3, <2>4, <2>5
<1> QED BY <1>1, <1>3, <1>4

\* A mux moves its port from one list to another.
LEMMA MuxMoves == ASSUME ListsInv, slim_rx_mux_put PROVE ListsInv'
<1>1. PICK p \in RxPorts, v \in Aifs \union {0} :
        ControlMoves([rx_port_value EXCEPT ![p] = v], tx_port_value, rx_relist(p, v), slim_paths)
  BY DEF slim_rx_mux_put
<1>2. /\ rx_port_value' = [rx_port_value EXCEPT ![p] = v]
      /\ tx_port_value' = tx_port_value /\ UNCHANGED <<slim_paths, slim_crossed>>
      /\ slim_ch_list' = rx_relist(p, v)
  BY <1>1 DEF ControlMoves, slim_rx_mux_put
<1>3. p \in Ports
  BY DEF Ports
<1> DEFINE w(d) == Without(slim_ch_list[d], p)
<1>4. ASSUME NEW d \in SlimDais
      PROVE  /\ w(d) \in Seq(Ports) /\ Distinct(w(d))
             /\ Elems(w(d)) = Elems(slim_ch_list[d]) \ {p}
  <2>1. slim_ch_list[d] \in Seq(Ports) /\ Distinct(slim_ch_list[d])
    BY DEF ListsInv, SlimTyped
  <2> QED BY <2>1, WithoutElems
<1> HIDE DEF w
<1>5. ASSUME NEW d \in SlimDais
      PROVE  slim_ch_list'[d] = IF d = <<"PB", v>> THEN w(d) \o <<p>> ELSE w(d)
  <2>1. slim_ch_list'[d] = w(d) \o (IF d = <<"PB", v>> THEN <<p>> ELSE <<>>)
    BY <1>2 DEF rx_relist, w
  <2>2. w(d) \o <<>> = w(d)
    BY <1>4, ConcatEmptySeq
  <2> QED BY <2>1, <2>2
<1>6. ASSUME NEW d \in SlimDais, d # <<"PB", v>>
      PROVE  /\ slim_ch_list'[d] \in Seq(Ports) /\ Distinct(slim_ch_list'[d])
             /\ Elems(slim_ch_list'[d]) = Elems(slim_ch_list[d]) \ {p}
  BY <1>4, <1>5, <1>6
<1>7. ASSUME NEW d \in SlimDais, d = <<"PB", v>>
      PROVE  /\ slim_ch_list'[d] \in Seq(Ports) /\ Distinct(slim_ch_list'[d])
             /\ Elems(slim_ch_list'[d]) = (Elems(slim_ch_list[d]) \ {p}) \union {p}
  <2>1. w(d) \o <<p>> = Append(w(d), p)
    BY <1>3, <1>4, AppendIsConcat
  <2>2. p \notin Elems(w(d))
    BY <1>4
  <2>3. slim_ch_list'[d] = Append(w(d), p)
    BY <1>5, <1>7, <2>1
  <2> QED BY <1>3, <1>4, <2>2, <2>3, AppendElems
<1>8. slim_ch_list' \in [SlimDais -> Seq(Ports)] /\ \A d \in SlimDais : Distinct(slim_ch_list'[d])
  BY <1>2, <1>6, <1>7 DEF rx_relist
<1>9. SlimTyped'
  BY <1>2, <1>8 DEF ListsInv, SlimTyped
<1>10. RxListed'
  <2> SUFFICES ASSUME NEW a \in Aifs
               PROVE  Elems(slim_ch_list'[<<"PB", a>>]) = {q \in RxPorts : rx_port_value'[q] = a}
    BY DEF RxListed
  <2>1. /\ <<"PB", a>> \in SlimDais
        /\ Elems(slim_ch_list[<<"PB", a>>]) = {q \in RxPorts : rx_port_value[q] = a}
    BY DEF ListsInv, RxListed, SlimDais
  <2>2. \A q \in RxPorts : rx_port_value'[q] = IF q = p THEN v ELSE rx_port_value[q]
    BY <1>2 DEF ListsInv, SlimTyped
  <2>3. CASE a = v
    BY <1>7, <2>1, <2>2, <2>3
  <2>4. CASE a # v
    <3>1. Elems(slim_ch_list'[<<"PB", a>>]) = Elems(slim_ch_list[<<"PB", a>>]) \ {p}
      BY <1>6, <2>1, <2>4
    <3> QED BY <2>1, <2>2, <2>4, <3>1
  <2> QED BY <2>3, <2>4
<1>11. TxListed' /\ TxSwitched'
  <2>1. ASSUME NEW a \in Aifs
        PROVE  Elems(slim_ch_list'[<<"CAP", a>>]) = Elems(slim_ch_list[<<"CAP", a>>])
    <3>1. <<"CAP", a>> \in SlimDais /\ <<"CAP", a>> # <<"PB", v>>
      BY DEF SlimDais
    <3>2. p \notin Elems(slim_ch_list[<<"CAP", a>>])
      BY ListsApart, SlimAssumption
    <3> QED BY <1>6, <3>1, <3>2
  <2>2. TxListed'
    BY <1>2, <2>1 DEF ListsInv, TxListed
  <2>3. TxSwitched'
    BY <1>2, <2>1 DEF ListsInv, TxSwitched
  <2> QED BY <2>2, <2>3
<1> QED BY <1>9, <1>10, <1>11 DEF ListsInv

\* A switch of a mixer puts its port on a list, or takes it off its list.
LEMMA SwitchMoves == ASSUME ListsInv, slim_tx_mixer_put PROVE ListsInv'
<1>1. PICK a \in Aifs, p \in TxPorts, enable \in BOOLEAN :
        /\ ControlMoves(rx_port_value,
             IF enable THEN tx_port_value \union {p} ELSE tx_port_value \ {p},
             tx_relist(a, p, enable),
             IF enable THEN slim_paths \union {<<a, p>>} ELSE slim_paths \ {<<a, p>>})
        /\ slim_crossed' = IF \E b \in Aifs \ {a} : p \in Elems(slim_ch_list[<<"CAP", b>>])
                           THEN slim_crossed \union {p} ELSE slim_crossed
  BY DEF slim_tx_mixer_put
<1>2. /\ rx_port_value' = rx_port_value
      /\ tx_port_value' = IF enable THEN tx_port_value \union {p} ELSE tx_port_value \ {p}
      /\ slim_ch_list' = tx_relist(a, p, enable)
      /\ slim_paths' = IF enable THEN slim_paths \union {<<a, p>>} ELSE slim_paths \ {<<a, p>>}
  BY <1>1 DEF ControlMoves
<1>3. /\ p \in Ports /\ p \notin RxPorts
      /\ \A b \in Aifs : <<"PB", b>> \in SlimDais /\ <<"CAP", b>> \in SlimDais
      /\ \A d \in SlimDais : slim_ch_list[d] \in Seq(Ports) /\ Distinct(slim_ch_list[d])
  BY SlimAssumption DEF Ports, SlimDais, ListsInv, SlimTyped
<1>4. /\ slim_crossed \subseteq slim_crossed'
      /\ p \notin slim_crossed' =>
           \A b \in Aifs : p \in Elems(slim_ch_list[<<"CAP", b>>]) => b = a
  BY <1>1
<1>5. p \notin tx_port_value => \A b \in Aifs : p \notin Elems(slim_ch_list[<<"CAP", b>>])
  BY DEF ListsInv, TxListed
<1>6. CASE enable <=> p \in tx_port_value
  <2>1. slim_ch_list' = slim_ch_list /\ tx_port_value' = tx_port_value
    BY <1>2, <1>6 DEF tx_relist
  <2>2. SlimTyped'
    BY <1>2, <2>1 DEF ListsInv, SlimTyped
  <2>3. RxListed'
    BY <1>2, <2>1 DEF ListsInv, RxListed
  <2>4. TxListed'
    BY <2>1 DEF ListsInv, TxListed
  <2>5. TxSwitched'
    <3>1. ASSUME NEW b \in Aifs, NEW q \in TxPorts, q \in Elems(slim_ch_list[<<"CAP", b>>])
          PROVE  <<b, q>> \in slim_paths'
      <4>1. <<b, q>> \in slim_paths
        BY <3>1 DEF ListsInv, TxSwitched
      <4>2. ~enable => q # p
        BY <1>5, <1>6, <3>1
      <4> QED BY <1>2, <4>1, <4>2
    <3>2. ASSUME NEW b \in Aifs, NEW q \in TxPorts,
                 q \notin slim_crossed', <<b, q>> \in slim_paths'
          PROVE  q \in Elems(slim_ch_list[<<"CAP", b>>])
      <4>1. CASE <<b, q>> \in slim_paths
        BY <1>4, <3>2, <4>1 DEF ListsInv, TxSwitched
      <4>2. CASE <<b, q>> \notin slim_paths
        <5>1. enable /\ q = p /\ b = a
          BY <1>2, <3>2, <4>2
        <5>2. \E c \in Aifs : p \in Elems(slim_ch_list[<<"CAP", c>>])
          BY <1>6, <5>1 DEF ListsInv, TxListed
        <5> QED BY <1>4, <3>2, <5>1, <5>2
      <4> QED BY <4>1, <4>2
    <3> QED BY <2>1, <3>1, <3>2 DEF TxSwitched
  <2> QED BY <2>2, <2>3, <2>4, <2>5 DEF ListsInv
<1>7. CASE enable /\ p \notin tx_port_value
  <2>1. /\ slim_ch_list' = [slim_ch_list EXCEPT ![<<"CAP", a>>] = Append(@, p)]
        /\ tx_port_value' = tx_port_value \union {p}
    BY <1>2, <1>7 DEF tx_relist
  <2>2. p \notin Elems(slim_ch_list[<<"CAP", a>>])
    BY <1>7 DEF ListsInv, TxListed
  <2> DEFINE l == Append(slim_ch_list[<<"CAP", a>>], p)
  <2>3. /\ l \in Seq(Ports) /\ Distinct(l)
        /\ Elems(l) = Elems(slim_ch_list[<<"CAP", a>>]) \union {p}
    <3>1. /\ slim_ch_list[<<"CAP", a>>] \in Seq(Ports) /\ Distinct(slim_ch_list[<<"CAP", a>>])
          /\ p \in Ports
      BY <1>3
    <3> QED BY <2>2, <3>1, AppendElems
  <2>4. /\ slim_ch_list' \in [SlimDais -> Seq(Ports)]
        /\ \A d \in SlimDais : slim_ch_list'[d] = IF d = <<"CAP", a>> THEN l ELSE slim_ch_list[d]
    BY <1>3, <2>1, <2>3 DEF ListsInv, SlimTyped
  <2> HIDE DEF l
  <2>5. SlimTyped'
    BY <1>2, <1>3, <2>1, <2>3, <2>4 DEF ListsInv, SlimTyped
  <2>6. RxListed'
    BY <1>2, <1>3, <2>4 DEF ListsInv, RxListed
  <2>7. ASSUME NEW b \in Aifs
        PROVE  Elems(slim_ch_list'[<<"CAP", b>>]) =
                 IF b = a THEN Elems(slim_ch_list[<<"CAP", a>>]) \union {p}
                 ELSE Elems(slim_ch_list[<<"CAP", b>>])
    BY <1>3, <2>3, <2>4
  <2>8. TxListed'
    <3>1. \A b \in Aifs : p \notin Elems(slim_ch_list[<<"CAP", b>>])
      BY <1>7 DEF ListsInv, TxListed
    <3> QED BY <2>1, <2>7, <3>1 DEF ListsInv, TxListed
  <2>9. TxSwitched'
    <3>1. slim_paths' = slim_paths \union {<<a, p>>}
      BY <1>2, <1>7
    <3>2. ASSUME NEW b \in Aifs, NEW q \in TxPorts, q \in Elems(slim_ch_list'[<<"CAP", b>>])
          PROVE  <<b, q>> \in slim_paths'
      BY <2>7, <3>1, <3>2 DEF ListsInv, TxSwitched
    <3>3. ASSUME NEW b \in Aifs, NEW q \in TxPorts,
                 q \notin slim_crossed', <<b, q>> \in slim_paths'
          PROVE  q \in Elems(slim_ch_list'[<<"CAP", b>>])
      <4>1. CASE <<b, q>> \in slim_paths
        <5>1. q \in Elems(slim_ch_list[<<"CAP", b>>])
          BY <1>4, <3>3, <4>1 DEF ListsInv, TxSwitched
        <5> QED BY <2>7, <5>1
      <4>2. CASE b = a /\ q = p
        BY <2>7, <4>2
      <4> QED BY <3>1, <3>3, <4>1, <4>2
    <3> QED BY <3>2, <3>3 DEF TxSwitched
  <2> QED BY <2>5, <2>6, <2>8, <2>9 DEF ListsInv
<1>8. CASE ~enable /\ p \in tx_port_value
  <2>1. /\ slim_ch_list' = [d \in SlimDais |-> Without(slim_ch_list[d], p)]
        /\ tx_port_value' = tx_port_value \ {p}
    BY <1>2, <1>8 DEF tx_relist
  <2>2. ASSUME NEW d \in SlimDais
        PROVE  /\ slim_ch_list'[d] \in Seq(Ports) /\ Distinct(slim_ch_list'[d])
               /\ Elems(slim_ch_list'[d]) = Elems(slim_ch_list[d]) \ {p}
    <3>1. slim_ch_list'[d] = Without(slim_ch_list[d], p)
      BY <2>1
    <3> QED BY <1>3, <3>1, WithoutElems
  <2>3. SlimTyped'
    <3>1. slim_ch_list' \in [SlimDais -> Seq(Ports)]
      BY <2>1, <2>2
    <3> QED BY <1>2, <2>1, <2>2, <3>1 DEF ListsInv, SlimTyped
  <2>4. RxListed'
    <3>1. ASSUME NEW b \in Aifs PROVE p \notin Elems(slim_ch_list[<<"PB", b>>])
      BY <1>3, ListsApart
    <3>2. ASSUME NEW b \in Aifs
          PROVE  Elems(slim_ch_list'[<<"PB", b>>]) = Elems(slim_ch_list[<<"PB", b>>])
      BY <1>3, <2>2, <3>1
    <3> QED BY <1>2, <3>2 DEF ListsInv, RxListed
  <2>5. ASSUME NEW b \in Aifs
        PROVE  Elems(slim_ch_list'[<<"CAP", b>>]) = Elems(slim_ch_list[<<"CAP", b>>]) \ {p}
    BY <1>3, <2>2
  <2>6. TxListed'
    <3>1. \A b \in Aifs :
            Elems(slim_ch_list'[<<"CAP", b>>]) = Elems(slim_ch_list[<<"CAP", b>>]) \ {p}
      BY <2>5
    <3>2. \A b \in Aifs : Elems(slim_ch_list'[<<"CAP", b>>]) \subseteq tx_port_value'
      BY <2>1, <3>1 DEF ListsInv, TxListed
    <3>3. \A q \in tx_port_value' : \E b \in Aifs : q \in Elems(slim_ch_list'[<<"CAP", b>>])
      BY <2>1, <3>1 DEF ListsInv, TxListed
    <3>4. ASSUME NEW b \in Aifs, NEW c \in Aifs, NEW q \in tx_port_value',
                 q \in Elems(slim_ch_list'[<<"CAP", b>>]), q \in Elems(slim_ch_list'[<<"CAP", c>>])
          PROVE  b = c
      BY <2>1, <3>1, <3>4 DEF ListsInv, TxListed
    <3> QED BY <3>2, <3>3, <3>4 DEF TxListed
  <2>7. TxSwitched'
    <3>1. slim_paths' = slim_paths \ {<<a, p>>}
      BY <1>2, <1>8
    <3>2. ASSUME NEW b \in Aifs, NEW q \in TxPorts, q \in Elems(slim_ch_list'[<<"CAP", b>>])
          PROVE  <<b, q>> \in slim_paths'
      <4>1. q # p /\ <<b, q>> \in slim_paths
        BY <2>5, <3>2 DEF ListsInv, TxSwitched
      <4> QED BY <3>1, <4>1
    <3>3. ASSUME NEW b \in Aifs, NEW q \in TxPorts,
                 q \notin slim_crossed', <<b, q>> \in slim_paths'
          PROVE  q \in Elems(slim_ch_list'[<<"CAP", b>>])
      <4>1. q \in Elems(slim_ch_list[<<"CAP", b>>]) /\ ~(b = a /\ q = p)
        BY <1>4, <3>1, <3>3 DEF ListsInv, TxSwitched
      <4>2. q # p
        BY <1>4, <3>3, <4>1
      <4> QED BY <2>5, <4>1, <4>2
    <3> QED BY <3>2, <3>3 DEF TxSwitched
  <2> QED BY <2>3, <2>4, <2>6, <2>7 DEF ListsInv
<1> QED BY <1>6, <1>7, <1>8

\* No other step touches the controls.
LEMMA ListsStep == ASSUME ListsInv, [SlimNext]_slim_vars PROVE ListsInv'
<1>1. CASE UNCHANGED slim_ctls
  BY <1>1 DEF slim_ctls, ListsInv, SlimTyped, RxListed, TxListed, TxSwitched
<1>2. ASSUME ~slim_rx_mux_put, ~slim_tx_mixer_put PROVE UNCHANGED slim_ctls
  <2>1. CASE wcd9320_slim_probe \/ slim_probe_fails \/ wcd9320_slim_status \/ slim_status_fails
               \/ wcd9320_codec_probe
    BY <2>1 DEF wcd9320_slim_probe, slim_probe_fails, wcd9320_slim_status, slim_status_fails,
                wcd9320_codec_probe
  <2>2. CASE parameter_written
    BY <2>2 DEF parameter_written
  <2>3. CASE msm8974_be_hw_params \/ wcd9320_slim_set_hw_params \/ set_hw_params_fails
    BY <2>3 DEF msm8974_be_hw_params, wcd9320_slim_set_hw_params, set_hw_params_fails, Rest
  <2>4. CASE wcd9320_prepare \/ trigger_start_kept \/ trigger_start \/ trigger_start_fails
               \/ stream_closes
    BY <2>4 DEF wcd9320_prepare, trigger_start_kept, trigger_start, trigger_start_fails,
                stream_closes, Rest
  <2>5. CASE trigger_stop \/ trigger_stop_fails \/ trigger_stop_kept
    BY <2>5 DEF trigger_stop, trigger_stop_fails, trigger_stop_kept, Stops, Rest
  <2>6. CASE UNCHANGED slim_vars
    BY <2>6 DEF slim_vars
  <2> QED BY <1>2, <2>1, <2>2, <2>3, <2>4, <2>5, <2>6 DEF SlimNext
<1> QED BY <1>1, <1>2, MuxMoves, SwitchMoves

\* At first every list is empty.
LEMMA SlimListed == SlimInit => ListsInv
<1> SUFFICES ASSUME SlimInit PROVE ListsInv
  OBVIOUS
<1>1. \A d \in SlimDais : slim_ch_list[d] = <<>> /\ Elems(slim_ch_list[d]) = {}
  BY DEF SlimInit, Elems
<1>2. SlimTyped
  BY <1>1 DEF SlimInit, SlimTyped, Distinct
<1>3. \A a \in Aifs : <<"PB", a>> \in SlimDais /\ <<"CAP", a>> \in SlimDais
  BY DEF SlimDais
<1>4. RxListed
  BY <1>1, <1>3, SlimAssumption DEF SlimInit, RxListed
<1>5. TxListed
  BY <1>1, <1>3 DEF SlimInit, TxListed
<1>6. TxSwitched
  BY <1>1, <1>3 DEF SlimInit, TxSwitched
<1> QED BY <1>2, <1>4, <1>5, <1>6 DEF ListsInv

\* The codec is reachable and the lists are what the controls say, for any ports
\* and interfaces (SlimRouted of WcdSlim).
THEOREM SlimRoutedAlways == SlimSpec => []SlimRouted
<1>1. SlimInit => SlimUp /\ ListsInv
  BY SlimListed DEF SlimInit, SlimUp
<1>2. SlimUp /\ ListsInv /\ [SlimNext]_slim_vars => (SlimUp /\ ListsInv)'
  BY SlimUpStep, ListsStep
<1>3. SlimUp /\ ListsInv => SlimRouted
  <2> SUFFICES ASSUME SlimUp, ListsInv PROVE SlimRouted
    OBVIOUS
  <2>1. SlimReachable
    BY DEF SlimUp, SlimReachable
  <2>2. \A d \in SlimDais : Cardinality(Elems(slim_ch_list[d])) = Len(slim_ch_list[d])
    BY DistinctLength DEF ListsInv, SlimTyped
  <2>3. ASSUME NEW p \in RxPorts, NEW a \in Aifs
        PROVE  p \in Elems(slim_ch_list[<<"PB", a>>]) <=> rx_port_value[p] = a
    BY DEF ListsInv, RxListed
  <2>4. ASSUME NEW p \in TxPorts
        PROVE  Cardinality({a \in Aifs : p \in Elems(slim_ch_list[<<"CAP", a>>])})
                 = IF p \in tx_port_value THEN 1 ELSE 0
    <3> DEFINE on == {a \in Aifs : p \in Elems(slim_ch_list[<<"CAP", a>>])}
    <3>1. CASE p \in tx_port_value
      <4>1. \E a \in Aifs : on = {a}
        <5>1. PICK a \in Aifs : p \in Elems(slim_ch_list[<<"CAP", a>>])
          BY <3>1 DEF ListsInv, TxListed
        <5>2. \A b \in on : b = a
          BY <3>1, <5>1 DEF ListsInv, TxListed
        <5>3. on = {a}
          BY <5>1, <5>2
        <5> QED BY <5>3
      <4> QED BY <3>1, <4>1, FS_Singleton
    <3>2. CASE p \notin tx_port_value
      <4>1. on = {}
        BY <3>2 DEF ListsInv, TxListed
      <4> QED BY <3>2, <4>1, FS_EmptySet
    <3> QED BY <3>1, <3>2
  <2>5. ASSUME NEW p \in TxPorts
        PROVE  LET on == {a \in Aifs : p \in Elems(slim_ch_list[<<"CAP", a>>])}
                   switched == {a \in Aifs : <<a, p>> \in slim_paths}
               IN  on \subseteq switched /\ (p \notin slim_crossed => on = switched)
    BY DEF ListsInv, TxSwitched
  <2> QED BY <2>1, <2>2, <2>3, <2>4, <2>5 DEF SlimLists, SlimRouted
<1> QED BY <1>1, <1>2, <1>3, PTL DEF SlimSpec

-----------------------------------------------------------------------------
(* Streams.                                                                *)

\* A list without channels is the empty one.
LEMMA NoElems ==
  ASSUME NEW S, NEW l \in Seq(S), Elems(l) = {}
  PROVE  l = <<>>
<1>1. Len(l) \in Nat /\ DOMAIN l = 1 .. Len(l)
  OBVIOUS
<1>2. 1 \notin DOMAIN l
  BY DEF Elems
<1>3. Len(l) = 0
  BY <1>1, <1>2
<1> QED BY <1>3, EmptySeq

\* What the invariant says of one stream.
LEMMA StreamIs ==
  ASSUME ListsInv, StreamsInv, NEW d \in Streams
  PROVE  /\ slim_dai[d] \in SlimDai
         /\ slim_ch_list[d] \in Seq(Ports)
         /\ Elems(slim_ch_list[d]) \subseteq Ports
         /\ StreamOK(slim_dai[d], slim_ch_list[d], slim_ports_on)
<1>1. d \in SlimDais
  BY SlimAssumption DEF SlimDais
<1> QED BY <1>1, ListsApart DEF ListsInv, SlimTyped, StreamsInv

\* A step of one stream that enables or disables ports on its list only.
LEMMA OneStream ==
  ASSUME ListsInv, StreamsInv, UNCHANGED slim_ctls,
         NEW d \in Streams, NEW q \in SlimDai, Becomes(d, q),
         slim_ports_on' \subseteq Ports,
         \A p : p \notin Elems(slim_ch_list[d]) => (p \in slim_ports_on' <=> p \in slim_ports_on),
         StreamOK(q, slim_ch_list[d], slim_ports_on')
  PROVE  StreamsInv'
<1>1. /\ slim_dai' \in [Streams -> SlimDai]
      /\ slim_dai'[d] = q /\ \A e \in Streams \ {d} : slim_dai'[e] = slim_dai[e]
  BY DEF StreamsInv, Becomes
<1>2. slim_ch_list' = slim_ch_list
  BY DEF slim_ctls
<1>3. ASSUME NEW e \in Streams \ {d}
      PROVE  StreamOK(slim_dai[e], slim_ch_list[e], slim_ports_on')
  <2> DEFINE s == slim_dai[e]
             told == Elems(s.map) \ s.loose
  <2>1. d \in SlimDais /\ e \in SlimDais /\ d # e
    BY SlimAssumption DEF SlimDais
  <2>2. Elems(slim_ch_list[e]) \intersect Elems(slim_ch_list[d]) = {}
    BY <2>1, ListsApart
  <2>3. StreamOK(s, slim_ch_list[e], slim_ports_on)
    BY DEF StreamsInv
  <2>4. s.pcm # "closed" => \A p \in told : p \in slim_ports_on' <=> p \in slim_ports_on
    BY <2>2, <2>3 DEF StreamOK, MapOK
  <2>5. PortsOK(s, slim_ports_on')
    BY <2>3, <2>4 DEF StreamOK, PortsOK
  <2> QED BY <2>3, <2>5 DEF StreamOK
<1>4. ASSUME NEW e \in Streams PROVE StreamOK(slim_dai'[e], slim_ch_list'[e], slim_ports_on')
  BY <1>1, <1>2, <1>3
<1> QED BY <1>1, <1>4 DEF StreamsInv

\* A control that moves takes channels off lists, and arrays from streams.
LEMMA ControlsStep ==
  ASSUME StreamsInv, slim_rx_mux_put \/ slim_tx_mixer_put PROVE StreamsInv'
<1>1. PICK rx, tx, lists, paths : ControlMoves(rx, tx, lists, paths)
  BY DEF slim_rx_mux_put, slim_tx_mixer_put
<1>2. /\ slim_ports_on' = slim_ports_on /\ slim_ch_list' = lists
      /\ slim_dai' = [d \in Streams |-> Relisted(d, lists[d], rx, paths)]
  BY <1>1 DEF ControlMoves
<1>3. ASSUME NEW d \in Streams
      PROVE  slim_dai'[d] \in SlimDai /\ StreamOK(slim_dai'[d], lists[d], slim_ports_on)
  <2> DEFINE s == slim_dai[d]
             down == Powered(d) /\ ~Connected(d, rx, paths)
             chs == IF down THEN Null ELSE s.chs
             cut == s.cut \/ down
             loose == s.loose \union (Elems(s.map) \ Elems(lists[d]))
             retold == s.retold \/ (s.pcm = "mapped" /\ lists[d] # slim_ch_list[d])
             q == slim_dai'[d]
  <2>1. s \in SlimDai /\ StreamOK(s, slim_ch_list[d], slim_ports_on)
    BY DEF StreamsInv
  <2>2. chs \in Seq(Seq(Ports)) /\ cut \in BOOLEAN /\ retold \in BOOLEAN
    <3>1. Null \in Seq(Seq(Ports)) /\ s.chs \in Seq(Seq(Ports))
      BY <2>1, EmptySeq DEF Null, SlimDai
    <3> QED BY <3>1
  <2>3. loose \subseteq Ports
    <3>1. s.map \in Seq(Ports) /\ s.loose \subseteq Ports
      BY <2>1 DEF SlimDai
    <3>2. Elems(s.map) \subseteq Ports
      BY <3>1 DEF Elems
    <3> QED BY <3>1, <3>2
  <2>4. q = [s EXCEPT !.chs = chs, !.cut = cut, !.loose = loose, !.retold = retold]
    BY <1>2 DEF Relisted
  <2>5. /\ chs # Null => chs = s.chs
        /\ ~cut => ~s.cut /\ chs = s.chs
        /\ ~retold => ~s.retold /\ (s.pcm = "mapped" => lists[d] = slim_ch_list[d])
        /\ Elems(s.map) \ loose \subseteq Elems(lists[d])
        /\ Elems(s.map) \ loose \subseteq Elems(s.map) \ s.loose
    OBVIOUS
  <2> HIDE DEF s, chs, cut, loose, retold, q
  <2>6. /\ q \in SlimDai /\ q.chs = chs /\ q.cut = cut /\ q.loose = loose /\ q.retold = retold
        /\ q.pcm = s.pcm /\ q.map = s.map /\ q.port_mask = s.port_mask
        /\ q.prepared = s.prepared /\ q.bus = s.bus /\ q.stream_up = s.stream_up
        /\ q.again = s.again /\ q.kept = s.kept /\ q.refused = s.refused
    BY <2>1, <2>2, <2>3, <2>4 DEF SlimDai
  <2>7. MapOK(q, lists[d])
    BY <2>1, <2>5, <2>6 DEF StreamOK, MapOK
  <2>8. ArrayOK(q)
    BY <2>1, <2>5, <2>6 DEF StreamOK, ArrayOK
  <2>9. BusOK(q)
    BY <2>1, <2>5, <2>6 DEF StreamOK, BusOK
  <2>10. PortsOK(q, slim_ports_on)
    BY <2>1, <2>5, <2>6 DEF StreamOK, PortsOK
  <2> QED BY <2>6, <2>7, <2>8, <2>9, <2>10 DEF StreamOK, q
<1>4. slim_dai' \in [Streams -> SlimDai]
  BY <1>2, <1>3
<1> QED BY <1>2, <1>3, <1>4 DEF StreamsInv

\* A stream that closes.
LEMMA ClosedOK ==
  ASSUME NEW d \in Streams, NEW l, NEW on, NEW after,
         slim_dai[d] \in SlimDai, StreamOK(slim_dai[d], l, on), slim_dai[d].pcm # "running"
  PROVE  /\ Closed(d) \in SlimDai /\ Closed(d).pcm = "closed"
         /\ StreamOK(Closed(d), l, after)
<1> DEFINE s == slim_dai[d]
           chs == IF Powered(d) THEN Null ELSE s.chs
           q == Closed(d)
<1>1. chs \in Seq(Seq(Ports)) /\ (chs # Null => chs = s.chs)
  <2>1. Null \in Seq(Seq(Ports)) /\ s.chs \in Seq(Seq(Ports))
    BY EmptySeq DEF Null, SlimDai
  <2> QED BY <2>1
<1>2. q = [s EXCEPT !.pcm = "closed", !.active = FALSE, !.chs = chs]
  BY DEF Closed
<1> HIDE DEF s, chs, q
<1>3. /\ q \in SlimDai /\ q.pcm = "closed" /\ q.chs = chs /\ q.port_mask = s.port_mask
      /\ q.prepared = s.prepared /\ q.bus = s.bus /\ q.stream_up = s.stream_up
      /\ q.kept = s.kept /\ q.refused = s.refused
  BY <1>1, <1>2 DEF SlimDai, s
<1>4. StreamOK(s, l, on) /\ s.pcm # "running"
  BY DEF s
<1>5. MapOK(q, l) /\ PortsOK(q, after)
  BY <1>3 DEF MapOK, PortsOK
<1>6. ArrayOK(q)
  BY <1>1, <1>3, <1>4 DEF StreamOK, ArrayOK, Opened
<1>7. BusOK(q)
  BY <1>3, <1>4 DEF StreamOK, BusOK
<1> QED BY <1>3, <1>5, <1>6, <1>7 DEF StreamOK, q

\* The card tells the DSP of the channels.
LEMMA BeHwParamsStep == ASSUME ListsInv, StreamsInv, msm8974_be_hw_params PROVE StreamsInv'
<1>1. PICK d \in Streams :
        /\ slim_dai[d].pcm \in {"closed", "setup", "prepared", "stopped"}
        /\ \/ Becomes(d, [slim_dai[d] EXCEPT !.pcm = "mapped", !.map = slim_ch_list[d],
                                             !.loose = {}, !.retold = FALSE])
           \/ Becomes(d, Closed(d))
        /\ UNCHANGED <<slim_ctls, slim_ports_on>>
  BY DEF msm8974_be_hw_params, wcd9320_get_channel_map, Rest
<1> DEFINE s == slim_dai[d]
           l == slim_ch_list[d]
<1>2. s \in SlimDai /\ l \in Seq(Ports) /\ StreamOK(s, l, slim_ports_on)
  BY StreamIs
<1>3. ASSUME NEW q \in SlimDai, Becomes(d, q), StreamOK(q, l, slim_ports_on)
      PROVE  StreamsInv'
  BY <1>1, <1>3, OneStream DEF StreamsInv
<1>4. s.pcm # "running"
  BY <1>1
<1>5. CASE Becomes(d, Closed(d))
  BY <1>2, <1>3, <1>4, <1>5, ClosedOK
<1>6. CASE Becomes(d, [s EXCEPT !.pcm = "mapped", !.map = l, !.loose = {}, !.retold = FALSE])
  <2> DEFINE q == [s EXCEPT !.pcm = "mapped", !.map = l, !.loose = {}, !.retold = FALSE]
  <2> HIDE DEF s, l
  <2>1. /\ q \in SlimDai /\ q.pcm = "mapped" /\ q.map = l /\ q.loose = {}
        /\ q.chs = s.chs /\ q.port_mask = s.port_mask /\ q.stream_up = s.stream_up
        /\ q.prepared = s.prepared /\ q.bus = s.bus /\ q.kept = s.kept /\ q.refused = s.refused
    BY <1>2 DEF SlimDai
  <2>2. Becomes(d, q)
    BY <1>6
  <2> HIDE DEF q
  <2>3. MapOK(q, l) /\ PortsOK(q, slim_ports_on)
    BY <2>1 DEF MapOK, PortsOK
  <2>4. ArrayOK(q)
    BY <1>2, <2>1 DEF StreamOK, ArrayOK, Opened
  <2>5. BusOK(q)
    BY <1>2, <1>4, <2>1 DEF StreamOK, BusOK
  <2> QED BY <1>3, <2>1, <2>2, <2>3, <2>4, <2>5 DEF StreamOK, l
<1> QED BY <1>1, <1>5, <1>6

\* The codec makes the channel array and enables the ports.
LEMMA SetHwParamsStep ==
  ASSUME ListsInv, StreamsInv, wcd9320_slim_set_hw_params PROVE StreamsInv'
<1>1. PICK d \in Streams :
        /\ slim_dai[d].pcm = "mapped"
        /\ Becomes(d, [slim_dai[d] EXCEPT !.pcm = "setup", !.chs = <<slim_ch_list[d]>>,
                                          !.port_mask = Elems(slim_ch_list[d]), !.rt = TRUE,
                                          !.again = FALSE, !.cut = FALSE])
        /\ slim_ports_on' = slim_ports_on \union Elems(slim_ch_list[d])
        /\ UNCHANGED slim_ctls
  BY DEF wcd9320_slim_set_hw_params, ports_enabled, Rest
<1> DEFINE s == slim_dai[d]
           l == slim_ch_list[d]
           mask == Elems(l)
           chs == <<l>>
           q == [s EXCEPT !.pcm = "setup", !.chs = chs, !.port_mask = mask, !.rt = TRUE,
                          !.again = FALSE, !.cut = FALSE]
<1>2. /\ s \in SlimDai /\ l \in Seq(Ports) /\ mask \subseteq Ports
      /\ StreamOK(s, l, slim_ports_on)
  BY StreamIs
<1>3. chs \in Seq(Seq(Ports)) /\ chs # Null /\ Len(chs) = 1 /\ chs[1] = l
  BY <1>2 DEF Null
<1>4. Becomes(d, q) /\ s.pcm = "mapped" /\ slim_ports_on' = slim_ports_on \union mask
  BY <1>1
<1> HIDE DEF s, mask, chs
<1>5. /\ q \in SlimDai /\ q.pcm = "setup" /\ q.chs = chs /\ q.port_mask = mask
      /\ q.map = s.map /\ q.loose = s.loose /\ q.retold = s.retold
      /\ q.prepared = s.prepared /\ q.bus = s.bus /\ q.stream_up = s.stream_up
      /\ q.kept = s.kept /\ q.refused = s.refused
  BY <1>2, <1>3 DEF SlimDai
<1> HIDE DEF q
<1>6. Elems(s.map) \ s.loose \subseteq mask /\ (~s.retold => s.map = l)
  BY <1>2, <1>4 DEF StreamOK, MapOK, mask
<1>7. StreamOK(q, l, slim_ports_on')
  <2>1. MapOK(q, l)
    BY <1>5, <1>6 DEF MapOK, mask
  <2>2. ArrayOK(q)
    <3>1. q.chs # Null /\ Len(q.chs) = 1 /\ q.port_mask = Elems(q.chs[1])
      BY <1>3, <1>5 DEF mask
    <3>2. ~q.retold => q.port_mask = Elems(q.map) /\ q.chs = <<q.map>>
      BY <1>5, <1>6 DEF mask, chs
    <3> QED BY <3>1, <3>2 DEF ArrayOK
  <2>3. BusOK(q)
    BY <1>2, <1>4, <1>5 DEF StreamOK, BusOK
  <2>4. PortsOK(q, slim_ports_on')
    BY <1>4, <1>5, <1>6 DEF PortsOK
  <2> QED BY <2>1, <2>2, <2>3, <2>4 DEF StreamOK
<1>8. slim_ports_on' \subseteq Ports
  BY <1>2, <1>4 DEF StreamsInv
<1>9. \A p : p \notin Elems(slim_ch_list[d]) => (p \in slim_ports_on' <=> p \in slim_ports_on)
  BY <1>4 DEF mask
<1> QED BY <1>1, <1>4, <1>5, <1>7, <1>8, <1>9, OneStream DEF StreamsInv

\* It fails with some of the ports enabled.
LEMMA SetHwParamsFails == ASSUME ListsInv, StreamsInv, set_hw_params_fails PROVE StreamsInv'
<1>1. PICK d \in Streams :
        /\ slim_dai[d].pcm = "mapped"
        /\ \E n \in 0 .. Len(slim_ch_list[d]) :
             slim_ports_on' = slim_ports_on \union Elems(SubSeq(slim_ch_list[d], 1, n))
        /\ Becomes(d, [Closed(d) EXCEPT !.chs = Null, !.port_mask = Elems(slim_ch_list[d])])
        /\ UNCHANGED slim_ctls
  BY DEF set_hw_params_fails, Rest
<1> DEFINE s == slim_dai[d]
           l == slim_ch_list[d]
           mask == Elems(l)
           z == Closed(d)
           q == [z EXCEPT !.chs = Null, !.port_mask = mask]
<1>2. /\ s \in SlimDai /\ l \in Seq(Ports) /\ mask \subseteq Ports
      /\ StreamOK(s, l, slim_ports_on)
  BY StreamIs
<1>3. PICK n \in 0 .. Len(l) : slim_ports_on' = slim_ports_on \union Elems(SubSeq(l, 1, n))
  BY <1>1
<1>4. Elems(SubSeq(l, 1, n)) \subseteq mask
  <2>1. \A i \in DOMAIN SubSeq(l, 1, n) : i \in DOMAIN l /\ SubSeq(l, 1, n)[i] = l[i]
    BY <1>2
  <2> QED BY <2>1 DEF Elems
<1>5. Becomes(d, q) /\ s.pcm = "mapped"
  BY <1>1
<1>6. z \in SlimDai /\ z.pcm = "closed" /\ StreamOK(z, l, slim_ports_on')
  BY <1>2, <1>5, ClosedOK
<1>7. Null \in Seq(Seq(Ports))
  BY EmptySeq DEF Null
<1> HIDE DEF mask, z
<1>8. /\ q \in SlimDai /\ q.pcm = "closed" /\ q.chs = Null /\ q.stream_up = z.stream_up
      /\ q.prepared = z.prepared /\ q.bus = z.bus /\ q.kept = z.kept /\ q.refused = z.refused
  BY <1>2, <1>6, <1>7 DEF SlimDai
<1> HIDE DEF q
<1>9. StreamOK(q, l, slim_ports_on')
  <2>1. MapOK(q, l) /\ PortsOK(q, slim_ports_on') /\ ArrayOK(q)
    BY <1>8 DEF MapOK, PortsOK, ArrayOK, Opened
  <2>2. BusOK(q)
    BY <1>6, <1>8 DEF StreamOK, BusOK
  <2> QED BY <2>1, <2>2 DEF StreamOK
<1>10. slim_ports_on' \subseteq Ports
  BY <1>2, <1>3, <1>4 DEF StreamsInv
<1>11. \A p : p \notin Elems(slim_ch_list[d]) => (p \in slim_ports_on' <=> p \in slim_ports_on)
  BY <1>3, <1>4 DEF mask
<1> QED BY <1>1, <1>5, <1>8, <1>9, <1>10, <1>11, OneStream DEF StreamsInv

\* A prepare changes neither the array nor the ports.
LEMMA PrepareStep == ASSUME ListsInv, StreamsInv, wcd9320_prepare PROVE StreamsInv'
<1>1. PICK d \in Streams :
        /\ slim_dai[d].pcm \in {"setup", "stopped"}
        /\ Becomes(d, [slim_dai[d] EXCEPT !.pcm = "prepared", !.active = TRUE])
        /\ UNCHANGED <<slim_ctls, slim_ports_on>>
  BY DEF wcd9320_prepare, Rest
<1> DEFINE s == slim_dai[d]
           l == slim_ch_list[d]
           q == [s EXCEPT !.pcm = "prepared", !.active = TRUE]
<1>2. s \in SlimDai /\ StreamOK(s, l, slim_ports_on)
  BY StreamIs
<1>3. Becomes(d, q) /\ s.pcm \in {"setup", "stopped"}
  BY <1>1
<1> HIDE DEF s
<1>4. /\ q \in SlimDai /\ q.pcm = "prepared" /\ q.map = s.map /\ q.loose = s.loose
      /\ q.retold = s.retold /\ q.chs = s.chs /\ q.port_mask = s.port_mask /\ q.cut = s.cut
      /\ q.prepared = s.prepared /\ q.bus = s.bus /\ q.stream_up = s.stream_up
      /\ q.again = s.again /\ q.kept = s.kept /\ q.refused = s.refused
  BY <1>2 DEF SlimDai
<1> HIDE DEF q
<1>5. MapOK(q, l) /\ ArrayOK(q)
  BY <1>2, <1>3, <1>4 DEF StreamOK, MapOK, ArrayOK, Opened
<1>6. BusOK(q)
  BY <1>2, <1>3, <1>4 DEF StreamOK, BusOK
<1>7. PortsOK(q, slim_ports_on)
  BY <1>2, <1>3, <1>4 DEF StreamOK, PortsOK
<1> QED BY <1>1, <1>3, <1>4, <1>5, <1>6, <1>7, OneStream DEF StreamsInv, StreamOK

\* A start that finds its stream up.
LEMMA StartKept == ASSUME ListsInv, StreamsInv, trigger_start_kept PROVE StreamsInv'
<1>1. PICK d \in Streams :
        /\ slim_dai[d].pcm \in {"prepared", "stopped"} /\ slim_dai[d].stream_up
        /\ Becomes(d, [slim_dai[d] EXCEPT !.pcm = "running", !.kept = TRUE])
        /\ UNCHANGED <<slim_ctls, slim_ports_on>>
  BY DEF trigger_start_kept, Starts, Rest
<1> DEFINE s == slim_dai[d]
           l == slim_ch_list[d]
           q == [s EXCEPT !.pcm = "running", !.kept = TRUE]
<1>2. s \in SlimDai /\ StreamOK(s, l, slim_ports_on)
  BY StreamIs
<1>3. Becomes(d, q) /\ s.pcm \in {"prepared", "stopped"} /\ s.stream_up
  BY <1>1
<1> HIDE DEF s
<1>4. /\ q \in SlimDai /\ q.pcm = "running" /\ q.kept /\ q.map = s.map /\ q.loose = s.loose
      /\ q.retold = s.retold /\ q.chs = s.chs /\ q.port_mask = s.port_mask /\ q.cut = s.cut
      /\ q.prepared = s.prepared /\ q.bus = s.bus /\ q.stream_up = s.stream_up
      /\ q.again = s.again
  BY <1>2 DEF SlimDai
<1> HIDE DEF q
<1>5. MapOK(q, l) /\ ArrayOK(q)
  BY <1>2, <1>3, <1>4 DEF StreamOK, MapOK, ArrayOK, Opened
<1>6. BusOK(q)
  BY <1>2, <1>3, <1>4 DEF StreamOK, BusOK
<1>7. PortsOK(q, slim_ports_on)
  BY <1>2, <1>3, <1>4 DEF StreamOK, PortsOK
<1> QED BY <1>1, <1>3, <1>4, <1>5, <1>6, <1>7, OneStream DEF StreamsInv, StreamOK

\* A start puts on the bus what the array holds, and it holds what the port mask
\* says; without an array the mask is empty.
LEMMA StartStep == ASSUME ListsInv, StreamsInv, trigger_start PROVE StreamsInv'
<1>1. PICK d \in Streams :
        /\ slim_dai[d].pcm \in {"prepared", "stopped"}
        /\ slim_dai[d].chs # Null \/ slim_dai[d].port_mask = {}
        /\ Becomes(d, [slim_dai[d] EXCEPT
             !.pcm = "running", !.prepared = {slim_dai[d].port_mask}, !.stream_up = TRUE,
             !.bus = IF slim_dai[d].port_mask = {} THEN <<<<>>>> ELSE slim_dai[d].chs])
        /\ UNCHANGED <<slim_ctls, slim_ports_on>>
  BY DEF trigger_start, Preparable, Starts, Rest
<1> DEFINE s == slim_dai[d]
           l == slim_ch_list[d]
           prepared == {s.port_mask}
           bus == IF s.port_mask = {} THEN <<<<>>>> ELSE s.chs
           q == [s EXCEPT !.pcm = "running", !.prepared = prepared, !.stream_up = TRUE, !.bus = bus]
<1>2. s \in SlimDai /\ StreamOK(s, l, slim_ports_on)
  BY StreamIs
<1>3. /\ Becomes(d, q) /\ s.pcm \in {"prepared", "stopped"}
      /\ s.chs # Null \/ s.port_mask = {}
  BY <1>1
<1>4. /\ s.chs \in Seq(Seq(Ports)) /\ s.port_mask \subseteq Ports /\ s.map \in Seq(Ports)
  BY <1>2 DEF SlimDai
<1>5. /\ bus \in Seq(Seq(Ports)) /\ Len(bus) = 1 /\ Elems(bus[1]) = s.port_mask
      /\ ~s.retold => bus = <<s.map>>
  <2>1. CASE s.port_mask = {}
    <3>1. bus = <<<<>>>>
      BY <2>1
    <3>2. <<>> \in Seq(Ports) /\ Elems(<<>>) = {}
      BY EmptySeq DEF Elems
    <3>3. ~s.retold => s.map = <<>>
      BY <1>2, <1>3, <1>4, <2>1, NoElems DEF StreamOK, ArrayOK, Opened
    <3> HIDE DEF s, bus
    <3> QED BY <2>1, <3>1, <3>2, <3>3
  <2>2. CASE s.port_mask # {}
    <3>1. bus = s.chs /\ s.chs # Null
      BY <1>3, <2>2
    <3> HIDE DEF s, bus
    <3> QED BY <1>2, <1>3, <1>4, <3>1 DEF StreamOK, ArrayOK, Opened
  <2> QED BY <2>1, <2>2
<1>6. prepared \in SUBSET SUBSET Ports
  BY <1>4
<1> HIDE DEF s, bus, prepared
<1>7. /\ q \in SlimDai /\ q.pcm = "running" /\ q.prepared = prepared /\ q.bus = bus
      /\ q.stream_up /\ q.map = s.map /\ q.loose = s.loose
      /\ q.retold = s.retold /\ q.chs = s.chs /\ q.port_mask = s.port_mask /\ q.cut = s.cut
      /\ q.again = s.again
  BY <1>2, <1>5, <1>6 DEF SlimDai
<1> HIDE DEF q
<1>8. MapOK(q, l) /\ ArrayOK(q)
  BY <1>2, <1>3, <1>7 DEF StreamOK, MapOK, ArrayOK, Opened
<1>9. BusOK(q)
  BY <1>5, <1>7 DEF BusOK, prepared
<1>10. PortsOK(q, slim_ports_on)
  BY <1>2, <1>3, <1>7 DEF StreamOK, PortsOK
<1> QED BY <1>1, <1>3, <1>7, <1>8, <1>9, <1>10, OneStream DEF StreamsInv, StreamOK

\* A start that fails leaves the stream prepared, or as it was.
LEMMA StartFails == ASSUME ListsInv, StreamsInv, trigger_start_fails PROVE StreamsInv'
<1>1. PICK d \in Streams, enabling \in BOOLEAN :
        /\ slim_dai[d].pcm \in {"prepared", "stopped"} /\ slim_dai[d].prepared = {}
        /\ Becomes(d, [slim_dai[d] EXCEPT
             !.prepared = IF enabling THEN {slim_dai[d].port_mask} ELSE @,
             !.refused = enabling \/ @])
        /\ UNCHANGED <<slim_ctls, slim_ports_on>>
  BY DEF trigger_start_fails, Preparable, Starts, Rest
<1> DEFINE s == slim_dai[d]
           l == slim_ch_list[d]
           prepared == IF enabling THEN {s.port_mask} ELSE s.prepared
           refused == enabling \/ s.refused
           q == [s EXCEPT !.prepared = prepared, !.refused = refused]
<1>2. s \in SlimDai /\ StreamOK(s, l, slim_ports_on)
  BY StreamIs
<1>3. Becomes(d, q) /\ s.pcm \in {"prepared", "stopped"} /\ s.prepared = {}
  BY <1>1
<1>4. /\ prepared \in SUBSET SUBSET Ports /\ refused \in BOOLEAN
      /\ ~refused => prepared = s.prepared /\ ~s.refused
  BY <1>2 DEF SlimDai
<1>5. ~s.stream_up
  BY <1>2, <1>3 DEF StreamOK, BusOK
<1> HIDE DEF s, prepared, refused
<1>6. /\ q \in SlimDai /\ q.prepared = prepared /\ q.refused = refused
      /\ q.pcm = s.pcm /\ q.map = s.map /\ q.loose = s.loose
      /\ q.retold = s.retold /\ q.chs = s.chs /\ q.port_mask = s.port_mask /\ q.cut = s.cut
      /\ q.bus = s.bus /\ q.stream_up = s.stream_up /\ q.again = s.again /\ q.kept = s.kept
  BY <1>2, <1>4 DEF SlimDai
<1> HIDE DEF q
<1>7. MapOK(q, l) /\ ArrayOK(q) /\ PortsOK(q, slim_ports_on)
  BY <1>2, <1>6 DEF StreamOK, MapOK, ArrayOK, PortsOK
<1>8. BusOK(q)
  BY <1>2, <1>3, <1>4, <1>5, <1>6 DEF StreamOK, BusOK
<1> QED BY <1>1, <1>3, <1>6, <1>7, <1>8, OneStream DEF StreamsInv, StreamOK

\* A stream is still one after its bus calls have been given up, whatever those left.
LEMMA DaiTaken ==
  ASSUME NEW s \in SlimDai, NEW b \in Seq(Seq(Ports)), NEW p \in SUBSET SUBSET Ports,
         NEW u \in BOOLEAN
  PROVE  [s EXCEPT !.bus = b, !.prepared = p, !.stream_up = FALSE, !.kept = FALSE,
                   !.refused = u] \in SlimDai
  BY DEF SlimDai

\* A stream taken down counts as down; the bus has let go of it, or refused to.
LEMMA TakenDownIs ==
  ASSUME NEW s \in SlimDai, NEW refused \in SUBSET {"disable", "unprepare"},
         NEW q, q = taken_down(s, refused)
  PROVE  /\ q \in SlimDai /\ ~q.stream_up
         /\ ~q.refused /\ q.prepared # {{}} => q.prepared = {} /\ q.bus = Null
         /\ q.map = s.map /\ q.loose = s.loose /\ q.retold = s.retold
         /\ q.chs = s.chs /\ q.port_mask = s.port_mask /\ q.cut = s.cut
<1> DEFINE fail == IF s.prepared = {{}} THEN {"disable", "unprepare"} ELSE refused
           bus == IF "disable" \in fail THEN s.bus ELSE Null
           prepared == IF "unprepare" \in fail THEN s.prepared ELSE {}
           r == s.refused \/ refused # {}
<1>1. q = [s EXCEPT !.bus = bus, !.prepared = prepared, !.stream_up = FALSE, !.kept = FALSE,
                    !.refused = r]
  BY DEF taken_down
<1>2. bus \in Seq(Seq(Ports)) /\ prepared \in SUBSET SUBSET Ports /\ r \in BOOLEAN
  <2>1. Null \in Seq(Seq(Ports)) /\ s.bus \in Seq(Seq(Ports)) /\ s.prepared \in SUBSET SUBSET Ports
    BY EmptySeq DEF Null, SlimDai
  <2> QED BY <2>1
<1>3. ~r /\ prepared # {{}} => prepared = {} /\ bus = Null
  OBVIOUS
<1>4. \E b \in Seq(Seq(Ports)), p \in SUBSET SUBSET Ports, u \in BOOLEAN :
        /\ q = [s EXCEPT !.bus = b, !.prepared = p, !.stream_up = FALSE, !.kept = FALSE,
                         !.refused = u]
        /\ ~u /\ p # {{}} => p = {} /\ b = Null
  <2> HIDE DEF fail, bus, prepared, r
  <2> QED BY <1>1, <1>2, <1>3, Zenon
<1> HIDE DEF fail, bus, prepared, r
<1>5. PICK b \in Seq(Seq(Ports)), p \in SUBSET SUBSET Ports, u \in BOOLEAN :
        /\ q = [s EXCEPT !.bus = b, !.prepared = p, !.stream_up = FALSE, !.kept = FALSE,
                         !.refused = u]
        /\ ~u /\ p # {{}} => p = {} /\ b = Null
  BY <1>4
<1>6. /\ q \in SlimDai /\ ~q.stream_up /\ q.refused = u /\ q.prepared = p /\ q.bus = b
      /\ q.map = s.map /\ q.loose = s.loose /\ q.retold = s.retold
      /\ q.chs = s.chs /\ q.port_mask = s.port_mask /\ q.cut = s.cut
  <2>1. q = [s EXCEPT !.bus = b, !.prepared = p, !.stream_up = FALSE, !.kept = FALSE,
                      !.refused = u]
    BY <1>5
  <2>2. b \in Seq(Seq(Ports)) /\ p \in SUBSET SUBSET Ports /\ u \in BOOLEAN
    BY <1>5
  <2>3. [s EXCEPT !.bus = b, !.prepared = p, !.stream_up = FALSE, !.kept = FALSE,
                 !.refused = u] \in SlimDai
    BY <2>2, DaiTaken, Zenon
  <2>4. ~q.stream_up /\ q.refused = u /\ q.prepared = p /\ q.bus = b
    BY <2>1, <2>2 DEF SlimDai
  <2>5. q.map = s.map /\ q.loose = s.loose /\ q.retold = s.retold
    BY <2>1, <2>2 DEF SlimDai
  <2>6. q.chs = s.chs /\ q.port_mask = s.port_mask /\ q.cut = s.cut
    BY <2>1, <2>2 DEF SlimDai
  <2> QED BY <2>1, <2>3, <2>4, <2>5, <2>6
<1> QED BY <1>5, <1>6

\* A stop takes the stream down and disables the ports on its list, as far as
\* neither bus nor writes fail.
LEMMA StopsStep ==
  ASSUME ListsInv, StreamsInv, NEW d \in Streams, NEW refused \in SUBSET {"disable", "unprepare"},
         NEW failing \in SUBSET Elems(slim_ch_list[d]), Stops(d, refused, failing)
  PROVE  StreamsInv'
<1> DEFINE s == slim_dai[d]
           l == slim_ch_list[d]
           z == taken_down(s, refused)
           loose == z.loose \union IF disable_ports_on_stop THEN failing ELSE Elems(s.map)
           q == [z EXCEPT !.pcm = "stopped", !.again = TRUE, !.loose = loose]
<1>1. /\ s.pcm = "running" /\ Becomes(d, q) /\ slim_ports_on' = ports_disabled(d, failing)
      /\ UNCHANGED slim_ctls
  BY DEF Stops, Rest
<1>2. s \in SlimDai /\ StreamOK(s, l, slim_ports_on) /\ Elems(l) \subseteq Ports
  BY StreamIs
<1>3. /\ z \in SlimDai /\ ~z.stream_up
      /\ ~z.refused /\ z.prepared # {{}} => z.prepared = {} /\ z.bus = Null
      /\ z.map = s.map /\ z.loose = s.loose /\ z.retold = s.retold
      /\ z.chs = s.chs /\ z.port_mask = s.port_mask /\ z.cut = s.cut
  BY <1>2, TakenDownIs
<1> HIDE DEF z
<1>4. loose \subseteq Ports /\ s.loose \subseteq loose
  <2>1. z.loose \subseteq Ports /\ s.map \in Seq(Ports)
    BY <1>2, <1>3 DEF SlimDai
  <2>2. Elems(s.map) \subseteq Ports
    BY <2>1 DEF Elems
  <2> QED BY <1>2, <1>3, <2>1, <2>2
<1>5. /\ slim_ports_on' \subseteq Ports
      /\ \A p : p \notin Elems(l) => (p \in slim_ports_on' <=> p \in slim_ports_on)
  BY <1>1 DEF ports_disabled, StreamsInv
<1>6. Elems(s.map) \ s.loose \subseteq Elems(l)
  BY <1>1, <1>2 DEF StreamOK, MapOK
<1>7. (Elems(s.map) \ loose) \intersect slim_ports_on' = {}
  BY <1>1, <1>4, <1>6 DEF ports_disabled
<1> HIDE DEF s, loose
<1>8. /\ q \in SlimDai /\ q.pcm = "stopped" /\ q.again /\ q.loose = loose
      /\ q.map = s.map /\ q.retold = s.retold /\ q.stream_up = z.stream_up
      /\ q.chs = s.chs /\ q.port_mask = s.port_mask /\ q.cut = s.cut
      /\ q.refused = z.refused /\ q.prepared = z.prepared /\ q.bus = z.bus
  BY <1>3, <1>4 DEF SlimDai
<1> HIDE DEF q
<1>9. MapOK(q, l)
  BY <1>4, <1>6, <1>8 DEF MapOK
<1>10. ArrayOK(q)
  BY <1>1, <1>2, <1>8 DEF StreamOK, ArrayOK, Opened
<1>11. BusOK(q)
  BY <1>3, <1>8 DEF BusOK
<1>12. PortsOK(q, slim_ports_on')
  BY <1>7, <1>8 DEF PortsOK
<1> QED BY <1>1, <1>5, <1>8, <1>9, <1>10, <1>11, <1>12, OneStream DEF StreamOK

\* A stop that keeps the stream.
LEMMA StopKept == ASSUME ListsInv, StreamsInv, trigger_stop_kept PROVE StreamsInv'
<1>1. PICK d \in Streams :
        /\ slim_dai[d].pcm = "running"
        /\ Becomes(d, [slim_dai[d] EXCEPT !.pcm = "stopped", !.again = TRUE, !.kept = TRUE,
                                          !.loose = @ \union Elems(slim_dai[d].map)])
        /\ UNCHANGED <<slim_ctls, slim_ports_on>>
  BY DEF trigger_stop_kept, Rest
<1> DEFINE s == slim_dai[d]
           l == slim_ch_list[d]
           loose == s.loose \union Elems(s.map)
           q == [s EXCEPT !.pcm = "stopped", !.again = TRUE, !.kept = TRUE, !.loose = loose]
<1>2. s \in SlimDai /\ StreamOK(s, l, slim_ports_on)
  BY StreamIs
<1>3. Becomes(d, q) /\ s.pcm = "running"
  BY <1>1
<1>4. loose \subseteq Ports /\ Elems(s.map) \ loose = {}
  <2>1. s.loose \subseteq Ports /\ s.map \in Seq(Ports)
    BY <1>2 DEF SlimDai
  <2> QED BY <2>1 DEF Elems
<1> HIDE DEF s, loose
<1>5. /\ q \in SlimDai /\ q.pcm = "stopped" /\ q.kept /\ q.again /\ q.loose = loose
      /\ q.map = s.map /\ q.retold = s.retold /\ q.chs = s.chs /\ q.port_mask = s.port_mask
      /\ q.cut = s.cut /\ q.prepared = s.prepared /\ q.bus = s.bus /\ q.stream_up = s.stream_up
  BY <1>2, <1>4 DEF SlimDai
<1> HIDE DEF q
<1>6. MapOK(q, l) /\ PortsOK(q, slim_ports_on)
  BY <1>4, <1>5 DEF MapOK, PortsOK
<1>7. ArrayOK(q)
  BY <1>2, <1>3, <1>5 DEF StreamOK, ArrayOK, Opened
<1>8. BusOK(q)
  BY <1>2, <1>3, <1>5 DEF StreamOK, BusOK
<1> QED BY <1>1, <1>3, <1>5, <1>6, <1>7, <1>8, OneStream DEF StreamsInv, StreamOK

\* A stream that does not run closes.
LEMMA ClosesStep == ASSUME ListsInv, StreamsInv, stream_closes PROVE StreamsInv'
<1>1. PICK d \in Streams :
        /\ slim_dai[d].pcm # "running"
        /\ Becomes(d, Closed(d))
        /\ UNCHANGED <<slim_ctls, slim_ports_on>>
  BY DEF stream_closes, Rest
<1>2. Closed(d) \in SlimDai /\ StreamOK(Closed(d), slim_ch_list[d], slim_ports_on)
  BY <1>1, StreamIs, ClosedOK
<1> QED BY <1>1, <1>2, OneStream DEF StreamsInv

\* Every step keeps every stream in order.
LEMMA StreamsStep == ASSUME ListsInv, StreamsInv, [SlimNext]_slim_vars PROVE StreamsInv'
<1>1. CASE slim_rx_mux_put \/ slim_tx_mixer_put
  BY <1>1, ControlsStep
<1>2. CASE UNCHANGED <<slim_ctls, slim_dai, slim_ports_on>>
  BY <1>2 DEF StreamsInv, slim_ctls
<1>3. CASE wcd9320_slim_probe \/ slim_probe_fails \/ wcd9320_slim_status \/ slim_status_fails
             \/ wcd9320_codec_probe \/ parameter_written
  BY <1>2, <1>3 DEF wcd9320_slim_probe, slim_probe_fails, wcd9320_slim_status, slim_status_fails,
                    wcd9320_codec_probe, parameter_written
<1>4. CASE UNCHANGED slim_vars
  BY <1>2, <1>4 DEF slim_vars
<1>5. CASE trigger_stop
  BY <1>5, StopsStep DEF trigger_stop
<1>6. CASE trigger_stop_fails
  BY <1>6, StopsStep DEF trigger_stop_fails
<1> QED BY <1>1, <1>3, <1>4, <1>5, <1>6, BeHwParamsStep, SetHwParamsStep, SetHwParamsFails,
           PrepareStep, StartStep, StartKept, StartFails, StopKept, ClosesStep DEF SlimNext

\* A stream runs on the channels the DSP was told of, counts as up while the bus
\* has it, is taken down when it stops, and leaves no port enabled; whatever the
\* bus refuses, up to what the parts of SlimStreams except (WcdSlim).
THEOREM SlimStreamsAlways == SlimSpec => []SlimStreams
<1>1. SlimInit => ListsInv /\ StreamsInv
  <2> SUFFICES ASSUME SlimInit PROVE StreamsInv
    BY SlimListed
  <2>1. ASSUME NEW d \in Streams
        PROVE  /\ slim_dai[d] \in SlimDai
               /\ StreamOK(slim_dai[d], slim_ch_list[d], slim_ports_on)
    <3>1. Null \in Seq(Seq(Ports)) /\ <<>> \in Seq(Ports)
      BY EmptySeq DEF Null
    <3>2. slim_dai[d] =
            [pcm |-> "closed", map |-> <<>>, chs |-> Null, port_mask |-> {}, rt |-> FALSE,
             prepared |-> {}, bus |-> Null, stream_up |-> FALSE, active |-> FALSE, again |-> FALSE,
             loose |-> {}, retold |-> FALSE, cut |-> FALSE, kept |-> FALSE, refused |-> FALSE]
      BY DEF SlimInit
    <3>3. slim_dai[d] \in SlimDai
      BY <3>1, <3>2 DEF SlimDai
    <3>4. StreamOK(slim_dai[d], slim_ch_list[d], slim_ports_on)
      BY <3>2 DEF StreamOK, MapOK, ArrayOK, BusOK, PortsOK, Opened
    <3> QED BY <3>3, <3>4
  <2> QED BY <2>1 DEF SlimInit, StreamsInv
<1>2. ListsInv /\ StreamsInv /\ [SlimNext]_slim_vars => (ListsInv /\ StreamsInv)'
  BY ListsStep, StreamsStep
<1>3. ListsInv /\ StreamsInv => SlimStreams
  <2> SUFFICES ASSUME ListsInv, StreamsInv PROVE SlimStreams
    OBVIOUS
  <2>1. \A d \in Streams : StreamOK(slim_dai[d], slim_ch_list[d], slim_ports_on)
    BY StreamIs
  <2>2. SlimStarts
    BY <2>1 DEF SlimStarts, StreamOK, ArrayOK, BusOK, PortsOK, Opened
  <2>3. SlimOnBus
    BY <2>1 DEF SlimOnBus, StreamOK, BusOK
  <2>4. SlimTakenDown
    BY <2>1 DEF SlimTakenDown, StreamOK, BusOK
  <2>5. SlimPortsOff
    BY <2>1 DEF SlimPortsOff, StreamOK, PortsOK
  <2> QED BY <2>2, <2>3, <2>4, <2>5 DEF SlimStreams
<1> QED BY <1>1, <1>2, <1>3, PTL DEF SlimSpec

-----------------------------------------------------------------------------
(* The codec's power: what the invariant says.                             *)

Phases == {"off", "rising", "on", "falling"}

Events == {"PRE_PMU", "POST_PMU", "PRE_PMD", "POST_PMD"}

BitNames == {"ldo_h", "cfilt", "micb", "adc_clk", "init", "zoh", "mute", "bypass", "rx_bias",
             "rdac", "clsh", "cp", "clsh_hph", "buck", "ncp", "comp_clk", "comp_gain", "comp",
             "rx_clk", "dmic"}

Bits == (BitNames \X Int)
          \union ({"rbias"} \X Int \X {"External", "Internal1", "Internal2", "Internal3"})

PowState ==
  [bits : SUBSET Bits, adc_users : Nat, ldo_h_users : Nat, cfilt_users : [0 .. 2 -> Nat],
   clsh : 0 .. 2, clsh_users : Nat, cp_users : Nat, comp_enabled : [0 .. 2 -> BOOLEAN],
   dec : [1 .. 10 -> 0 .. 3], undercut : SUBSET PowWidgets, moved : SUBSET (0 .. 2),
   overrun : SUBSET PowWidgets]

PowTyped == pow_wired \in PowBoards /\ pow_phase \in [pow_wired -> Phases] /\ pow \in PowState

\* The widgets of a kind that are not off.
UpOf(kind) == {w \in pow_wired : w[1] = kind /\ pow_phase[w] # "off"}

AdcsUp == {w \in UpOf("adc") : w[2] <= 4}

BiasesUp(f) == {w \in UpOf("bias") : cfilt(w[2]) = f}

\* A widget is up only while those it is powered after are on.
PowNested ==
  \A w \in pow_wired : pow_phase[w] # "off" => \A v \in Needs(w) : pow_phase[v] = "on"

LdoInv ==
  /\ pow.ldo_h_users = IF UpOf("ldo_h") = {} THEN 0 ELSE 1
  /\ <<"ldo_h", 0>> \in pow.bits <=> UpOf("ldo_h") # {}

AdcInv ==
  /\ pow.adc_users = Cardinality(AdcsUp)
  /\ <<"adc_clk", 0>> \in pow.bits <=> pow.adc_users > 0
  /\ \A n \in 1 .. 6 : <<"init", n>> \in pow.bits =>
       \E w \in pow_wired : w = <<"adc", n>> /\ pow_phase[w] = "rising"

\* A filter is on for the biases behind it, a bias while one of its outputs that
\* was not undercut is up.
BiasInv ==
  /\ \A f \in 0 .. 2 : /\ pow.cfilt_users[f] = Cardinality(BiasesUp(f))
                       /\ <<"cfilt", f>> \in pow.bits <=> pow.cfilt_users[f] > 0
  /\ \A w \in UpOf("bias") : w \notin pow.undercut => <<"micb", w[2]>> \in pow.bits
  /\ \A b \in pow.bits : b[1] = "micb" => \E w \in UpOf("bias") : w[2] = b[2]
  /\ \A b \in pow.bits : b[1] = "rbias" =>
       \E w \in UpOf("bias") : w[3] # "External" /\ b = <<"rbias", w[2], w[3]>>

DecInv ==
  \A w \in pow_wired : w[1] = "dec" =>
    /\ pow_phase[w] \in {"rising", "on"} => <<"bypass", w[2]>> \notin pow.bits
    /\ pow_phase[w] = "on" => <<"mute", w[2]>> \notin pow.bits

RxBiasInv == UpOf("rx_bias") # {} => <<"rx_bias", 0>> \in pow.bits

ClassH(n) == {<<"clsh", 0>>, <<"cp", 0>>, <<"clsh_hph", n>>, <<"buck", 0>>, <<"ncp", 0>>}

\* What the class H block has for a headphone stays.
DacInv ==
  /\ pow.clsh_users > 0 => <<"clsh", 0>> \in pow.bits
  /\ pow.cp_users > 0 => <<"cp", 0>> \in pow.bits
  /\ pow.clsh # 0 => ClassH(pow.clsh) \subseteq pow.bits
  /\ \A w \in UpOf("dac") : {<<"rdac", w[2]>>} \union ClassH(w[2]) \subseteq pow.bits

CompInv ==
  \A w \in pow_wired : w[1] = "comp" /\ w[2] \notin pow.moved =>
    CompanderBits(w[2]) \intersect pow.bits
      = IF pow_phase[w] \in {"rising", "on"} /\ pow.comp_enabled[w[2]] THEN CompanderBits(w[2]) ELSE {}

RxInv ==
  \A w \in pow_wired : w[1] = "rx" /\ w \notin pow.overrun =>
    /\ pow_phase[w] = "on" => <<"rx_clk", w[2]>> \in pow.bits
    /\ pow_phase[w] = "off" => <<"rx_clk", w[2]>> \notin pow.bits

PowInv ==
  /\ PowTyped /\ PowNested
  /\ LdoInv /\ AdcInv /\ BiasInv /\ DecInv /\ RxBiasInv /\ DacInv /\ CompInv /\ RxInv /\ DecFollows

-----------------------------------------------------------------------------
(* The widgets, and what an event of one leaves of the others.             *)

Kinds == {"ldo_h", "bias", "adc", "dsm", "dec", "rx_bias", "dac", "comp", "rx"}

\* The bits that the widgets of a kind, or the controls of the decimators, move.
BitKinds(kind) ==
  CASE kind = "ldo_h"   -> {"ldo_h"}
    [] kind = "bias"    -> {"cfilt", "micb", "rbias"}
    [] kind = "adc"     -> {"adc_clk", "init"}
    [] kind = "dsm"     -> {"zoh"}
    [] kind = "dec"     -> {"mute", "bypass"}
    [] kind = "rx_bias" -> {"rx_bias"}
    [] kind = "dac"     -> {"rdac", "clsh", "cp", "clsh_hph", "buck", "ncp"}
    [] kind = "comp"    -> {"comp_clk", "comp_gain", "comp"}
    [] kind = "rx"      -> {"rx_clk"}
    [] kind = "dmic"    -> {"dmic"}

From(event) ==
  CASE event = "PRE_PMU" -> "off" [] event = "POST_PMU" -> "rising"
    [] event = "PRE_PMD" -> "on"  [] event = "POST_PMD" -> "falling"

To(event) ==
  CASE event = "PRE_PMU" -> "rising"  [] event = "POST_PMU" -> "on"
    [] event = "PRE_PMD" -> "falling" [] event = "POST_PMD" -> "off"

\* DAPM's part of an event: the widget's own register, before the handler.
Written(w, event, r) ==
  /\ r \in PowState
  /\ r.bits = CASE event = "POST_PMU" -> pow.bits \union RegisterOf(w)
                [] event = "POST_PMD" -> pow.bits \ RegisterOf(w)
                [] OTHER -> pow.bits
  /\ r.overrun = IF event = "POST_PMU" THEN pow.overrun \ {w} ELSE pow.overrun
  /\ r.adc_users = pow.adc_users /\ r.ldo_h_users = pow.ldo_h_users
  /\ r.cfilt_users = pow.cfilt_users /\ r.undercut = pow.undercut
  /\ r.clsh = pow.clsh /\ r.clsh_users = pow.clsh_users /\ r.cp_users = pow.cp_users
  /\ r.comp_enabled = pow.comp_enabled /\ r.moved = pow.moved /\ r.dec = pow.dec

Turned(w, event) ==
  /\ w \in pow_wired /\ event \in Events /\ pow_wired' = pow_wired
  /\ pow_phase[w] = From(event)
  /\ pow_phase' = [pow_phase EXCEPT ![w] = To(event)]

\* A handler for widgets of a kind, or a control, moves only what is theirs.
MovesOnly(kind, r) ==
  /\ \A b : b[1] \notin BitKinds(kind) => (b \in pow'.bits <=> b \in r.bits)
  /\ kind # "ldo_h" => pow'.ldo_h_users = r.ldo_h_users
  /\ kind # "bias" => pow'.cfilt_users = r.cfilt_users /\ pow'.undercut = r.undercut
  /\ kind # "adc" => pow'.adc_users = r.adc_users
  /\ kind # "dac" => pow'.clsh = r.clsh /\ pow'.clsh_users = r.clsh_users /\ pow'.cp_users = r.cp_users
  /\ kind # "comp" => pow'.comp_enabled = r.comp_enabled /\ pow'.moved = r.moved
  /\ kind # "dmic" => pow'.dec = r.dec
  /\ kind # "rx" => pow'.overrun = r.overrun

\* Nothing of a kind has moved.
Same(kind) ==
  /\ pow_wired' = pow_wired
  /\ \A w \in pow_wired : w[1] = kind => pow_phase'[w] = pow_phase[w]
  /\ \A b : b[1] \in BitKinds(kind) => (b \in pow'.bits <=> b \in pow.bits)
  /\ kind = "ldo_h" => pow'.ldo_h_users = pow.ldo_h_users
  /\ kind = "bias" => pow'.cfilt_users = pow.cfilt_users /\ pow'.undercut = pow.undercut
  /\ kind = "adc" => pow'.adc_users = pow.adc_users
  /\ kind = "dac" => pow'.clsh = pow.clsh /\ pow'.clsh_users = pow.clsh_users /\ pow'.cp_users = pow.cp_users
  /\ kind = "comp" => pow'.comp_enabled = pow.comp_enabled /\ pow'.moved = pow.moved
  /\ kind = "dmic" => pow'.dec = pow.dec
  /\ kind = "rx" => \A w \in pow_wired : w[1] = "rx" => (w \in pow'.overrun <=> w \in pow.overrun)

\* The widgets there are.
LEMMA WidgetIs ==
  ASSUME NEW w \in PowWidgets
  PROVE  /\ w[1] \in Kinds
         /\ w[1] \in {"ldo_h", "rx_bias", "dsm"} => w = <<w[1], 0>>
         /\ w[1] = "adc" => w = <<"adc", w[2]>> /\ w[2] \in 1 .. 6
         /\ w[1] = "dec" => w = <<"dec", w[2]>> /\ w[2] \in 1 .. 10
         /\ w[1] = "dac" => w = <<"dac", w[2]>> /\ w[2] \in 1 .. 2
         /\ w[1] = "rx" => w = <<"rx", w[2]>> /\ w[2] \in 1 .. 7
         /\ w[1] = "comp" => w = <<"comp", w[2]>> /\ w[2] \in 0 .. 2
         /\ w[1] = "bias" => /\ w = <<"bias", w[2], w[3]>> /\ w[2] \in 1 .. 4
                             /\ w[3] \in {"External", "Internal1", "Internal2", "Internal3"}
BY DEF PowWidgets, Kinds

\* The widgets in play are finitely many of them.
LEMMA WiredIs ==
  ASSUME PowTyped PROVE pow_wired \subseteq PowWidgets /\ IsFiniteSet(pow_wired)
<1>1. pow_wired \subseteq PowWidgets
  BY PowAssumption DEF PowTyped
<1>2. IsFiniteSet(PowWidgets)
  <2>1. /\ IsFiniteSet(1 .. 4) /\ IsFiniteSet(1 .. 6) /\ IsFiniteSet(1 .. 10)
        /\ IsFiniteSet(1 .. 2) /\ IsFiniteSet(1 .. 7) /\ IsFiniteSet(0 .. 2)
    <3>1. \A a, b \in Int : IsFiniteSet(a .. b)
      BY FS_Interval
    <3>2. {0, 1, 2, 4, 6, 7, 10} \subseteq Int
      OBVIOUS
    <3> QED BY <3>1, <3>2, Zenon
  <2>2. \A x, y, z : IsFiniteSet({x, y, z}) /\ IsFiniteSet({x})
    <3> TAKE x, y, z
    <3>1. IsFiniteSet({x}) /\ IsFiniteSet({y}) /\ IsFiniteSet({z})
      BY FS_Singleton
    <3>2. IsFiniteSet({x} \union {y}) /\ IsFiniteSet(({x} \union {y}) \union {z})
      BY <3>1, FS_Union
    <3>3. ({x} \union {y}) \union {z} = {x, y, z}
      OBVIOUS
    <3> QED BY <3>1, <3>2, <3>3
  <2> DEFINE outs == {"External", "Internal1", "Internal2", "Internal3"}
             trip == {"bias"} \X (1 .. 4) \X outs
  <2>3. \A k, s : IsFiniteSet(s) => IsFiniteSet({k} \X s)
    BY <2>2, FS_Product
  <2>4. IsFiniteSet(trip)
    <3>1. IsFiniteSet(outs)
      <4>1. IsFiniteSet({"External", "Internal1", "Internal2"} \union {"Internal3"})
        BY <2>2, FS_Union
      <4>2. outs = {"External", "Internal1", "Internal2"} \union {"Internal3"}
        OBVIOUS
      <4> QED BY <4>1, <4>2
    <3> HIDE DEF outs, trip
    <3>2. IsFiniteSet((1 .. 4) \X outs)
      <4>1. IsFiniteSet(1 .. 4)
        BY <2>1
      <4> QED BY <3>1, <4>1, FS_Product
    <3> DEFINE f == [c \in (1 .. 4) \X outs |-> <<"bias", c[1], c[2]>>]
    <3>3. trip = {f[c] : c \in DOMAIN f}
      <4>1. \A t \in trip : <<t[2], t[3]>> \in DOMAIN f /\ f[<<t[2], t[3]>>] = t
        BY DEF trip
      <4>2. \A c \in DOMAIN f : f[c] \in trip
        BY DEF trip
      <4> HIDE DEF f
      <4> QED BY <4>1, <4>2
    <3>4. f \in Surjection((1 .. 4) \X outs, trip)
      BY <3>3 DEF Surjection
    <3> QED BY <3>2, <3>4, FS_Surjection
  <2> HIDE DEF trip
  <2>5. /\ IsFiniteSet({"adc"} \X (1 .. 6)) /\ IsFiniteSet({"dec"} \X (1 .. 10))
        /\ IsFiniteSet({"dac"} \X (1 .. 2)) /\ IsFiniteSet({"rx"} \X (1 .. 7))
        /\ IsFiniteSet({"comp"} \X (0 .. 2))
        /\ IsFiniteSet({<<"ldo_h", 0>>, <<"rx_bias", 0>>, <<"dsm", 0>>})
    <3>1. /\ IsFiniteSet({"adc"} \X (1 .. 6)) /\ IsFiniteSet({"dec"} \X (1 .. 10))
          /\ IsFiniteSet({"dac"} \X (1 .. 2)) /\ IsFiniteSet({"rx"} \X (1 .. 7))
          /\ IsFiniteSet({"comp"} \X (0 .. 2))
      <4>1. /\ IsFiniteSet(1 .. 6) /\ IsFiniteSet(1 .. 10) /\ IsFiniteSet(1 .. 2)
            /\ IsFiniteSet(1 .. 7) /\ IsFiniteSet(0 .. 2)
        BY <2>1
      <4> QED BY <2>3, <4>1
    <3>2. IsFiniteSet({<<"ldo_h", 0>>, <<"rx_bias", 0>>, <<"dsm", 0>>})
      BY <2>2
    <3> QED BY <3>1, <3>2
  <2>6. \A s, t : IsFiniteSet(s) /\ IsFiniteSet(t) => IsFiniteSet(s \union t)
    BY FS_Union
  <2> QED BY <2>4, <2>5, <2>6 DEF PowWidgets, trip
<1> QED BY <1>1, <1>2, FS_Subset

\* A step of a widget is an event of it.
LEMMA WidgetEvent ==
  ASSUME PowTyped, pre_pmu \/ post_pmu \/ pre_pmd \/ post_pmd
  PROVE  \E w \in pow_wired, event \in Events, r \in PowState :
           Turned(w, event) /\ Written(w, event, r) /\ pow' = Event(w, event, r)
<1> DEFINE Goal == \E w \in pow_wired, event \in Events, r \in PowState :
                     Turned(w, event) /\ Written(w, event, r) /\ pow' = Event(w, event, r)
<1>1. CASE pre_pmu
  <2>1. PICK w \in pow_wired : WidgetStep(w, "off", "rising", Event(w, "PRE_PMU", pow))
    BY <1>1 DEF pre_pmu
  <2>2. Turned(w, "PRE_PMU") /\ pow' = Event(w, "PRE_PMU", pow)
    BY <2>1 DEF WidgetStep, Turned, Events, From, To
  <2>3. Written(w, "PRE_PMU", pow)
    BY DEF Written, PowTyped
  <2> QED BY <2>2, <2>3 DEF PowTyped, Events
<1>2. CASE pre_pmd
  <2>1. PICK w \in pow_wired : WidgetStep(w, "on", "falling", Event(w, "PRE_PMD", pow))
    BY <1>2 DEF pre_pmd
  <2>2. Turned(w, "PRE_PMD") /\ pow' = Event(w, "PRE_PMD", pow)
    BY <2>1 DEF WidgetStep, Turned, Events, From, To
  <2>3. Written(w, "PRE_PMD", pow)
    BY DEF Written, PowTyped
  <2> QED BY <2>2, <2>3 DEF PowTyped, Events
<1>3. ASSUME NEW w \in pow_wired PROVE RegisterOf(w) \subseteq Bits
  <2>1. CASE w[1] = "rx"
    <3>1. w[2] \in Int
      BY <2>1, WiredIs, WidgetIs
    <3>2. RegisterOf(w) = {<<"rx_clk", w[2]>>}
      BY <2>1 DEF RegisterOf
    <3>3. <<"rx_clk", w[2]>> \in BitNames \X Int
      BY <3>1 DEF BitNames
    <3> QED BY <3>2, <3>3 DEF Bits
  <2>2. CASE w[1] # "rx"
    BY <2>2 DEF RegisterOf
  <2> QED BY <2>1, <2>2
<1>4. CASE post_pmu
  <2>1. PICK w \in pow_wired :
          WidgetStep(w, "rising", "on",
            Event(w, "POST_PMU", [pow EXCEPT !.bits = @ \union RegisterOf(w), !.overrun = @ \ {w}]))
    BY <1>4 DEF post_pmu
  <2> DEFINE bits == pow.bits \union RegisterOf(w)
             overrun == pow.overrun \ {w}
             r == [pow EXCEPT !.bits = bits, !.overrun = overrun]
  <2>2. Turned(w, "POST_PMU") /\ pow' = Event(w, "POST_PMU", r)
    BY <2>1 DEF WidgetStep, Turned, Events, From, To
  <2>3. bits \in SUBSET Bits /\ overrun \in SUBSET PowWidgets /\ pow \in PowState
    BY <1>3 DEF PowTyped, PowState
  <2> HIDE DEF bits, overrun
  <2>4. /\ r \in PowState /\ r.bits = bits /\ r.overrun = overrun
        /\ r.adc_users = pow.adc_users /\ r.ldo_h_users = pow.ldo_h_users
        /\ r.cfilt_users = pow.cfilt_users /\ r.undercut = pow.undercut
        /\ r.clsh = pow.clsh /\ r.clsh_users = pow.clsh_users /\ r.cp_users = pow.cp_users
        /\ r.comp_enabled = pow.comp_enabled /\ r.moved = pow.moved /\ r.dec = pow.dec
    BY <2>3 DEF PowState
  <2> HIDE DEF r
  <2>5. Written(w, "POST_PMU", r)
    BY <2>4 DEF Written, bits, overrun
  <2> QED BY <2>2, <2>4, <2>5 DEF Events
<1>5. CASE post_pmd
  <2>1. PICK w \in pow_wired :
          WidgetStep(w, "falling", "off",
            Event(w, "POST_PMD", [pow EXCEPT !.bits = @ \ RegisterOf(w)]))
    BY <1>5 DEF post_pmd
  <2> DEFINE bits == pow.bits \ RegisterOf(w)
             r == [pow EXCEPT !.bits = bits]
  <2>2. Turned(w, "POST_PMD") /\ pow' = Event(w, "POST_PMD", r)
    BY <2>1 DEF WidgetStep, Turned, Events, From, To
  <2>3. bits \in SUBSET Bits /\ pow \in PowState
    BY DEF PowTyped, PowState
  <2> HIDE DEF bits
  <2>4. /\ r \in PowState /\ r.bits = bits /\ r.overrun = pow.overrun
        /\ r.adc_users = pow.adc_users /\ r.ldo_h_users = pow.ldo_h_users
        /\ r.cfilt_users = pow.cfilt_users /\ r.undercut = pow.undercut
        /\ r.clsh = pow.clsh /\ r.clsh_users = pow.clsh_users /\ r.cp_users = pow.cp_users
        /\ r.comp_enabled = pow.comp_enabled /\ r.moved = pow.moved /\ r.dec = pow.dec
    BY <2>3 DEF PowState
  <2> HIDE DEF r
  <2>5. Written(w, "POST_PMD", r)
    BY <2>4 DEF Written, bits
  <2> QED BY <2>2, <2>4, <2>5 DEF Events
<1> QED BY <1>1, <1>2, <1>4, <1>5

\* No bit belongs to two kinds.
LEMMA KindsApart ==
  ASSUME NEW k \in Kinds \union {"dmic"}, NEW m \in Kinds \union {"dmic"}, k # m
  PROVE  BitKinds(k) \intersect BitKinds(m) = {}
BY DEF Kinds, BitKinds

\* An event of a widget moves nothing of another kind.
LEMMA OthersSame ==
  ASSUME PowTyped, NEW w \in pow_wired, NEW event, NEW r, Turned(w, event), Written(w, event, r),
         MovesOnly(w[1], r), NEW kind \in Kinds \union {"dmic"}, kind # w[1]
  PROVE  Same(kind)
<1>1. w[1] \in Kinds
  BY WiredIs, WidgetIs
<1>2. \A v \in pow_wired : v[1] = kind => v # w /\ pow_phase'[v] = pow_phase[v]
  BY DEF Turned, PowTyped
<1>3. \A b : b[1] \in BitKinds(kind) => (b \in pow'.bits <=> b \in r.bits)
  BY <1>1, KindsApart DEF MovesOnly
<1>4. \A b : b[1] \in BitKinds(kind) => (b \in r.bits <=> b \in pow.bits)
  <2>1. CASE w[1] # "rx"
    BY <2>1 DEF Written, RegisterOf, Turned, Events
  <2>2. CASE w[1] = "rx"
    <3>1. "rx_clk" \notin BitKinds(kind)
      BY <2>2 DEF Kinds, BitKinds
    <3>2. \A b : b[1] \in BitKinds(kind) => b \notin RegisterOf(w)
      BY <3>1 DEF RegisterOf
    <3> QED BY <3>2 DEF Written, Turned, Events
  <2> QED BY <2>1, <2>2
<1>5. kind = "rx" => \A v \in pow_wired : v[1] = "rx" => (v \in pow'.overrun <=> v \in pow.overrun)
  BY <1>2 DEF MovesOnly, Written
<1>6. pow_wired' = pow_wired
  BY DEF Turned
<1>7. \A b : b[1] \in BitKinds(kind) => (b \in pow'.bits <=> b \in pow.bits)
  BY <1>3, <1>4
<1>8. /\ kind = "ldo_h" => pow'.ldo_h_users = pow.ldo_h_users
      /\ kind = "bias" => pow'.cfilt_users = pow.cfilt_users /\ pow'.undercut = pow.undercut
      /\ kind = "adc" => pow'.adc_users = pow.adc_users
  BY DEF MovesOnly, Written
<1>9. /\ kind = "dac" => pow'.clsh = pow.clsh /\ pow'.clsh_users = pow.clsh_users /\ pow'.cp_users = pow.cp_users
      /\ kind = "comp" => pow'.comp_enabled = pow.comp_enabled /\ pow'.moved = pow.moved
      /\ kind = "dmic" => pow'.dec = pow.dec
  BY <1>1 DEF MovesOnly, Written, Kinds
<1> QED BY <1>2, <1>5, <1>6, <1>7, <1>8, <1>9 DEF Same

\* What is said of a kind stays while nothing of it moves.
LEMMA UpKept == ASSUME NEW kind, Same(kind) PROVE UpOf(kind)' = UpOf(kind)
BY DEF Same, UpOf

\* Nothing of the regulator has moved, and what was so of it still is.
LEMMA LdoKept == ASSUME Same("ldo_h"), LdoInv PROVE LdoInv'
<1>1. UpOf("ldo_h")' = UpOf("ldo_h")
  BY UpKept
<1>2. <<"ldo_h", 0>> \in pow'.bits <=> <<"ldo_h", 0>> \in pow.bits
  BY DEF Same, BitKinds
<1> QED BY <1>1, <1>2 DEF LdoInv, Same

\* Nothing of the converters has moved, and what was so of it still is.
LEMMA AdcKept == ASSUME Same("adc"), AdcInv PROVE AdcInv'
<1>1. UpOf("adc")' = UpOf("adc")
  BY UpKept
<1>2. AdcsUp' = AdcsUp
  BY <1>1 DEF AdcsUp
<1>3. /\ <<"adc_clk", 0>> \in pow'.bits <=> <<"adc_clk", 0>> \in pow.bits
      /\ \A n : <<"init", n>> \in pow'.bits <=> <<"init", n>> \in pow.bits
  BY DEF Same, BitKinds
<1>4. \A n : \A w \in pow_wired : w = <<"adc", n>> => pow_phase'[w] = pow_phase[w]
  BY DEF Same
<1> QED BY <1>2, <1>3, <1>4 DEF AdcInv, Same

\* Nothing of the biases has moved, and what was so of it still is.
LEMMA BiasKept == ASSUME Same("bias"), BiasInv PROVE BiasInv'
<1>1. UpOf("bias")' = UpOf("bias")
  BY UpKept
<1>2. \A f : BiasesUp(f)' = BiasesUp(f)
  BY <1>1 DEF BiasesUp
<1>3. /\ \A f : <<"cfilt", f>> \in pow'.bits <=> <<"cfilt", f>> \in pow.bits
      /\ \A n : <<"micb", n>> \in pow'.bits <=> <<"micb", n>> \in pow.bits
      /\ \A b : b[1] \in {"micb", "rbias"} => (b \in pow'.bits <=> b \in pow.bits)
  BY DEF Same, BitKinds
<1>4. pow'.cfilt_users = pow.cfilt_users /\ pow'.undercut = pow.undercut
  BY DEF Same
<1> QED BY <1>1, <1>2, <1>3, <1>4 DEF BiasInv

\* Nothing of the decimators has moved, and what was so of it still is.
LEMMA DecKept == ASSUME Same("dec"), DecInv PROVE DecInv'
<1>1. \A n : /\ <<"mute", n>> \in pow'.bits <=> <<"mute", n>> \in pow.bits
             /\ <<"bypass", n>> \in pow'.bits <=> <<"bypass", n>> \in pow.bits
  BY DEF Same, BitKinds
<1> QED BY <1>1 DEF DecInv, Same

\* Nothing of the headphones' bias has moved, and what was so of it still is.
LEMMA RxBiasKept == ASSUME Same("rx_bias"), RxBiasInv PROVE RxBiasInv'
<1>1. UpOf("rx_bias")' = UpOf("rx_bias")
  BY UpKept
<1>2. <<"rx_bias", 0>> \in pow'.bits <=> <<"rx_bias", 0>> \in pow.bits
  BY DEF Same, BitKinds
<1> QED BY <1>1, <1>2 DEF RxBiasInv

\* Nothing of the class H block has moved, and what was so of it still is.
LEMMA DacKept == ASSUME Same("dac"), DacInv PROVE DacInv'
<1>1. UpOf("dac")' = UpOf("dac")
  BY UpKept
<1>2. /\ \A n : <<"rdac", n>> \in pow'.bits <=> <<"rdac", n>> \in pow.bits
      /\ \A n : <<"clsh_hph", n>> \in pow'.bits <=> <<"clsh_hph", n>> \in pow.bits
      /\ \A n : <<"clsh", n>> \in pow'.bits <=> <<"clsh", n>> \in pow.bits
      /\ \A n : <<"cp", n>> \in pow'.bits <=> <<"cp", n>> \in pow.bits
      /\ \A n : <<"buck", n>> \in pow'.bits <=> <<"buck", n>> \in pow.bits
      /\ \A n : <<"ncp", n>> \in pow'.bits <=> <<"ncp", n>> \in pow.bits
  BY DEF Same, BitKinds
<1>3. pow'.clsh = pow.clsh /\ pow'.clsh_users = pow.clsh_users /\ pow'.cp_users = pow.cp_users
  BY DEF Same
<1> QED BY <1>1, <1>2, <1>3 DEF DacInv, ClassH

\* Nothing of the companders has moved, and what was so of it still is.
LEMMA CompKept == ASSUME Same("comp"), CompInv PROVE CompInv'
<1>1. \A c : CompanderBits(c) \intersect pow'.bits = CompanderBits(c) \intersect pow.bits
  BY DEF Same, BitKinds, CompanderBits
<1> QED BY <1>1 DEF CompInv, Same

\* Nothing of the interpolators has moved, and what was so of it still is.
LEMMA RxKept == ASSUME Same("rx"), RxInv PROVE RxInv'
<1>1. \A n : <<"rx_clk", n>> \in pow'.bits <=> <<"rx_clk", n>> \in pow.bits
  BY DEF Same, BitKinds
<1> QED BY <1>1 DEF RxInv, Same

\* Nothing of the decimators' inputs has moved, and what was so of it still is.
LEMMA DecFollowsKept == ASSUME Same("dmic"), DecFollows PROVE DecFollows'
<1>1. \A n : <<"dmic", n>> \in pow'.bits <=> <<"dmic", n>> \in pow.bits
  BY DEF Same, BitKinds
<1> QED BY <1>1 DEF DecFollows, Same

-----------------------------------------------------------------------------
(* One event of each kind of widget.                                       *)

\* The phase of a widget that turns; the others keep theirs.
LEMMA TurnedIs ==
  ASSUME PowTyped, NEW w, NEW event, Turned(w, event)
  PROVE  /\ w \in pow_wired /\ w \in PowWidgets /\ event \in Events /\ pow_wired' = pow_wired
         /\ pow_phase' \in [pow_wired -> Phases]
         /\ pow_phase[w] = From(event) /\ pow_phase'[w] = To(event)
         /\ \A v \in pow_wired : v # w => pow_phase'[v] = pow_phase[v]
<1>1. event \in Events => To(event) \in Phases
  BY DEF Events, To, Phases
<1> QED BY <1>1, WiredIs DEF Turned, PowTyped

\* Which widgets of its kind are up after it.
LEMMA UpTurns ==
  ASSUME PowTyped, NEW w, NEW event, Turned(w, event)
  PROVE  /\ event = "PRE_PMU" => w \notin UpOf(w[1]) /\ UpOf(w[1])' = UpOf(w[1]) \union {w}
         /\ event = "POST_PMD" => w \in UpOf(w[1]) /\ UpOf(w[1])' = UpOf(w[1]) \ {w}
         /\ event \in {"POST_PMU", "PRE_PMD"} => w \in UpOf(w[1]) /\ UpOf(w[1])' = UpOf(w[1])
<1>1. /\ event = "PRE_PMU" => pow_phase[w] = "off" /\ pow_phase'[w] = "rising"
      /\ event = "POST_PMD" => pow_phase[w] = "falling" /\ pow_phase'[w] = "off"
      /\ event = "POST_PMU" => pow_phase[w] = "rising" /\ pow_phase'[w] = "on"
      /\ event = "PRE_PMD" => pow_phase[w] = "on" /\ pow_phase'[w] = "falling"
  BY TurnedIs DEF From, To
<1> QED BY <1>1, TurnedIs DEF UpOf

\* The bits a handler starts from are the bits before, for all but an interpolator.
LEMMA WrittenIs ==
  ASSUME NEW w, NEW event \in Events, NEW r, Written(w, event, r), w[1] # "rx"
  PROVE  r \in PowState /\ r.bits = pow.bits
BY DEF Written, RegisterOf, Events

\* The regulator has one widget, so its count is one or none.
LEMMA LdoStep ==
  ASSUME PowTyped, LdoInv, NEW w, NEW event, NEW r, Turned(w, event), Written(w, event, r),
         pow' = Event(w, event, r), w[1] = "ldo_h"
  PROVE  pow' \in PowState /\ MovesOnly("ldo_h", r) /\ LdoInv'
<1>1. /\ event \in Events /\ w = <<"ldo_h", 0>> /\ r \in PowState /\ r.bits = pow.bits
      /\ r.ldo_h_users = pow.ldo_h_users
  <2>1. event \in Events /\ w \in PowWidgets
    BY TurnedIs
  <2>2. w = <<"ldo_h", 0>>
    BY <2>1, WidgetIs
  <2>3. r \in PowState /\ r.bits = pow.bits
    BY <2>1, WrittenIs
  <2>4. r.ldo_h_users = pow.ldo_h_users
    BY DEF Written
  <2> QED BY <2>1, <2>2, <2>3, <2>4
<1>2. \A v \in UpOf("ldo_h") : v = w
  BY <1>1, WiredIs, WidgetIs DEF UpOf
<1>3. pow' = taiko_codec_enable_ldo_h(event, r)
  BY DEF Event
<1>4. <<"ldo_h", 0>> \in Bits
  BY DEF Bits, BitNames
<1>5. CASE event = "PRE_PMU"
  <2>1. UpOf("ldo_h") = {} /\ UpOf("ldo_h")' = {w}
    BY <1>2, <1>5, UpTurns
  <2>2. pow.ldo_h_users = 0 /\ <<"ldo_h", 0>> \notin pow.bits
    BY <2>1 DEF LdoInv
  <2> DEFINE bits == pow.bits \union {<<"ldo_h", 0>>}
             q == [r EXCEPT !.ldo_h_users = 1, !.bits = bits]
  <2>3. pow' = q
    BY <1>1, <1>3, <1>5, <2>2 DEF taiko_codec_enable_ldo_h, Counted
  <2>4. bits \in SUBSET Bits
    BY <1>4 DEF PowTyped, PowState
  <2> HIDE DEF bits
  <2>5. /\ q \in PowState /\ q.ldo_h_users = 1 /\ q.bits = bits
        /\ q.cfilt_users = r.cfilt_users /\ q.undercut = r.undercut /\ q.adc_users = r.adc_users
        /\ q.clsh = r.clsh /\ q.clsh_users = r.clsh_users /\ q.cp_users = r.cp_users
        /\ q.comp_enabled = r.comp_enabled /\ q.moved = r.moved /\ q.dec = r.dec
        /\ q.overrun = r.overrun
    BY <1>1, <2>4 DEF PowState
  <2> HIDE DEF q
  <2>6. MovesOnly("ldo_h", r)
    BY <1>1, <2>3, <2>5 DEF MovesOnly, BitKinds, bits
  <2> QED BY <2>1, <2>3, <2>5, <2>6 DEF LdoInv, bits
<1>6. CASE event = "POST_PMD"
  <2>1. UpOf("ldo_h") = {w} /\ UpOf("ldo_h")' = {}
    BY <1>2, <1>6, UpTurns
  <2>2. pow.ldo_h_users = 1
    BY <2>1 DEF LdoInv
  <2> DEFINE bits == pow.bits \ {<<"ldo_h", 0>>}
             q == [r EXCEPT !.ldo_h_users = 0, !.bits = bits]
  <2>3. pow' = q
    BY <1>1, <1>3, <1>6, <2>2 DEF taiko_codec_enable_ldo_h, Dropped
  <2>4. bits \in SUBSET Bits
    BY DEF PowTyped, PowState
  <2> HIDE DEF bits
  <2>5. /\ q \in PowState /\ q.ldo_h_users = 0 /\ q.bits = bits
        /\ q.cfilt_users = r.cfilt_users /\ q.undercut = r.undercut /\ q.adc_users = r.adc_users
        /\ q.clsh = r.clsh /\ q.clsh_users = r.clsh_users /\ q.cp_users = r.cp_users
        /\ q.comp_enabled = r.comp_enabled /\ q.moved = r.moved /\ q.dec = r.dec
        /\ q.overrun = r.overrun
    BY <1>1, <2>4 DEF PowState
  <2> HIDE DEF q
  <2>6. MovesOnly("ldo_h", r)
    BY <1>1, <2>3, <2>5 DEF MovesOnly, BitKinds, bits
  <2> QED BY <2>1, <2>3, <2>5, <2>6 DEF LdoInv, bits
<1>7. CASE event \in {"POST_PMU", "PRE_PMD"}
  <2>1. pow' = r
    BY <1>3, <1>7 DEF taiko_codec_enable_ldo_h
  <2>2. UpOf("ldo_h")' = UpOf("ldo_h")
    BY <1>7, UpTurns
  <2> QED BY <1>1, <2>1, <2>2 DEF MovesOnly, LdoInv
<1> QED BY <1>1, <1>5, <1>6, <1>7 DEF Events

\* One user more or less: the clock or the filter they share is on while there
\* is one.
LEMMA OneMore ==
  ASSUME NEW up, IsFiniteSet(up), NEW w, w \notin up, NEW bits, NEW bit,
         bit \in bits <=> Cardinality(up) > 0
  PROVE  /\ Cardinality(up \union {w}) = Cardinality(up) + 1
         /\ Cardinality(up) \in Nat /\ Cardinality(up) + 1 > 0
         /\ Counted(Cardinality(up) = 0, bits, bit) = bits \union {bit}
<1>1. Cardinality(up \union {w}) = Cardinality(up) + 1 /\ Cardinality(up) \in Nat
  BY FS_AddElement, FS_CardinalityType
<1>2. CASE Cardinality(up) = 0
  BY <1>1, <1>2 DEF Counted
<1>3. CASE Cardinality(up) # 0
  <2>1. bit \in bits
    BY <1>1, <1>3
  <2>2. bits \union {bit} = bits
    BY <2>1
  <2> QED BY <1>1, <1>3, <2>2 DEF Counted
<1> QED BY <1>2, <1>3

\* One user less: the last one switches it off.
LEMMA OneLess ==
  ASSUME NEW up, IsFiniteSet(up), NEW w \in up, NEW bits, NEW bit,
         bit \in bits <=> Cardinality(up) > 0
  PROVE  /\ Cardinality(up \ {w}) = (IF Cardinality(up) > 0 THEN Cardinality(up) - 1 ELSE 0)
         /\ Cardinality(up \ {w}) \in Nat
         /\ bit \in Dropped(Cardinality(up) = 1, bits, bit) <=> Cardinality(up \ {w}) > 0
         /\ Dropped(Cardinality(up) = 1, bits, bit) \subseteq bits
         /\ \A b : b # bit => (b \in Dropped(Cardinality(up) = 1, bits, bit) <=> b \in bits)
<1>1. Cardinality(up \ {w}) = Cardinality(up) - 1 /\ Cardinality(up) \in Nat
      /\ Cardinality(up \ {w}) \in Nat
  <2>1. IsFiniteSet(up \ {w}) /\ Cardinality(up \ {w}) = Cardinality(up) - 1
    BY FS_RemoveElement
  <2> QED BY <2>1, FS_CardinalityType
<1>2. Cardinality(up) > 0
  BY <1>1
<1>3. bit \in bits
  BY <1>2
<1> QED BY <1>1, <1>2, <1>3 DEF Dropped

\* A handler that moves bits only.
LEMMA BitsMoved ==
  ASSUME NEW r \in PowState, NEW bits \in SUBSET Bits, NEW q, q = [r EXCEPT !.bits = bits]
  PROVE  /\ q \in PowState /\ q.bits = bits
         /\ q.ldo_h_users = r.ldo_h_users /\ q.adc_users = r.adc_users
         /\ q.cfilt_users = r.cfilt_users /\ q.undercut = r.undercut
         /\ q.clsh = r.clsh /\ q.clsh_users = r.clsh_users /\ q.cp_users = r.cp_users
         /\ q.comp_enabled = r.comp_enabled /\ q.moved = r.moved /\ q.dec = r.dec
         /\ q.overrun = r.overrun
BY DEF PowState

\* The clock of the converters 1 to 4 has its users counted.
LEMMA AdcStep ==
  ASSUME PowTyped, AdcInv, NEW w, NEW event, NEW r, Turned(w, event), Written(w, event, r),
         pow' = Event(w, event, r), w[1] = "adc"
  PROVE  pow' \in PowState /\ MovesOnly("adc", r) /\ AdcInv'
<1> DEFINE n == w[2]
           clk == <<"adc_clk", 0>>
           init == <<"init", n>>
<1>1. /\ event \in Events /\ w \in pow_wired /\ w = <<"adc", n>> /\ n \in 1 .. 6
      /\ r \in PowState /\ r.bits = pow.bits /\ r.adc_users = pow.adc_users
  <2>1. event \in Events /\ w \in pow_wired /\ w \in PowWidgets
    BY TurnedIs
  <2>2. w = <<"adc", n>> /\ n \in 1 .. 6
    BY <2>1, WidgetIs
  <2>3. r \in PowState /\ r.bits = pow.bits
    BY <2>1, WrittenIs
  <2>4. r.adc_users = pow.adc_users
    BY DEF Written
  <2> QED BY <2>1, <2>2, <2>3, <2>4
<1>2. /\ clk \in Bits /\ init \in Bits /\ pow.bits \subseteq Bits
      /\ IsFiniteSet(AdcsUp)
  <2>1. clk \in Bits /\ init \in Bits
    BY <1>1 DEF Bits, BitNames
  <2>2. AdcsUp \subseteq pow_wired
    BY DEF AdcsUp, UpOf
  <2> QED BY <2>1, <2>2, WiredIs, FS_Subset DEF PowTyped, PowState
<1>3. pow' = taiko_codec_enable_adc(n, event, r)
  BY DEF Event
<1>4. pow.adc_users = Cardinality(AdcsUp) /\ (clk \in pow.bits <=> Cardinality(AdcsUp) > 0)
  BY DEF AdcInv
<1>5. /\ \A v \in pow_wired : v # w => pow_phase'[v] = pow_phase[v]
      /\ pow_phase[w] = From(event) /\ pow_phase'[w] = To(event) /\ pow_wired' = pow_wired
  BY TurnedIs
\* The converters that do not turn keep their initialisation bits.
<1>6. ASSUME NEW m \in 1 .. 6, m # n, <<"init", m>> \in pow.bits
      PROVE  \E v \in pow_wired : v = <<"adc", m>> /\ pow_phase'[v] = "rising"
  <2>1. PICK v \in pow_wired : v = <<"adc", m>> /\ pow_phase[v] = "rising"
    BY <1>6 DEF AdcInv
  <2>2. v # w
    BY <1>1, <1>6, <2>1
  <2> QED BY <1>5, <2>1, <2>2
<1>7. CASE event = "PRE_PMU" /\ n <= 4
  <2>1. w \notin AdcsUp /\ AdcsUp' = AdcsUp \union {w}
    BY <1>7, UpTurns DEF AdcsUp
  <2>2. /\ Cardinality(AdcsUp') = Cardinality(AdcsUp) + 1
        /\ Cardinality(AdcsUp) \in Nat /\ Cardinality(AdcsUp) + 1 > 0
        /\ Counted(Cardinality(AdcsUp) = 0, pow.bits, clk) = pow.bits \union {clk}
    BY <1>2, <1>4, <2>1, OneMore
  <2> DEFINE bits == pow.bits \union {clk} \union {init}
             users == Cardinality(AdcsUp) + 1
             q == [r EXCEPT !.adc_users = users, !.bits = bits]
  <2>3. pow' = q
    BY <1>1, <1>3, <1>4, <1>7, <2>2 DEF taiko_codec_enable_adc
  <2>4. bits \in SUBSET Bits /\ users \in Nat
    BY <1>2, <2>2
  <2> HIDE DEF bits, users
  <2>5. /\ q \in PowState /\ q.adc_users = users /\ q.bits = bits
        /\ q.ldo_h_users = r.ldo_h_users /\ q.cfilt_users = r.cfilt_users /\ q.undercut = r.undercut
        /\ q.clsh = r.clsh /\ q.clsh_users = r.clsh_users /\ q.cp_users = r.cp_users
        /\ q.comp_enabled = r.comp_enabled /\ q.moved = r.moved /\ q.dec = r.dec
        /\ q.overrun = r.overrun
    BY <1>1, <2>4 DEF PowState
  <2> HIDE DEF q
  <2>6. MovesOnly("adc", r)
    BY <1>1, <2>3, <2>5 DEF MovesOnly, BitKinds, bits
  <2>7. pow'.adc_users = Cardinality(AdcsUp') /\ (clk \in pow'.bits <=> pow'.adc_users > 0)
    BY <2>2, <2>3, <2>5 DEF bits, users
  <2>8. ASSUME NEW m \in 1 .. 6, <<"init", m>> \in pow'.bits
        PROVE  \E v \in pow_wired' : v = <<"adc", m>> /\ pow_phase'[v] = "rising"
    <3>1. CASE m = n
      BY <1>1, <1>5, <1>7, <3>1 DEF To
    <3>2. CASE m # n
      BY <1>5, <1>6, <2>3, <2>5, <2>8, <3>2 DEF bits
    <3> QED BY <3>1, <3>2
  <2> QED BY <2>3, <2>5, <2>6, <2>7, <2>8 DEF AdcInv
<1>8. CASE event = "POST_PMU"
  <2>1. AdcsUp' = AdcsUp
    BY <1>8, UpTurns DEF AdcsUp
  <2> DEFINE bits == pow.bits \ {init}
  <2>2. pow' = [r EXCEPT !.bits = bits] /\ bits \in SUBSET Bits
    BY <1>1, <1>2, <1>3, <1>8 DEF taiko_codec_enable_adc
  <2> HIDE DEF bits
  <2>3. /\ pow' \in PowState /\ pow'.bits = bits
        /\ pow'.ldo_h_users = r.ldo_h_users /\ pow'.adc_users = r.adc_users
        /\ pow'.cfilt_users = r.cfilt_users /\ pow'.undercut = r.undercut
        /\ pow'.clsh = r.clsh /\ pow'.clsh_users = r.clsh_users /\ pow'.cp_users = r.cp_users
        /\ pow'.comp_enabled = r.comp_enabled /\ pow'.moved = r.moved /\ pow'.dec = r.dec
        /\ pow'.overrun = r.overrun
    BY <1>1, <2>2, BitsMoved
  <2>4. MovesOnly("adc", r)
    BY <1>1, <2>3 DEF MovesOnly, BitKinds, bits
  <2>5. pow'.adc_users = Cardinality(AdcsUp') /\ (clk \in pow'.bits <=> pow'.adc_users > 0)
    BY <1>1, <1>4, <2>1, <2>3 DEF bits
  <2>6. ASSUME NEW m \in 1 .. 6, <<"init", m>> \in pow'.bits
        PROVE  \E v \in pow_wired' : v = <<"adc", m>> /\ pow_phase'[v] = "rising"
    BY <1>5, <1>6, <2>3, <2>6 DEF bits
  <2> QED BY <2>3, <2>4, <2>5, <2>6 DEF AdcInv
<1>9. CASE event = "POST_PMD" /\ n <= 4
  <2>1. w \in AdcsUp /\ AdcsUp' = AdcsUp \ {w}
    BY <1>9, UpTurns DEF AdcsUp
  <2> DEFINE bits == Dropped(Cardinality(AdcsUp) = 1, pow.bits, clk)
             users == IF Cardinality(AdcsUp) > 0 THEN Cardinality(AdcsUp) - 1 ELSE 0
             q == [r EXCEPT !.adc_users = users, !.bits = bits]
  <2>2. /\ Cardinality(AdcsUp') = users /\ users \in Nat
        /\ (clk \in bits <=> users > 0) /\ bits \subseteq pow.bits
        /\ \A b : b # clk => (b \in bits <=> b \in pow.bits)
    <3>1. w \in AdcsUp /\ IsFiniteSet(AdcsUp) /\ (clk \in pow.bits <=> Cardinality(AdcsUp) > 0)
      BY <1>2, <1>4, <2>1
    <3>2. /\ Cardinality(AdcsUp \ {w}) = users /\ Cardinality(AdcsUp \ {w}) \in Nat
          /\ (clk \in bits <=> Cardinality(AdcsUp \ {w}) > 0) /\ bits \subseteq pow.bits
          /\ \A b : b # clk => (b \in bits <=> b \in pow.bits)
      BY <3>1, OneLess
    <3> HIDE DEF bits, users
    <3> QED BY <2>1, <3>2
  <2>3. pow' = q
    BY <1>1, <1>3, <1>4, <1>9 DEF taiko_codec_enable_adc
  <2> HIDE DEF bits, users
  <2>4. bits \in SUBSET Bits
    BY <1>2, <2>2
  <2>5. /\ q \in PowState /\ q.adc_users = users /\ q.bits = bits
        /\ q.ldo_h_users = r.ldo_h_users /\ q.cfilt_users = r.cfilt_users /\ q.undercut = r.undercut
        /\ q.clsh = r.clsh /\ q.clsh_users = r.clsh_users /\ q.cp_users = r.cp_users
        /\ q.comp_enabled = r.comp_enabled /\ q.moved = r.moved /\ q.dec = r.dec
        /\ q.overrun = r.overrun
    BY <1>1, <2>2, <2>4 DEF PowState
  <2> HIDE DEF q
  <2>6. MovesOnly("adc", r)
    BY <1>1, <2>2, <2>3, <2>5 DEF MovesOnly, BitKinds
  <2>7. ASSUME NEW m \in 1 .. 6, <<"init", m>> \in pow'.bits
        PROVE  \E v \in pow_wired' : v = <<"adc", m>> /\ pow_phase'[v] = "rising"
    <3>1. <<"init", m>> \in pow.bits
      BY <2>2, <2>3, <2>5, <2>7
    <3>2. m # n
      <4>1. pow_phase[w] = "falling"
        BY <1>5, <1>9 DEF From
      <4> QED BY <1>1, <3>1, <4>1 DEF AdcInv
    <3> QED BY <1>5, <1>6, <3>1, <3>2
  <2> QED BY <2>2, <2>3, <2>5, <2>6, <2>7 DEF AdcInv
<1>10. CASE event = "PRE_PMD" \/ (event \in {"PRE_PMU", "POST_PMD"} /\ ~(n <= 4))
  <2>1. pow' = r
    BY <1>3, <1>10 DEF taiko_codec_enable_adc
  <2>2. AdcsUp' = AdcsUp
    BY <1>1, <1>10, UpTurns DEF AdcsUp
  <2>3. ASSUME NEW m \in 1 .. 6, <<"init", m>> \in pow'.bits
        PROVE  \E v \in pow_wired' : v = <<"adc", m>> /\ pow_phase'[v] = "rising"
    <3>1. <<"init", m>> \in pow.bits
      BY <1>1, <2>1, <2>3
    <3>2. m # n
      <4>1. pow_phase[w] # "rising"
        BY <1>5, <1>10 DEF From
      <4> QED BY <1>1, <3>1, <4>1 DEF AdcInv
    <3> QED BY <1>5, <1>6, <3>1, <3>2
  <2> QED BY <1>1, <2>1, <2>2, <2>3 DEF MovesOnly, AdcInv
<1> QED BY <1>1, <1>7, <1>8, <1>9, <1>10 DEF Events

\* A decimator is muted and bypassed until it is on.
LEMMA DecStep ==
  ASSUME PowTyped, DecInv, NEW w, NEW event, NEW r, Turned(w, event), Written(w, event, r),
         pow' = Event(w, event, r), w[1] = "dec"
  PROVE  pow' \in PowState /\ MovesOnly("dec", r) /\ DecInv'
<1> DEFINE n == w[2]
           mute == <<"mute", n>>
           bypass == <<"bypass", n>>
           bits == CASE event = "PRE_PMU"  -> (pow.bits \ {bypass}) \union {mute}
                     [] event = "POST_PMU" -> pow.bits \ {mute}
                     [] event = "PRE_PMD"  -> pow.bits \union {mute}
                     [] event = "POST_PMD" -> pow.bits \union {bypass}
<1>1. /\ event \in Events /\ w \in pow_wired /\ w = <<"dec", n>> /\ n \in 1 .. 10
      /\ r \in PowState /\ r.bits = pow.bits
  <2>1. event \in Events /\ w \in pow_wired /\ w \in PowWidgets
    BY TurnedIs
  <2>2. w = <<"dec", n>> /\ n \in 1 .. 10
    BY <2>1, WidgetIs
  <2>3. r \in PowState /\ r.bits = pow.bits
    BY <2>1, WrittenIs
  <2> QED BY <2>1, <2>2, <2>3
<1>2. bits \in SUBSET Bits
  <2>1. mute \in Bits /\ bypass \in Bits /\ pow.bits \subseteq Bits
    BY <1>1 DEF Bits, BitNames, PowTyped, PowState
  <2> QED BY <1>1, <2>1 DEF Events
<1>3. pow' = [r EXCEPT !.bits = bits]
  BY <1>1 DEF Event, taiko_codec_enable_dec, Events
<1>4. \A b : b # mute /\ b # bypass => (b \in bits <=> b \in pow.bits)
  BY <1>1 DEF Events
<1>5. /\ event \in {"PRE_PMU", "POST_PMU"} => (event = "PRE_PMU" \/ bypass \notin pow.bits => bypass \notin bits)
      /\ event = "POST_PMU" => mute \notin bits
  OBVIOUS
<1> HIDE DEF bits
<1>6. /\ pow' \in PowState /\ pow'.bits = bits
      /\ pow'.ldo_h_users = r.ldo_h_users /\ pow'.adc_users = r.adc_users
      /\ pow'.cfilt_users = r.cfilt_users /\ pow'.undercut = r.undercut
      /\ pow'.clsh = r.clsh /\ pow'.clsh_users = r.clsh_users /\ pow'.cp_users = r.cp_users
      /\ pow'.comp_enabled = r.comp_enabled /\ pow'.moved = r.moved /\ pow'.dec = r.dec
      /\ pow'.overrun = r.overrun
  BY <1>1, <1>2, <1>3, BitsMoved
<1>7. MovesOnly("dec", r)
  BY <1>1, <1>4, <1>6 DEF MovesOnly, BitKinds
<1>8. ASSUME NEW v \in pow_wired, v[1] = "dec"
      PROVE  /\ pow_phase'[v] \in {"rising", "on"} => <<"bypass", v[2]>> \notin bits
             /\ pow_phase'[v] = "on" => <<"mute", v[2]>> \notin bits
  <2>1. CASE v = w
    <3>1. pow_phase[w] = From(event) /\ pow_phase'[w] = To(event)
      BY TurnedIs
    <3>2. event = "POST_PMU" => bypass \notin pow.bits
      BY <1>1, <3>1 DEF DecInv, From
    <3> QED BY <1>1, <1>5, <2>1, <3>1, <3>2 DEF To, Events
  <2>2. CASE v # w
    <3>1. v[2] # n
      BY <1>1, <1>8, <2>2, WiredIs, WidgetIs
    <3>2. pow_phase'[v] = pow_phase[v]
      BY <2>2, TurnedIs
    <3> QED BY <1>4, <1>8, <3>1, <3>2 DEF DecInv
  <2> QED BY <2>1, <2>2
<1>9. pow_wired' = pow_wired
  BY TurnedIs
<1> QED BY <1>6, <1>7, <1>8, <1>9 DEF DecInv

\* The bias of the playback paths.
LEMMA RxBiasStep ==
  ASSUME PowTyped, RxBiasInv, NEW w, NEW event, NEW r, Turned(w, event), Written(w, event, r),
         pow' = Event(w, event, r), w[1] = "rx_bias"
  PROVE  pow' \in PowState /\ MovesOnly("rx_bias", r) /\ RxBiasInv'
<1> DEFINE bit == <<"rx_bias", 0>>
           bits == CASE event = "PRE_PMU" -> pow.bits \union {bit}
                     [] event = "POST_PMD" -> pow.bits \ {bit}
                     [] OTHER -> pow.bits
<1>1. /\ event \in Events /\ r \in PowState /\ r.bits = pow.bits
      /\ w \in pow_wired /\ \A v \in UpOf("rx_bias") : v = w
  <2>1. event \in Events /\ w \in pow_wired /\ w \in PowWidgets
    BY TurnedIs
  <2>2. w = <<"rx_bias", 0>> /\ \A v \in UpOf("rx_bias") : v = <<"rx_bias", 0>>
    BY <2>1, WiredIs, WidgetIs DEF UpOf
  <2>3. r \in PowState /\ r.bits = pow.bits
    BY <2>1, WrittenIs
  <2> QED BY <2>1, <2>2, <2>3
<1>2. bits \in SUBSET Bits
  BY DEF Bits, BitNames, PowTyped, PowState
<1>3. pow' = IF event \in {"PRE_PMU", "POST_PMD"} THEN [r EXCEPT !.bits = bits] ELSE r
  BY <1>1 DEF Event, taiko_codec_enable_rx_bias, Events
<1>4. \A b : b # bit => (b \in bits <=> b \in pow.bits)
  OBVIOUS
<1>5. event = "PRE_PMU" => bit \in bits
  OBVIOUS
<1>6. event \notin {"PRE_PMU", "POST_PMD"} => bits = pow.bits
  OBVIOUS
<1> HIDE DEF bits
<1>7. /\ pow' \in PowState /\ pow'.bits = bits
      /\ pow'.ldo_h_users = r.ldo_h_users /\ pow'.adc_users = r.adc_users
      /\ pow'.cfilt_users = r.cfilt_users /\ pow'.undercut = r.undercut
      /\ pow'.clsh = r.clsh /\ pow'.clsh_users = r.clsh_users /\ pow'.cp_users = r.cp_users
      /\ pow'.comp_enabled = r.comp_enabled /\ pow'.moved = r.moved /\ pow'.dec = r.dec
      /\ pow'.overrun = r.overrun
  BY <1>1, <1>2, <1>3, <1>6, BitsMoved
<1>8. MovesOnly("rx_bias", r)
  BY <1>1, <1>4, <1>7 DEF MovesOnly, BitKinds
<1>9. RxBiasInv'
  <2>1. CASE event = "PRE_PMU"
    BY <1>5, <1>7, <2>1 DEF RxBiasInv
  <2>2. CASE event = "POST_PMD"
    <3>1. UpOf("rx_bias")' = {}
      BY <1>1, <2>2, UpTurns
    <3> QED BY <3>1 DEF RxBiasInv
  <2>3. CASE event \in {"POST_PMU", "PRE_PMD"}
    BY <1>6, <1>7, <2>3, UpTurns DEF RxBiasInv
  <2> QED BY <1>1, <2>1, <2>2, <2>3 DEF Events
<1> QED BY <1>7, <1>8, <1>9

\* The mux of the class H block's first source.
LEMMA DsmStep ==
  ASSUME PowTyped, NEW w, NEW event, NEW r, Turned(w, event), Written(w, event, r),
         pow' = Event(w, event, r), w[1] = "dsm"
  PROVE  pow' \in PowState /\ MovesOnly("dsm", r)
<1> DEFINE bit == <<"zoh", 0>>
           bits == CASE event = "POST_PMU" -> pow.bits \union {bit}
                     [] event = "POST_PMD" -> pow.bits \ {bit}
                     [] OTHER -> pow.bits
<1>1. event \in Events /\ r \in PowState /\ r.bits = pow.bits
  BY TurnedIs, WrittenIs
<1>2. bits \in SUBSET Bits
  BY DEF Bits, BitNames, PowTyped, PowState
<1>3. pow' = IF event \in {"POST_PMU", "POST_PMD"} THEN [r EXCEPT !.bits = bits] ELSE r
  BY <1>1 DEF Event, taiko_codec_dsm_mux_event, Events
<1>4. \A b : b # bit => (b \in bits <=> b \in pow.bits)
  OBVIOUS
<1>5. event \notin {"POST_PMU", "POST_PMD"} => bits = pow.bits
  OBVIOUS
<1> HIDE DEF bits
<1>6. /\ pow' \in PowState /\ pow'.bits = bits
      /\ pow'.ldo_h_users = r.ldo_h_users /\ pow'.adc_users = r.adc_users
      /\ pow'.cfilt_users = r.cfilt_users /\ pow'.undercut = r.undercut
      /\ pow'.clsh = r.clsh /\ pow'.clsh_users = r.clsh_users /\ pow'.cp_users = r.cp_users
      /\ pow'.comp_enabled = r.comp_enabled /\ pow'.moved = r.moved /\ pow'.dec = r.dec
      /\ pow'.overrun = r.overrun
  BY <1>1, <1>2, <1>3, <1>5, BitsMoved
<1> QED BY <1>1, <1>4, <1>6 DEF MovesOnly, BitKinds

\* An interpolator's clock is DAPM's write, and its handler nothing.
LEMMA RxStep ==
  ASSUME PowTyped, RxInv, NEW w, NEW event, NEW r, Turned(w, event), Written(w, event, r),
         pow' = Event(w, event, r), w[1] = "rx"
  PROVE  pow' \in PowState /\ MovesOnly("rx", r) /\ RxInv'
<1>1. /\ event \in Events /\ w \in pow_wired /\ pow_wired' = pow_wired
      /\ w = <<"rx", w[2]>> /\ RegisterOf(w) = {<<"rx_clk", w[2]>>}
  <2>1. event \in Events /\ w \in pow_wired /\ w \in PowWidgets /\ pow_wired' = pow_wired
    BY TurnedIs
  <2>2. w = <<"rx", w[2]>>
    BY <2>1, WidgetIs
  <2> QED BY <2>1, <2>2 DEF RegisterOf
<1>2. pow' = r
  BY DEF Event
<1>3. ASSUME NEW v \in pow_wired, v[1] = "rx", v \notin r.overrun
      PROVE  /\ pow_phase'[v] = "on" => <<"rx_clk", v[2]>> \in r.bits
             /\ pow_phase'[v] = "off" => <<"rx_clk", v[2]>> \notin r.bits
  <2>1. CASE v = w
    <3>1. pow_phase'[w] = To(event)
      BY TurnedIs
    <3> QED BY <1>1, <2>1, <3>1 DEF Written, To, Events
  <2>2. CASE v # w
    <3>1. v[2] # w[2]
      BY <1>1, <1>3, <2>2, WiredIs, WidgetIs
    <3>2. pow_phase'[v] = pow_phase[v] /\ v \notin pow.overrun
      BY <1>3, <2>2, TurnedIs DEF Written
    <3>3. <<"rx_clk", v[2]>> \in r.bits <=> <<"rx_clk", v[2]>> \in pow.bits
      BY <1>1, <3>1 DEF Written, Events
    <3> QED BY <1>3, <3>2, <3>3 DEF RxInv
  <2> QED BY <2>1, <2>2
<1> QED BY <1>1, <1>2, <1>3 DEF RxInv, MovesOnly, Written

\* A compander that comes up or goes down with its control on moves its bits; and
\* from then on they are what the control says.
LEMMA CompStep ==
  ASSUME PowTyped, CompInv, NEW w, NEW event, NEW r, Turned(w, event), Written(w, event, r),
         pow' = Event(w, event, r), w[1] = "comp"
  PROVE  pow' \in PowState /\ MovesOnly("comp", r) /\ CompInv'
<1> DEFINE c == w[2]
           cb == CompanderBits(c)
<1>1. /\ event \in Events /\ w \in pow_wired /\ w = <<"comp", c>> /\ c \in 0 .. 2
      /\ r \in PowState /\ r.bits = pow.bits
      /\ r.comp_enabled = pow.comp_enabled /\ r.moved = pow.moved
  <2>1. event \in Events /\ w \in pow_wired /\ w \in PowWidgets
    BY TurnedIs
  <2>2. w = <<"comp", c>> /\ c \in 0 .. 2
    BY <2>1, WidgetIs
  <2>3. r \in PowState /\ r.bits = pow.bits
    BY <2>1, WrittenIs
  <2>4. r.comp_enabled = pow.comp_enabled /\ r.moved = pow.moved
    BY DEF Written
  <2> QED BY <2>1, <2>2, <2>3, <2>4
<1>2. /\ \A v \in pow_wired : v # w => pow_phase'[v] = pow_phase[v]
      /\ pow_phase[w] = From(event) /\ pow_phase'[w] = To(event) /\ pow_wired' = pow_wired
  BY TurnedIs
<1>3. pow' = taiko_config_compander(c, event, r)
  BY DEF Event
\* The bits of the others are not among those of c.
<1>4. ASSUME NEW v \in pow_wired, v[1] = "comp", v # w
      PROVE  v[2] # c /\ CompanderBits(v[2]) \intersect cb = {}
  <2>1. v[2] # c
    BY <1>1, <1>4, WiredIs, WidgetIs
  <2> QED BY <2>1 DEF CompanderBits
<1>5. cb \subseteq Bits /\ \A b \in cb : b[1] \in BitKinds("comp")
  BY <1>1 DEF CompanderBits, Bits, BitNames, BitKinds
<1> HIDE DEF cb
<1>6. ASSUME NEW bits \in SUBSET Bits, NEW moved \in SUBSET (0 .. 2),
             pow' = [r EXCEPT !.bits = bits, !.moved = moved],
             moved = pow.moved \ {c}, bits \ cb = pow.bits \ cb,
             cb \intersect bits = IF To(event) = "rising" THEN cb ELSE {},
             event \in {"PRE_PMU", "PRE_PMD"}, pow.comp_enabled[c]
      PROVE  pow' \in PowState /\ MovesOnly("comp", r) /\ CompInv'
  <2>1. /\ pow' \in PowState /\ pow'.bits = bits /\ pow'.moved = moved
        /\ pow'.ldo_h_users = r.ldo_h_users /\ pow'.adc_users = r.adc_users
        /\ pow'.cfilt_users = r.cfilt_users /\ pow'.undercut = r.undercut
        /\ pow'.clsh = r.clsh /\ pow'.clsh_users = r.clsh_users /\ pow'.cp_users = r.cp_users
        /\ pow'.comp_enabled = r.comp_enabled /\ pow'.dec = r.dec /\ pow'.overrun = r.overrun
    BY <1>1, <1>6, ZenonT(40) DEF PowState
  <2>2. MovesOnly("comp", r)
    BY <1>1, <1>5, <1>6, <2>1 DEF MovesOnly
  <2>3. ASSUME NEW v \in pow_wired, v[1] = "comp", v[2] \notin moved
        PROVE  CompanderBits(v[2]) \intersect bits
                 = IF pow_phase'[v] \in {"rising", "on"} /\ pow.comp_enabled[v[2]]
                   THEN CompanderBits(v[2]) ELSE {}
    <3>1. CASE v = w
      BY <1>1, <1>2, <1>6, <3>1 DEF cb, To
    <3>2. CASE v # w
      <4>1. v[2] # c /\ CompanderBits(v[2]) \intersect cb = {}
        BY <1>4, <2>3, <3>2
      <4>2. v[2] \notin pow.moved /\ pow_phase'[v] = pow_phase[v]
        BY <1>2, <1>6, <2>3, <3>2, <4>1
      <4>3. CompanderBits(v[2]) \intersect bits = CompanderBits(v[2]) \intersect pow.bits
        BY <1>6, <4>1
      <4> QED BY <2>3, <4>2, <4>3 DEF CompInv
    <3> QED BY <3>1, <3>2
  <2> QED BY <1>1, <1>2, <2>1, <2>2, <2>3 DEF CompInv
<1>7. pow.bits \subseteq Bits /\ pow.moved \subseteq 0 .. 2
  BY DEF PowTyped, PowState
<1>8. CASE pow.comp_enabled[c] /\ event = "PRE_PMU"
  <2>1. pow' = [r EXCEPT !.bits = pow.bits \union cb, !.moved = pow.moved \ {c}]
    BY <1>1, <1>3, <1>8 DEF taiko_config_compander, cb
  <2> DEFINE bits == pow.bits \union cb
             moved == pow.moved \ {c}
  <2>2. bits \in SUBSET Bits /\ moved \in SUBSET (0 .. 2)
    BY <1>5, <1>7
  <2>3. bits \ cb = pow.bits \ cb /\ cb \intersect bits = cb /\ To(event) = "rising"
    BY <1>8 DEF To
  <2>4. pow' = [r EXCEPT !.bits = bits, !.moved = moved] /\ moved = pow.moved \ {c}
    BY <2>1
  <2>5. cb \intersect bits = IF To(event) = "rising" THEN cb ELSE {}
    BY <2>3
  <2> HIDE DEF bits, moved
  <2> QED BY <1>6, <1>8, <2>2, <2>3, <2>4, <2>5
<1>9. CASE pow.comp_enabled[c] /\ event = "PRE_PMD"
  <2>1. pow' = [r EXCEPT !.bits = pow.bits \ cb, !.moved = pow.moved \ {c}]
    BY <1>1, <1>3, <1>9 DEF taiko_config_compander, cb
  <2> DEFINE bits == pow.bits \ cb
             moved == pow.moved \ {c}
  <2>2. bits \in SUBSET Bits /\ moved \in SUBSET (0 .. 2)
    BY <1>7
  <2>3. bits \ cb = pow.bits \ cb /\ cb \intersect bits = {} /\ To(event) = "falling"
    BY <1>9 DEF To
  <2>4. pow' = [r EXCEPT !.bits = bits, !.moved = moved] /\ moved = pow.moved \ {c}
    BY <2>1
  <2>5. cb \intersect bits = IF To(event) = "rising" THEN cb ELSE {}
    BY <2>3
  <2> HIDE DEF bits, moved
  <2> QED BY <1>6, <1>9, <2>2, <2>3, <2>4, <2>5
<1>10. CASE ~pow.comp_enabled[c] \/ event \in {"POST_PMU", "POST_PMD"}
  <2>1. pow' = r
    BY <1>1, <1>3, <1>10 DEF taiko_config_compander
  <2>2. ASSUME NEW v \in pow_wired, v[1] = "comp", v[2] \notin pow.moved
        PROVE  CompanderBits(v[2]) \intersect pow.bits
                 = IF pow_phase'[v] \in {"rising", "on"} /\ pow.comp_enabled[v[2]]
                   THEN CompanderBits(v[2]) ELSE {}
    <3>1. CASE v = w
      BY <1>1, <1>2, <1>10, <2>2, <3>1 DEF CompInv, From, To, Events
    <3>2. CASE v # w
      BY <1>2, <2>2, <3>2 DEF CompInv
    <3> QED BY <3>1, <3>2
  <2> QED BY <1>1, <1>2, <2>1, <2>2 DEF CompInv, MovesOnly
<1> QED BY <1>1, <1>8, <1>9, <1>10 DEF Events

\* What a headphone asks of the class H block: nothing twice, and nothing is
\* taken back.
LEMMA ClassHIs ==
  ASSUME NEW r \in PowState, NEW n \in 1 .. 2, NEW q, q = wcd_clsh_ctrl_set_state(n, r),
         r.clsh_users > 0 => <<"clsh", 0>> \in r.bits,
         r.cp_users > 0 => <<"cp", 0>> \in r.bits,
         r.clsh # 0 => ClassH(r.clsh) \subseteq r.bits
  PROVE  /\ q \in PowState /\ q.clsh = n /\ q.bits = r.bits \union ClassH(n)
         /\ q.ldo_h_users = r.ldo_h_users /\ q.adc_users = r.adc_users
         /\ q.cfilt_users = r.cfilt_users /\ q.undercut = r.undercut
         /\ q.comp_enabled = r.comp_enabled /\ q.moved = r.moved /\ q.dec = r.dec
         /\ q.overrun = r.overrun
<1>1. CASE r.clsh = n
  <2>1. q = r
    BY <1>1 DEF wcd_clsh_ctrl_set_state
  <2>2. r.bits = r.bits \union ClassH(n)
    BY <1>1
  <2> QED BY <1>1, <2>1, <2>2
<1>2. CASE r.clsh # n
  <2> DEFINE bits == Counted(r.cp_users = 0, Counted(r.clsh_users = 0, r.bits, <<"clsh", 0>>), <<"cp", 0>>)
                       \union {<<"clsh_hph", n>>, <<"buck", 0>>, <<"ncp", 0>>}
             a == r.clsh_users + 1
             z == r.cp_users + 1
  <2>1. q = [r EXCEPT !.clsh = n, !.clsh_users = a, !.cp_users = z, !.bits = bits]
    BY <1>2 DEF wcd_clsh_ctrl_set_state
  <2>2. /\ r.clsh_users \in Nat /\ r.cp_users \in Nat /\ r.bits \subseteq Bits
        /\ a \in Nat /\ z \in Nat
    BY DEF PowState
  <2>3. bits = r.bits \union ClassH(n)
    BY <2>2 DEF Counted, ClassH
  <2>4. ClassH(n) \subseteq Bits
    BY DEF ClassH, Bits, BitNames
  <2> HIDE DEF bits, a, z
  <2>5. bits \in SUBSET Bits /\ n \in 0 .. 2
    BY <2>2, <2>3, <2>4
  <2>6. /\ q \in PowState /\ q.clsh = n /\ q.bits = bits
        /\ q.ldo_h_users = r.ldo_h_users /\ q.adc_users = r.adc_users
        /\ q.cfilt_users = r.cfilt_users /\ q.undercut = r.undercut
        /\ q.comp_enabled = r.comp_enabled /\ q.moved = r.moved /\ q.dec = r.dec
        /\ q.overrun = r.overrun
    BY <2>1, <2>2, <2>5, ZenonT(40) DEF PowState
  <2> QED BY <2>3, <2>6
<1> QED BY <1>1, <1>2

\* A headphone that comes up finds, or gets, what it needs of the class H block.
LEMMA DacStep ==
  ASSUME PowTyped, DacInv, NEW w, NEW event, NEW r, Turned(w, event), Written(w, event, r),
         pow' = Event(w, event, r), w[1] = "dac"
  PROVE  pow' \in PowState /\ MovesOnly("dac", r) /\ DacInv'
<1> DEFINE n == w[2]
           rdac == <<"rdac", n>>
<1>1. /\ event \in Events /\ w \in pow_wired /\ w = <<"dac", n>> /\ n \in 1 .. 2
      /\ r \in PowState /\ r.bits = pow.bits
      /\ r.clsh = pow.clsh /\ r.clsh_users = pow.clsh_users /\ r.cp_users = pow.cp_users
  <2>1. event \in Events /\ w \in pow_wired /\ w \in PowWidgets
    BY TurnedIs
  <2>2. w = <<"dac", n>> /\ n \in 1 .. 2
    BY <2>1, WidgetIs
  <2>3. r \in PowState /\ r.bits = pow.bits
    BY <2>1, WrittenIs
  <2>4. r.clsh = pow.clsh /\ r.clsh_users = pow.clsh_users /\ r.cp_users = pow.cp_users
    BY DEF Written
  <2> QED BY <2>1, <2>2, <2>3, <2>4
<1>2. pow' = hph_dac_event(n, event, r)
  BY DEF Event
<1>3. rdac \in Bits /\ pow.bits \subseteq Bits
  BY <1>1 DEF Bits, BitNames, PowTyped, PowState
<1>4. ASSUME NEW v \in UpOf("dac"), v # w PROVE v[2] # n
  BY <1>1, <1>4, WiredIs, WidgetIs DEF UpOf
<1>5. CASE event = "PRE_PMU"
  <2> DEFINE bits == pow.bits \union {rdac}
             z == [r EXCEPT !.bits = bits]
  <2>1. pow' = wcd_clsh_ctrl_set_state(n, z)
    BY <1>1, <1>2, <1>5 DEF hph_dac_event
  <2>2. bits \in SUBSET Bits
    BY <1>3
  <2> HIDE DEF bits
  <2>3. /\ z \in PowState /\ z.bits = bits
        /\ z.ldo_h_users = r.ldo_h_users /\ z.adc_users = r.adc_users
        /\ z.cfilt_users = r.cfilt_users /\ z.undercut = r.undercut
        /\ z.clsh = r.clsh /\ z.clsh_users = r.clsh_users /\ z.cp_users = r.cp_users
        /\ z.comp_enabled = r.comp_enabled /\ z.moved = r.moved /\ z.dec = r.dec
        /\ z.overrun = r.overrun
    BY <1>1, <2>2, BitsMoved
  <2> HIDE DEF z
  <2>4. /\ z.clsh_users > 0 => <<"clsh", 0>> \in z.bits
        /\ z.cp_users > 0 => <<"cp", 0>> \in z.bits
        /\ z.clsh # 0 => ClassH(z.clsh) \subseteq z.bits
    BY <1>1, <2>3 DEF DacInv, bits
  <2>5. /\ pow' \in PowState /\ pow'.clsh = n /\ pow'.bits = bits \union ClassH(n)
        /\ pow'.ldo_h_users = z.ldo_h_users /\ pow'.adc_users = z.adc_users
        /\ pow'.cfilt_users = z.cfilt_users /\ pow'.undercut = z.undercut
        /\ pow'.comp_enabled = z.comp_enabled /\ pow'.moved = z.moved /\ pow'.dec = z.dec
        /\ pow'.overrun = z.overrun
    BY <1>1, <2>1, <2>3, <2>4, ClassHIs
  <2>6. MovesOnly("dac", r)
    <3>1. \A b : b[1] \notin BitKinds("dac") => b # rdac /\ b \notin ClassH(n)
      BY DEF BitKinds, ClassH
    <3> QED BY <1>1, <2>3, <2>5, <3>1 DEF MovesOnly, bits
  <2>7. UpOf("dac")' = UpOf("dac") \union {w}
    BY <1>5, UpTurns
  <2>8. {<<"clsh", 0>>, <<"cp", 0>>} \subseteq pow'.bits /\ ClassH(pow'.clsh) \subseteq pow'.bits
    BY <2>5 DEF ClassH
  <2>9. ASSUME NEW v \in UpOf("dac")'
        PROVE  {<<"rdac", v[2]>>} \union ClassH(v[2]) \subseteq pow'.bits
    BY <2>5, <2>7 DEF DacInv, bits
  <2> QED BY <2>5, <2>6, <2>8, <2>9 DEF DacInv
<1>6. CASE event = "POST_PMD"
  <2> DEFINE bits == pow.bits \ {rdac}
  <2>1. pow' = [r EXCEPT !.bits = bits] /\ bits \in SUBSET Bits
    BY <1>1, <1>2, <1>3, <1>6 DEF hph_dac_event
  <2> HIDE DEF bits
  <2>2. /\ pow' \in PowState /\ pow'.bits = bits
        /\ pow'.ldo_h_users = r.ldo_h_users /\ pow'.adc_users = r.adc_users
        /\ pow'.cfilt_users = r.cfilt_users /\ pow'.undercut = r.undercut
        /\ pow'.clsh = r.clsh /\ pow'.clsh_users = r.clsh_users /\ pow'.cp_users = r.cp_users
        /\ pow'.comp_enabled = r.comp_enabled /\ pow'.moved = r.moved /\ pow'.dec = r.dec
        /\ pow'.overrun = r.overrun
    BY <1>1, <2>1, BitsMoved
  <2>3. MovesOnly("dac", r)
    BY <1>1, <2>2 DEF MovesOnly, BitKinds, bits
  <2>4. UpOf("dac")' = UpOf("dac") \ {w}
    BY <1>6, UpTurns
  <2>5. \A m : ClassH(m) \subseteq pow.bits => ClassH(m) \subseteq bits
    BY DEF ClassH, bits
  <2>6. /\ pow'.clsh_users > 0 => <<"clsh", 0>> \in pow'.bits
        /\ pow'.cp_users > 0 => <<"cp", 0>> \in pow'.bits
        /\ pow'.clsh # 0 => ClassH(pow'.clsh) \subseteq pow'.bits
    BY <1>1, <2>2, <2>5 DEF DacInv, bits
  <2>7. ASSUME NEW v \in UpOf("dac")'
        PROVE  {<<"rdac", v[2]>>} \union ClassH(v[2]) \subseteq pow'.bits
    <3>1. v \in UpOf("dac") /\ v[2] # n
      BY <1>4, <2>4
    <3>2. <<"rdac", v[2]>> \in pow.bits /\ ClassH(v[2]) \subseteq pow.bits
      BY <3>1 DEF DacInv
    <3> QED BY <2>2, <2>5, <3>1, <3>2 DEF bits
  <2> QED BY <2>2, <2>3, <2>6, <2>7 DEF DacInv
<1>7. CASE event \in {"POST_PMU", "PRE_PMD"}
  <2>1. pow' = r
    BY <1>2, <1>7 DEF hph_dac_event
  <2>2. UpOf("dac")' = UpOf("dac")
    BY <1>7, UpTurns
  <2> QED BY <1>1, <2>1, <2>2 DEF MovesOnly, DacInv
<1> QED BY <1>1, <1>5, <1>6, <1>7 DEF Events

\* A bias: its filter has its users counted, its own bit goes with the first of its
\* outputs, which leaves the others undercut.
LEMMA BiasStep ==
  ASSUME PowTyped, BiasInv, NEW w, NEW event, NEW r, Turned(w, event), Written(w, event, r),
         pow' = Event(w, event, r), w[1] = "bias"
  PROVE  pow' \in PowState /\ MovesOnly("bias", r) /\ BiasInv'
<1> DEFINE n == w[2]
           f == cfilt(n)
           micb == <<"micb", n>>
           flt == <<"cfilt", f>>
           own == rbias(w)
<1>1. /\ event \in Events /\ w \in pow_wired /\ w = <<"bias", n, w[3]>> /\ n \in 1 .. 4
      /\ w[3] \in {"External", "Internal1", "Internal2", "Internal3"}
      /\ r \in PowState /\ r.bits = pow.bits
      /\ r.cfilt_users = pow.cfilt_users /\ r.undercut = pow.undercut
  <2>1. event \in Events /\ w \in pow_wired /\ w \in PowWidgets
    BY TurnedIs
  <2>2. /\ w = <<"bias", n, w[3]>> /\ n \in 1 .. 4
        /\ w[3] \in {"External", "Internal1", "Internal2", "Internal3"}
    BY <2>1, WidgetIs
  <2>3. r \in PowState /\ r.bits = pow.bits
    BY <2>1, WrittenIs
  <2>4. r.cfilt_users = pow.cfilt_users /\ r.undercut = pow.undercut
    BY DEF Written
  <2> QED BY <2>1, <2>2, <2>3, <2>4
<1>2. f \in 0 .. 2 /\ \A v \in UpOf("bias") : cfilt(v[2]) \in 0 .. 2
  BY <1>1, WiredIs, WidgetIs DEF cfilt, UpOf
<1>3. pow' = taiko_codec_enable_micbias(w, event, r)
  BY DEF Event
<1>4. /\ own = (IF w[3] = "External" THEN {} ELSE {<<"rbias", n, w[3]>>})
      /\ own \subseteq Bits /\ micb \in Bits /\ flt \in Bits
      /\ pow.bits \subseteq Bits /\ pow.undercut \subseteq PowWidgets
      /\ pow.cfilt_users \in [0 .. 2 -> Nat]
  <2>1. own = (IF w[3] = "External" THEN {} ELSE {<<"rbias", n, w[3]>>})
    BY DEF rbias
  <2>2. micb \in Bits /\ flt \in Bits
    BY <1>1, <1>2 DEF Bits, BitNames
  <2>3. <<"rbias", n, w[3]>> \in Bits
    BY <1>1 DEF Bits
  <2> QED BY <2>1, <2>2, <2>3 DEF PowTyped, PowState
<1> HIDE DEF f, own
<1>5. IsFiniteSet(BiasesUp(f))
  <2>1. BiasesUp(f) \subseteq pow_wired
    BY DEF BiasesUp, UpOf
  <2> QED BY <2>1, WiredIs, FS_Subset
<1>6. pow.cfilt_users[f] = Cardinality(BiasesUp(f)) /\ (flt \in pow.bits <=> Cardinality(BiasesUp(f)) > 0)
  BY <1>2 DEF BiasInv
<1>7. w \in BiasesUp(f) <=> w \in UpOf("bias")
  BY DEF BiasesUp, f
\* The part of every handler that moves the record.
<1>8. ASSUME NEW bits \in SUBSET Bits, NEW users \in Nat, NEW under \in SUBSET PowWidgets,
             pow' = [r EXCEPT !.cfilt_users[f] = users, !.bits = bits, !.undercut = under],
             \A b : b[1] \notin BitKinds("bias") => (b \in bits <=> b \in pow.bits)
      PROVE  /\ pow' \in PowState /\ pow'.bits = bits /\ pow'.undercut = under
             /\ pow'.cfilt_users = [pow.cfilt_users EXCEPT ![f] = users]
             /\ MovesOnly("bias", r)
  <2> DEFINE all == [r.cfilt_users EXCEPT ![f] = users]
             q == [r EXCEPT !.cfilt_users = all, !.bits = bits, !.undercut = under]
  <2>1. pow' = q
    BY <1>8
  <2>2. all \in [0 .. 2 -> Nat]
    BY <1>1, <1>4
  <2> HIDE DEF all
  <2>3. /\ q \in PowState /\ q.cfilt_users = all /\ q.bits = bits /\ q.undercut = under
        /\ q.ldo_h_users = r.ldo_h_users /\ q.adc_users = r.adc_users
        /\ q.clsh = r.clsh /\ q.clsh_users = r.clsh_users /\ q.cp_users = r.cp_users
        /\ q.comp_enabled = r.comp_enabled /\ q.moved = r.moved /\ q.dec = r.dec
        /\ q.overrun = r.overrun
    BY <1>1, <2>2 DEF PowState
  <2> HIDE DEF q
  <2> QED BY <1>1, <1>8, <2>1, <2>3 DEF MovesOnly, all
<1>9. CASE event = "PRE_PMU"
  <2>1. w \notin UpOf("bias") /\ UpOf("bias")' = UpOf("bias") \union {w}
    BY <1>9, UpTurns
  <2>2. BiasesUp(f)' = BiasesUp(f) \union {w} /\ \A g \in 0 .. 2 : g # f => BiasesUp(g)' = BiasesUp(g)
    BY <2>1 DEF BiasesUp, f
  <2> DEFINE users == Cardinality(BiasesUp(f)) + 1
             bits == (pow.bits \union {flt}) \union ({micb} \union own)
             under == {v \in pow.undercut : v[2] # n}
  <2>3. /\ Cardinality(BiasesUp(f) \union {w}) = users
        /\ Cardinality(BiasesUp(f)) \in Nat /\ users > 0
        /\ Counted(Cardinality(BiasesUp(f)) = 0, pow.bits, flt) = pow.bits \union {flt}
    BY <1>5, <1>6, <1>7, <2>1, OneMore
  <2>4. pow' = [r EXCEPT !.cfilt_users[f] = users, !.bits = bits, !.undercut = under]
    BY <1>1, <1>3, <1>6, <1>9, <2>3 DEF taiko_codec_enable_micbias, f, own
  <2>5. bits \in SUBSET Bits /\ users \in Nat /\ under \in SUBSET PowWidgets
    BY <1>4, <2>3
  <2>6. \A b : b[1] \notin BitKinds("bias") => (b \in bits <=> b \in pow.bits)
    BY <1>4 DEF BitKinds
  <2> HIDE DEF users, bits, under
  <2>7. /\ pow' \in PowState /\ pow'.bits = bits /\ pow'.undercut = under
        /\ pow'.cfilt_users = [pow.cfilt_users EXCEPT ![f] = users] /\ MovesOnly("bias", r)
    BY <1>8, <2>4, <2>5, <2>6
  <2>8. ASSUME NEW g \in 0 .. 2
        PROVE  /\ pow'.cfilt_users[g] = Cardinality(BiasesUp(g)')
               /\ <<"cfilt", g>> \in pow'.bits <=> pow'.cfilt_users[g] > 0
    <3>1. CASE g = f
      BY <1>2, <1>4, <2>2, <2>3, <2>7, <3>1 DEF bits
    <3>2. CASE g # f
      <4>1. pow'.cfilt_users[g] = pow.cfilt_users[g]
        BY <1>4, <2>7, <3>2
      <4>2. <<"cfilt", g>> \in bits <=> <<"cfilt", g>> \in pow.bits
        BY <1>4, <3>2 DEF bits
      <4> QED BY <2>2, <2>7, <3>2, <4>1, <4>2 DEF BiasInv
    <3> QED BY <3>1, <3>2
  <2>9. ASSUME NEW v \in UpOf("bias")', v \notin under PROVE <<"micb", v[2]>> \in bits
    BY <2>1, <2>9 DEF BiasInv, bits, under
  <2>10. ASSUME NEW b \in bits, b[1] = "micb" PROVE \E v \in UpOf("bias")' : v[2] = b[2]
    <3>1. b \in pow.bits \/ b = micb
      BY <1>4, <2>10 DEF bits
    <3> QED BY <2>1, <2>10, <3>1 DEF BiasInv
  <2>11. ASSUME NEW b \in bits, b[1] = "rbias"
         PROVE  \E v \in UpOf("bias")' : v[3] # "External" /\ b = <<"rbias", v[2], v[3]>>
    <3>1. CASE b \in pow.bits
      BY <2>1, <2>11, <3>1 DEF BiasInv
    <3>2. CASE b \in own
      <4>1. w[3] # "External" /\ b = <<"rbias", n, w[3]>>
        BY <1>4, <3>2
      <4> QED BY <2>1, <4>1
    <3> QED BY <2>11, <3>1, <3>2 DEF bits
  <2> QED BY <2>7, <2>8, <2>9, <2>10, <2>11 DEF BiasInv
<1>10. CASE event = "POST_PMD"
  <2>1. w \in UpOf("bias") /\ UpOf("bias")' = UpOf("bias") \ {w}
    BY <1>10, UpTurns
  <2>2. BiasesUp(f)' = BiasesUp(f) \ {w} /\ \A g \in 0 .. 2 : g # f => BiasesUp(g)' = BiasesUp(g)
    BY <2>1 DEF BiasesUp, f
  <2> DEFINE users == IF Cardinality(BiasesUp(f)) > 0 THEN Cardinality(BiasesUp(f)) - 1 ELSE 0
             left == Dropped(Cardinality(BiasesUp(f)) = 1, pow.bits, flt)
             bits == left \ ({micb} \union own)
             under == (pow.undercut \union Outputs(n)) \ {w}
  <2>3. /\ Cardinality(BiasesUp(f) \ {w}) = users /\ users \in Nat
        /\ (flt \in left <=> users > 0) /\ left \subseteq pow.bits
        /\ \A b : b # flt => (b \in left <=> b \in pow.bits)
    <3>1. w \in BiasesUp(f)
      BY <1>7, <2>1
    <3>2. /\ Cardinality(BiasesUp(f) \ {w}) = users /\ Cardinality(BiasesUp(f) \ {w}) \in Nat
          /\ (flt \in left <=> Cardinality(BiasesUp(f) \ {w}) > 0) /\ left \subseteq pow.bits
          /\ \A b : b # flt => (b \in left <=> b \in pow.bits)
      BY <1>5, <1>6, <3>1, OneLess
    <3> HIDE DEF left, users
    <3> QED BY <3>2
  <2>4. pow' = [r EXCEPT !.cfilt_users[f] = users, !.bits = bits, !.undercut = under]
    BY <1>1, <1>3, <1>6, <1>10 DEF taiko_codec_enable_micbias, f, own
  <2>5. Outputs(n) = {v \in pow_wired : v[1] = "bias" /\ v[2] = n} /\ Outputs(n) \subseteq PowWidgets
    BY WiredIs DEF Outputs
  <2> HIDE DEF users, left
  <2>6. bits \in SUBSET Bits /\ under \in SUBSET PowWidgets
    BY <1>4, <2>3, <2>5
  <2>7. \A b : b[1] \notin BitKinds("bias") => (b \in bits <=> b \in pow.bits)
    BY <1>4, <2>3 DEF BitKinds
  <2> HIDE DEF bits, under
  <2>8. /\ pow' \in PowState /\ pow'.bits = bits /\ pow'.undercut = under
        /\ pow'.cfilt_users = [pow.cfilt_users EXCEPT ![f] = users] /\ MovesOnly("bias", r)
    <3>1. users \in Nat
      BY <2>3
    <3> QED BY <1>8, <2>4, <2>6, <2>7, <3>1
  <2>9. ASSUME NEW g \in 0 .. 2
        PROVE  /\ pow'.cfilt_users[g] = Cardinality(BiasesUp(g)')
               /\ <<"cfilt", g>> \in pow'.bits <=> pow'.cfilt_users[g] > 0
    <3>1. <<"cfilt", g>> \in bits <=> <<"cfilt", g>> \in left
      BY <1>4 DEF bits
    <3>2. CASE g = f
      BY <1>2, <1>4, <2>2, <2>3, <2>8, <3>1, <3>2
    <3>3. CASE g # f
      <4>1. pow'.cfilt_users[g] = pow.cfilt_users[g]
        BY <1>4, <2>8, <3>3
      <4>2. <<"cfilt", g>> \in bits <=> <<"cfilt", g>> \in pow.bits
        BY <2>3, <3>1, <3>3
      <4> QED BY <2>2, <2>8, <3>3, <4>1, <4>2 DEF BiasInv
    <3> QED BY <3>2, <3>3
  <2>10. ASSUME NEW v \in UpOf("bias")', v \notin under PROVE <<"micb", v[2]>> \in bits
    <3>1. v \in UpOf("bias") /\ v # w /\ v \in pow_wired /\ v[1] = "bias"
      BY <2>1 DEF UpOf
    <3>2. v \notin pow.undercut /\ v[2] # n
      BY <2>5, <2>10, <3>1 DEF under
    <3>3. <<"micb", v[2]>> \in pow.bits
      BY <3>1, <3>2 DEF BiasInv
    <3> QED BY <1>4, <2>3, <3>2, <3>3 DEF bits
  <2>11. ASSUME NEW b \in bits, b[1] = "micb" PROVE \E v \in UpOf("bias")' : v[2] = b[2]
    <3>1. b \in pow.bits /\ b # micb
      BY <2>3 DEF bits
    <3>2. PICK v \in UpOf("bias") : v[2] = b[2]
      BY <2>11, <3>1 DEF BiasInv
    <3>3. b[2] # n
      <4>1. b \in BitNames \X Int
        BY <1>4, <2>11, <3>1 DEF Bits
      <4>2. b = <<"micb", b[2]>>
        BY <2>11, <4>1
      <4> QED BY <3>1, <4>2
    <3> QED BY <2>1, <3>2, <3>3
  <2>12. ASSUME NEW b \in bits, b[1] = "rbias"
         PROVE  \E v \in UpOf("bias")' : v[3] # "External" /\ b = <<"rbias", v[2], v[3]>>
    <3>1. b \in pow.bits /\ b \notin own
      BY <2>3 DEF bits
    <3>2. PICK v \in UpOf("bias") : v[3] # "External" /\ b = <<"rbias", v[2], v[3]>>
      BY <2>12, <3>1 DEF BiasInv
    <3>3. v # w
      BY <1>4, <3>1, <3>2
    <3> QED BY <2>1, <3>2, <3>3
  <2> QED BY <2>8, <2>9, <2>10, <2>11, <2>12 DEF BiasInv
<1>11. CASE event \in {"POST_PMU", "PRE_PMD"}
  <2>1. pow' = r
    BY <1>3, <1>11 DEF taiko_codec_enable_micbias
  <2>2. UpOf("bias")' = UpOf("bias")
    BY <1>11, UpTurns
  <2>3. \A g : BiasesUp(g)' = BiasesUp(g)
    BY <2>2 DEF BiasesUp
  <2> QED BY <1>1, <2>1, <2>2, <2>3 DEF MovesOnly, BiasInv
<1> QED BY <1>1, <1>9, <1>10, <1>11 DEF Events

-----------------------------------------------------------------------------
(* Every step keeps the invariant.                                         *)

\* The supplies of a widget in play are in play.
LEMMA NeedsWired ==
  ASSUME PowTyped, NEW w \in pow_wired PROVE Needs(w) \subseteq pow_wired
BY PowAssumption DEF PowTyped, Needs

\* Nothing is left up without its supplies: DAPM's order.
LEMMA NestedKept ==
  ASSUME PowTyped, PowNested, pre_pmu \/ post_pmu \/ pre_pmd \/ post_pmd
  PROVE  PowNested'
<1>1. PICK w \in pow_wired, from \in Phases, to \in Phases :
        /\ pow_wired' = pow_wired /\ pow_phase[w] = from
        /\ pow_phase' = [pow_phase EXCEPT ![w] = to]
        /\ \/ from = "off" /\ to = "rising" /\ \A v \in Needs(w) : pow_phase[v] = "on"
           \/ from = "rising" /\ to = "on"
           \/ /\ from = "on" /\ to = "falling"
              /\ \A v \in pow_wired : w \in Needs(v) => pow_phase[v] = "off"
           \/ from = "falling" /\ to = "off"
  <2>1. CASE pre_pmu
    BY <2>1, Zenon DEF pre_pmu, WidgetStep, Phases
  <2>2. CASE post_pmu
    BY <2>2, Zenon DEF post_pmu, WidgetStep, Phases
  <2>3. CASE pre_pmd
    BY <2>3, Zenon DEF pre_pmd, WidgetStep, Phases
  <2>4. CASE post_pmd
    BY <2>4, Zenon DEF post_pmd, WidgetStep, Phases
  <2> QED BY <2>1, <2>2, <2>3, <2>4
<1>2. \A v \in pow_wired : pow_phase'[v] = IF v = w THEN to ELSE pow_phase[v]
  BY <1>1 DEF PowTyped
<1>3. \A x : Needs(x)' = Needs(x)
  BY <1>1 DEF Needs
<1>4. ASSUME NEW x \in pow_wired, pow_phase'[x] # "off", NEW v \in Needs(x)
      PROVE  pow_phase'[v] = "on"
  <2>1. v \in pow_wired
    BY NeedsWired
  <2>2. pow_phase[v] = "on"
    BY <1>1, <1>2, <1>4 DEF PowNested
  <2>3. v = w => to = "on"
    BY <1>1, <1>2, <1>4, <2>2
  <2> QED BY <1>2, <2>1, <2>2, <2>3
<1> QED BY <1>1, <1>3, <1>4 DEF PowNested

\* An event of a widget.
LEMMA WidgetsStep ==
  ASSUME PowInv, pre_pmu \/ post_pmu \/ pre_pmd \/ post_pmd
  PROVE  PowInv'
<1> USE DEF PowInv
<1>1. PowTyped /\ PowNested'
  BY NestedKept
<1>2. PICK w \in pow_wired, event \in Events, r \in PowState :
        Turned(w, event) /\ Written(w, event, r) /\ pow' = Event(w, event, r)
  BY <1>1, WidgetEvent
<1>3. w[1] \in Kinds
  BY <1>1, WiredIs, WidgetIs
<1>4. ASSUME NEW kind \in Kinds \union {"dmic"}, kind # w[1], MovesOnly(w[1], r) PROVE Same(kind)
  BY <1>1, <1>2, <1>4, OthersSame
<1>5. /\ pow' \in PowState /\ MovesOnly(w[1], r)
      /\ w[1] = "ldo_h" => LdoInv' 
      /\ w[1] = "bias" => BiasInv'
      /\ w[1] = "adc" => AdcInv'
      /\ w[1] = "dec" => DecInv'
      /\ w[1] = "rx_bias" => RxBiasInv'
      /\ w[1] = "dac" => DacInv'
      /\ w[1] = "comp" => CompInv'
      /\ w[1] = "rx" => RxInv'
  <2>1. CASE w[1] = "ldo_h"
    BY <1>2, <2>1, LdoStep
  <2>2. CASE w[1] = "bias"
    BY <1>2, <2>2, BiasStep
  <2>3. CASE w[1] = "adc"
    BY <1>2, <2>3, AdcStep
  <2>4. CASE w[1] = "dsm"
    BY <1>2, <2>4, DsmStep
  <2>5. CASE w[1] = "dec"
    BY <1>2, <2>5, DecStep
  <2>6. CASE w[1] = "rx_bias"
    BY <1>2, <2>6, RxBiasStep
  <2>7. CASE w[1] = "dac"
    BY <1>2, <2>7, DacStep
  <2>8. CASE w[1] = "comp"
    BY <1>2, <2>8, CompStep
  <2>9. CASE w[1] = "rx"
    BY <1>2, <2>9, RxStep
  <2> QED BY <1>3, <2>1, <2>2, <2>3, <2>4, <2>5, <2>6, <2>7, <2>8, <2>9 DEF Kinds
<1>6. PowTyped'
  <2>1. pow_wired' = pow_wired /\ pow_phase' \in [pow_wired -> Phases]
    BY <1>1, <1>2, TurnedIs
  <2> QED BY <1>1, <1>5, <2>1 DEF PowTyped
<1>7. LdoInv'
  BY <1>4, <1>5, LdoKept DEF Kinds
<1>8. BiasInv'
  BY <1>4, <1>5, BiasKept DEF Kinds
<1>9. AdcInv'
  BY <1>4, <1>5, AdcKept DEF Kinds
<1>10. DecInv'
  BY <1>4, <1>5, DecKept DEF Kinds
<1>11. RxBiasInv'
  BY <1>4, <1>5, RxBiasKept DEF Kinds
<1>12. DacInv'
  BY <1>4, <1>5, DacKept DEF Kinds
<1>13. CompInv'
  BY <1>4, <1>5, CompKept DEF Kinds
<1>14. RxInv'
  BY <1>4, <1>5, RxKept DEF Kinds
<1>15. DecFollows'
  <2>1. w[1] # "dmic"
    BY <1>3 DEF Kinds
  <2> QED BY <1>4, <1>5, <2>1, DecFollowsKept
<1> QED BY <1>1, <1>6, <1>7, <1>8, <1>9, <1>10, <1>11, <1>12, <1>13, <1>14, <1>15

\* A control leaves the widgets where they are.
LEMMA NestedStays ==
  ASSUME PowNested, pow_wired' = pow_wired, pow_phase' = pow_phase PROVE PowNested'
<1>1. \A x : Needs(x)' = Needs(x)
  BY DEF Needs
<1> QED BY <1>1 DEF PowNested

\* A compander's control, whatever it does.
LEMMA SetCompanderStep ==
  ASSUME PowInv, taiko_set_compander PROVE PowInv'
<1> USE DEF PowInv
<1>1. PICK w \in pow_wired :
        /\ w[1] = "comp"
        /\ ControlStep([pow EXCEPT !.comp_enabled[w[2]] = ~@,
                                   !.moved = IF pow_phase[w] = "off" THEN @ ELSE @ \union {w[2]}])
  BY DEF taiko_set_compander
<1> DEFINE c == w[2]
           flags == [pow.comp_enabled EXCEPT ![c] = ~@]
           moved == IF pow_phase[w] = "off" THEN pow.moved ELSE pow.moved \union {c}
<1>2. w = <<"comp", c>> /\ c \in 0 .. 2
  BY <1>1, WiredIs, WidgetIs
<1>3. pow_wired' = pow_wired /\ pow_phase' = pow_phase
  BY <1>1 DEF ControlStep
<1>4. pow' = [pow EXCEPT !.comp_enabled = flags, !.moved = moved]
  BY <1>1 DEF ControlStep, PowTyped, PowState
<1>5. pow \in PowState /\ flags \in [0 .. 2 -> BOOLEAN] /\ moved \in SUBSET (0 .. 2)
  BY <1>2 DEF PowTyped, PowState
<1> HIDE DEF flags, moved
<1>6. /\ pow' \in PowState /\ pow'.bits = pow.bits
      /\ pow'.comp_enabled = flags /\ pow'.moved = moved
      /\ pow'.ldo_h_users = pow.ldo_h_users /\ pow'.adc_users = pow.adc_users
      /\ pow'.cfilt_users = pow.cfilt_users /\ pow'.undercut = pow.undercut
      /\ pow'.clsh = pow.clsh /\ pow'.clsh_users = pow.clsh_users /\ pow'.cp_users = pow.cp_users
      /\ pow'.dec = pow.dec /\ pow'.overrun = pow.overrun
  BY <1>4, <1>5 DEF PowState
<1>7. ASSUME NEW kind, kind # "comp" PROVE Same(kind)
  BY <1>3, <1>6, <1>7 DEF Same
<1>8. /\ LdoInv' /\ AdcInv' /\ BiasInv' /\ DecInv' /\ RxBiasInv' /\ DacInv' /\ RxInv'
      /\ DecFollows'
  BY <1>7, LdoKept, AdcKept, BiasKept, DecKept, RxBiasKept, DacKept, RxKept, DecFollowsKept
<1>9. ASSUME NEW v \in pow_wired, v[1] = "comp", v[2] \notin moved
      PROVE  CompanderBits(v[2]) \intersect pow.bits
               = IF pow_phase[v] \in {"rising", "on"} /\ flags[v[2]] THEN CompanderBits(v[2]) ELSE {}
  <2>1. v = <<"comp", v[2]>> /\ v[2] \in 0 .. 2
    BY <1>9, WiredIs, WidgetIs
  <2>2. v[2] \notin pow.moved
    BY <1>9 DEF moved
  <2>3. CASE v[2] = c
    <3>1. pow_phase[v] = "off"
      BY <1>2, <1>9, <2>1, <2>3 DEF moved
    <3> QED BY <1>9, <2>2, <3>1 DEF CompInv
  <2>4. CASE v[2] # c
    <3>1. flags[v[2]] = pow.comp_enabled[v[2]]
      BY <2>1, <2>4 DEF flags, PowTyped, PowState
    <3> QED BY <1>9, <2>2, <3>1 DEF CompInv
  <2> QED BY <2>3, <2>4
<1>10. CompInv'
  <2>1. \A k : CompanderBits(k)' = CompanderBits(k)
    BY DEF CompanderBits
  <2> QED BY <1>3, <1>6, <1>9, <2>1 DEF CompInv
<1>11. PowTyped' /\ PowNested'
  BY <1>3, <1>6, NestedStays DEF PowTyped
<1> QED BY <1>8, <1>10, <1>11

\* A decimator's selection, and the input it takes.
LEMMA PutDecStep ==
  ASSUME PowInv, wcd9320_put_dec_enum PROVE PowInv'
<1> USE DEF PowInv
<1>1. PICK w \in pow_wired, val \in 0 .. 3 :
        /\ w[1] = "dec" /\ (w[2] <= 6 => val <= 2)
        /\ ControlStep([pow EXCEPT !.dec[w[2]] = val,
             !.bits = IF adc_dmic_sel(w[2], val) THEN @ \union {<<"dmic", w[2]>>} ELSE @ \ {<<"dmic", w[2]>>}])
  BY DEF wcd9320_put_dec_enum
<1> DEFINE n == w[2]
           dmic == <<"dmic", n>>
           dec == [pow.dec EXCEPT ![n] = val]
           bits == IF adc_dmic_sel(n, val) THEN pow.bits \union {dmic} ELSE pow.bits \ {dmic}
<1>2. w = <<"dec", n>> /\ n \in 1 .. 10
  BY <1>1, WiredIs, WidgetIs
<1>3. pow_wired' = pow_wired /\ pow_phase' = pow_phase
  BY <1>1 DEF ControlStep
<1>4. pow' = [pow EXCEPT !.dec = dec, !.bits = bits]
  BY <1>1 DEF ControlStep, PowTyped, PowState
<1>5. pow \in PowState /\ dec \in [1 .. 10 -> 0 .. 3] /\ bits \in SUBSET Bits
  <2>1. dmic \in Bits
    BY <1>2 DEF Bits, BitNames
  <2> QED BY <2>1, <1>2 DEF PowTyped, PowState
<1> HIDE DEF dec, bits
<1>6. /\ pow' \in PowState /\ pow'.bits = bits /\ pow'.dec = dec
      /\ pow'.ldo_h_users = pow.ldo_h_users /\ pow'.adc_users = pow.adc_users
      /\ pow'.cfilt_users = pow.cfilt_users /\ pow'.undercut = pow.undercut
      /\ pow'.clsh = pow.clsh /\ pow'.clsh_users = pow.clsh_users /\ pow'.cp_users = pow.cp_users
      /\ pow'.comp_enabled = pow.comp_enabled /\ pow'.moved = pow.moved
      /\ pow'.overrun = pow.overrun
  BY <1>4, <1>5 DEF PowState
<1>7. \A b : b # dmic => (b \in bits <=> b \in pow.bits)
  BY DEF bits
<1>8. ASSUME NEW kind \in Kinds PROVE Same(kind)
  <2>1. kind # "dmic" /\ \A b : b[1] \in BitKinds(kind) => b # dmic
    BY DEF Kinds, BitKinds
  <2> QED BY <1>3, <1>6, <1>7, <2>1 DEF Same
<1>9. LdoInv' /\ AdcInv' /\ BiasInv' /\ DecInv' /\ RxBiasInv' /\ DacInv' /\ CompInv' /\ RxInv'
  BY <1>8, LdoKept, AdcKept, BiasKept, DecKept, RxBiasKept, DacKept, CompKept, RxKept DEF Kinds
<1>10. ASSUME NEW v \in pow_wired, v[1] = "dec", <<v[2], dec[v[2]]>> # <<6, 2>>
       PROVE  <<"dmic", v[2]>> \in bits <=> Digital(v[2], dec[v[2]])
  <2>1. v[2] \in 1 .. 10
    BY <1>10, WiredIs, WidgetIs
  <2>2. CASE v[2] = n
    <3>1. dec[v[2]] = val
      BY <1>2, <2>2 DEF dec, PowTyped, PowState
    <3>2. <<"dmic", v[2]>> \in bits <=> adc_dmic_sel(n, val)
      BY <2>2 DEF bits
    <3>3. adc_dmic_sel(n, val) <=> Digital(n, val)
      <4>1. ~(n = 6 /\ val = 2)
        BY <1>10, <2>2, <3>1
      <4> QED BY <1>2, <4>1 DEF adc_dmic_sel, Digital
    <3> QED BY <2>2, <3>1, <3>2, <3>3
  <2>3. CASE v[2] # n
    <3>1. dec[v[2]] = pow.dec[v[2]]
      BY <2>1, <2>3 DEF dec, PowTyped, PowState
    <3>2. <<"dmic", v[2]>> \in bits <=> <<"dmic", v[2]>> \in pow.bits
      BY <1>7, <2>3
    <3> QED BY <1>10, <3>1, <3>2 DEF DecFollows
  <2> QED BY <2>2, <2>3
<1>11. DecFollows'
  <2>1. \A v \in pow_wired' : v[1] = "dec" /\ <<v[2], pow'.dec[v[2]]>> # <<6, 2>> =>
          (<<"dmic", v[2]>> \in pow'.bits <=> Digital(v[2], pow'.dec[v[2]]))
    BY <1>3, <1>6, <1>10
  <2>2. \A k, x : Digital(k, x) <=> IF k <= 6 THEN x = 1 ELSE x \in {1, 2}
    BY DEF Digital
  <2> QED BY <2>1 DEF DecFollows, Digital
<1>12. PowTyped' /\ PowNested'
  BY <1>3, <1>6, NestedStays DEF PowTyped
<1> QED BY <1>9, <1>11, <1>12

\* A prepare of a playback rewrites the clocks of every interpolator.
LEMMA PreparePlaybackStep ==
  ASSUME PowInv, prepare_playback PROVE PowInv'
<1> USE DEF PowInv
<1> DEFINE clocks == {<<"rx_clk", 1>>, <<"rx_clk", 2>>}
           bits == {b \in pow.bits : b[1] # "rx_clk"} \union clocks
           over == {w \in pow_wired : w[1] = "rx" /\ (w[2] > 2 \/ pow_phase[w] = "off")}
<1>1. /\ pow' = [pow EXCEPT !.bits = bits, !.overrun = over]
      /\ pow_wired' = pow_wired /\ pow_phase' = pow_phase
  BY DEF prepare_playback, ControlStep
<1>2. pow \in PowState /\ bits \in SUBSET Bits /\ over \in SUBSET PowWidgets
  <2>1. clocks \subseteq Bits
    BY DEF Bits, BitNames
  <2> QED BY <2>1, WiredIs DEF PowTyped, PowState
<1> HIDE DEF bits, over
<1>3. /\ pow' \in PowState /\ pow'.bits = bits /\ pow'.overrun = over
      /\ pow'.ldo_h_users = pow.ldo_h_users /\ pow'.adc_users = pow.adc_users
      /\ pow'.cfilt_users = pow.cfilt_users /\ pow'.undercut = pow.undercut
      /\ pow'.clsh = pow.clsh /\ pow'.clsh_users = pow.clsh_users /\ pow'.cp_users = pow.cp_users
      /\ pow'.comp_enabled = pow.comp_enabled /\ pow'.moved = pow.moved /\ pow'.dec = pow.dec
  BY <1>1, <1>2 DEF PowState
<1>4. ASSUME NEW kind \in Kinds \union {"dmic"}, kind # "rx" PROVE Same(kind)
  <2>1. "rx_clk" \notin BitKinds(kind)
    BY <1>4 DEF Kinds, BitKinds
  <2>2. \A b : b[1] # "rx_clk" => (b \in bits <=> b \in pow.bits)
    BY DEF bits
  <2> QED BY <1>1, <1>3, <1>4, <2>1, <2>2 DEF Same
<1>5. /\ LdoInv' /\ AdcInv' /\ BiasInv' /\ DecInv' /\ RxBiasInv' /\ DacInv' /\ CompInv'
      /\ DecFollows'
  BY <1>4, LdoKept, AdcKept, BiasKept, DecKept, RxBiasKept, DacKept, CompKept, DecFollowsKept
     DEF Kinds
<1>6. RxInv'
  <2>1. ASSUME NEW w \in pow_wired, w[1] = "rx", w \notin over
        PROVE  pow_phase[w] # "off" /\ <<"rx_clk", w[2]>> \in bits
    <3>1. w[2] \in 1 .. 7 /\ ~(w[2] > 2) /\ pow_phase[w] # "off"
      BY <2>1, WiredIs, WidgetIs DEF over
    <3>2. w[2] = 1 \/ w[2] = 2
      BY <3>1
    <3> QED BY <3>1, <3>2 DEF bits
  <2> QED BY <1>1, <1>3, <2>1 DEF RxInv
<1>7. PowTyped' /\ PowNested'
  BY <1>1, <1>3, NestedStays DEF PowTyped
<1> QED BY <1>5, <1>6, <1>7

\* At the probe nothing is up.
LEMMA PowInitInv == ASSUME PowInit PROVE PowInv
<1>1. PowTyped
  <2>1. pow_phase \in [pow_wired -> Phases]
    BY DEF PowInit, Phases
  <2>2. /\ [f \in 0 .. 2 |-> 0] \in [0 .. 2 -> Nat]
        /\ [c \in 0 .. 2 |-> FALSE] \in [0 .. 2 -> BOOLEAN]
        /\ [n \in 1 .. 10 |-> 0] \in [1 .. 10 -> 0 .. 3]
    OBVIOUS
  <2> QED BY <2>1, <2>2 DEF PowInit, PowTyped, PowState
<1>2. \A w \in pow_wired : pow_phase[w] = "off"
  BY DEF PowInit
<1>3. \A kind : UpOf(kind) = {}
  BY <1>2 DEF UpOf
<1>4. AdcsUp = {} /\ \A f : BiasesUp(f) = {}
  BY <1>3 DEF AdcsUp, BiasesUp
<1>5. Cardinality({}) = 0
  BY FS_EmptySet
<1>6. /\ pow.bits = {} /\ pow.adc_users = 0 /\ pow.ldo_h_users = 0
      /\ \A f \in 0 .. 2 : pow.cfilt_users[f] = 0
      /\ pow.clsh = 0 /\ pow.clsh_users = 0 /\ pow.cp_users = 0
      /\ \A n \in 1 .. 10 : pow.dec[n] = 0
  BY DEF PowInit
<1>7. PowNested /\ LdoInv /\ RxBiasInv /\ DecInv
  BY <1>2, <1>3, <1>6 DEF PowNested, LdoInv, RxBiasInv, DecInv
<1>8. AdcInv
  BY <1>4, <1>5, <1>6 DEF AdcInv
<1>9. BiasInv
  BY <1>3, <1>4, <1>5, <1>6 DEF BiasInv
<1>10. DacInv
  BY <1>3, <1>6 DEF DacInv
<1>11. CompInv /\ RxInv
  BY <1>2, <1>6 DEF CompInv, RxInv
<1>12. DecFollows
  <2>1. ASSUME NEW w \in pow_wired, w[1] = "dec" PROVE ~Digital(w[2], pow.dec[w[2]])
    <3>1. w[2] \in 1 .. 10
      BY <1>1, <2>1, WiredIs, WidgetIs
    <3> QED BY <1>6, <3>1 DEF Digital
  <2> QED BY <1>6, <2>1 DEF DecFollows
<1> QED BY <1>1, <1>7, <1>8, <1>9, <1>10, <1>11, <1>12 DEF PowInv

\* The invariant, of every behaviour.
LEMMA PowInvariant == PowSpec => []PowInv
<1>1. ASSUME PowInv, [PowNext]_pow_vars PROVE PowInv'
  <2>1. CASE UNCHANGED pow_vars
    <3>1. \A kind : Same(kind)
      BY <2>1 DEF pow_vars, Same
    <3>2. /\ LdoInv' /\ AdcInv' /\ BiasInv' /\ DecInv' /\ RxBiasInv' /\ DacInv' /\ CompInv'
          /\ RxInv' /\ DecFollows'
      BY <1>1, <3>1, LdoKept, AdcKept, BiasKept, DecKept, RxBiasKept, DacKept, CompKept, RxKept,
         DecFollowsKept DEF PowInv
    <3>3. PowTyped' /\ PowNested'
      BY <1>1, <2>1, NestedStays DEF PowInv, PowTyped, pow_vars
    <3> QED BY <3>2, <3>3 DEF PowInv
  <2>2. CASE PowNext
    BY <1>1, <2>2, WidgetsStep, SetCompanderStep, PutDecStep, PreparePlaybackStep DEF PowNext
  <2> QED BY <1>1, <2>1, <2>2
<1> QED BY <1>1, PowInitInv, PTL DEF PowSpec

\* A finite set that has an element has a cardinality above zero.
LEMMA SomeUp ==
  ASSUME NEW s, IsFiniteSet(s), NEW e \in s PROVE Cardinality(s) > 0
<1>1. Cardinality(s) \in Nat /\ Cardinality(s) # 0
  BY FS_CardinalityType, FS_EmptySet
<1> QED BY <1>1

\* What a widget that is on relies on is there.
LEMMA PoweredHolds == ASSUME PowInv PROVE PowPowered
<1> USE DEF PowInv
<1>1. SUFFICES ASSUME NEW w \in pow_wired, pow_phase[w] = "on"
               PROVE
      /\ w[1] = "bias" =>
           /\ {<<"ldo_h", 0>>, <<"cfilt", cfilt(w[2])>>} \subseteq pow.bits
           /\ w \notin pow.undercut => <<"micb", w[2]>> \in pow.bits
      /\ w[1] = "adc" =>
           /\ <<"init", w[2]>> \notin pow.bits
           /\ w[2] <= 4 => <<"adc_clk", 0>> \in pow.bits
      /\ w[1] = "dec" => {<<"mute", w[2]>>, <<"bypass", w[2]>>} \intersect pow.bits = {}
      /\ w[1] = "dac" =>
           {<<"rx_bias", 0>>, <<"rdac", w[2]>>, <<"clsh", 0>>, <<"cp", 0>>, <<"clsh_hph", w[2]>>,
            <<"buck", 0>>, <<"ncp", 0>>} \subseteq pow.bits
      /\ w[1] = "rx" /\ w \notin pow.overrun => <<"rx_clk", w[2]>> \in pow.bits
      /\ w[1] = "comp" /\ w[2] \notin pow.moved =>
           CompanderBits(w[2]) \intersect pow.bits
             = IF pow.comp_enabled[w[2]] THEN CompanderBits(w[2]) ELSE {}
  BY DEF PowPowered, IsOn
<1>2. w \in UpOf(w[1]) /\ \A v \in Needs(w) : v \in UpOf(v[1])
  <2>1. \A v \in Needs(w) : v \in pow_wired /\ pow_phase[v] = "on"
    BY <1>1, NeedsWired DEF PowNested
  <2> QED BY <1>1, <2>1 DEF UpOf
<1>3. CASE w[1] = "bias"
  <2>1. <<"ldo_h", 0>> \in UpOf("ldo_h")
    BY <1>2, <1>3 DEF Needs
  <2>2. w \in BiasesUp(cfilt(w[2])) /\ cfilt(w[2]) \in 0 .. 2
    BY <1>2, <1>3, WiredIs, WidgetIs DEF BiasesUp, cfilt
  <2>3. IsFiniteSet(BiasesUp(cfilt(w[2])))
    <3>1. BiasesUp(cfilt(w[2])) \subseteq pow_wired
      BY DEF BiasesUp, UpOf
    <3> QED BY <3>1, WiredIs, FS_Subset
  <2>4. Cardinality(BiasesUp(cfilt(w[2]))) > 0
    BY <2>2, <2>3, SomeUp
  <2> QED BY <1>2, <1>3, <2>1, <2>2, <2>4 DEF LdoInv, BiasInv
<1>4. CASE w[1] = "adc"
  <2>1. w = <<"adc", w[2]>> /\ w[2] \in 1 .. 6
    BY <1>4, WiredIs, WidgetIs
  <2>2. <<"init", w[2]>> \notin pow.bits
    BY <1>1, <2>1 DEF AdcInv
  <2>3. ASSUME w[2] <= 4 PROVE <<"adc_clk", 0>> \in pow.bits
    <3>1. w \in AdcsUp
      BY <1>2, <1>4, <2>3 DEF AdcsUp
    <3>2. IsFiniteSet(AdcsUp)
      <4>1. AdcsUp \subseteq pow_wired
        BY DEF AdcsUp, UpOf
      <4> QED BY <4>1, WiredIs, FS_Subset
    <3>3. Cardinality(AdcsUp) > 0
      BY <3>1, <3>2, SomeUp
    <3> QED BY <3>3 DEF AdcInv
  <2> QED BY <1>4, <2>2, <2>3
<1>5. CASE w[1] = "dec"
  BY <1>1, <1>5 DEF DecInv
<1>6. CASE w[1] = "dac"
  <2>1. <<"rx_bias", 0>> \in UpOf("rx_bias")
    BY <1>2, <1>6 DEF Needs
  <2>2. <<"rx_bias", 0>> \in pow.bits
    BY <2>1 DEF RxBiasInv
  <2>3. {<<"rdac", w[2]>>} \union ClassH(w[2]) \subseteq pow.bits
    BY <1>2, <1>6 DEF DacInv
  <2> QED BY <1>6, <2>2, <2>3 DEF ClassH
<1>7. CASE w[1] = "rx"
  BY <1>1, <1>7 DEF RxInv
<1>8. CASE w[1] = "comp"
  BY <1>1, <1>8 DEF CompInv
<1> QED BY <1>3, <1>4, <1>5, <1>6, <1>7, <1>8

\* What nobody uses is off.
LEMMA ReleasedHolds == ASSUME PowInv PROVE PowReleased
<1> USE DEF PowInv
<1> DEFINE Up(kind) == {w \in pow_wired : w[1] = kind /\ ~IsOff(w)}
           adcs == {w \in Up("adc") : w[2] <= 4}
           biases(f) == {w \in Up("bias") : cfilt(w[2]) = f}
<1>1. \A kind : Up(kind) = UpOf(kind)
  BY DEF UpOf, IsOff
<1>2. adcs = AdcsUp /\ \A f : biases(f) = BiasesUp(f)
  BY <1>1 DEF AdcsUp, BiasesUp
<1>3. Cardinality({}) = 0
  BY FS_EmptySet
<1> HIDE DEF Up, adcs, biases
<1>4. pow.adc_users = Cardinality(adcs) /\ (adcs = {} => <<"adc_clk", 0>> \notin pow.bits)
  BY <1>2, <1>3 DEF AdcInv
<1>5. Up("ldo_h") = {} => <<"ldo_h", 0>> \notin pow.bits
  BY <1>1 DEF LdoInv
<1>6. ASSUME NEW f \in 0 .. 2
      PROVE  /\ pow.cfilt_users[f] = Cardinality(biases(f))
             /\ biases(f) = {} => <<"cfilt", f>> \notin pow.bits
  BY <1>2, <1>3 DEF BiasInv
<1>7. ASSUME NEW n \in 1 .. 4, {w \in Up("bias") : w[2] = n} = {},
             NEW b \in pow.bits, b[1] \in {"micb", "rbias"}
      PROVE  b[2] # n
  <2>1. \A w \in UpOf("bias") : w[2] # n
    BY <1>1, <1>7
  <2>2. CASE b[1] = "micb"
    BY <2>1, <2>2 DEF BiasInv
  <2>3. CASE b[1] = "rbias"
    <3>1. PICK w \in UpOf("bias") : b = <<"rbias", w[2], w[3]>>
      BY <2>3 DEF BiasInv
    <3> QED BY <2>1, <3>1
  <2> QED BY <1>7, <2>2, <2>3
<1>8. ASSUME NEW w \in pow_wired, pow_phase[w] = "off"
      PROVE  /\ w[1] = "comp" /\ w[2] \notin pow.moved => CompanderBits(w[2]) \intersect pow.bits = {}
             /\ w[1] = "rx" /\ w \notin pow.overrun => <<"rx_clk", w[2]>> \notin pow.bits
  BY <1>8 DEF CompInv, RxInv
<1> QED BY <1>4, <1>5, <1>6, <1>7, <1>8 DEF PowReleased, Up, adcs, biases, IsOff

\* What is on works, and works on what the controls say, with any widgets routed
\* together: taiko_codec_enable_*(), the class H block, the companders, and
\* wcd9320_put_dec_enum().
THEOREM PowServesAlways == PowSpec => []PowServes
<1>1. PowInv => PowServes
  BY PoweredHolds DEF PowServes, PowInv
<1> QED BY <1>1, PowInvariant, PTL

\* What nobody uses is off, and the counts of the shared clocks and filters are
\* the numbers of their users, however many there are.
THEOREM PowReleasedAlways == PowSpec => []PowReleased
BY ReleasedHolds, PowInvariant, PTL

=============================================================================
