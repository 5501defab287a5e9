------------------------------ MODULE FmRepair ------------------------------
(***************************************************************************)
(* The ALSA capture plugin that repairs the FM radio's sound,              *)
(* pcm_fmrepair.c.  Frames are numbered from 0 as they come in.  Each goes *)
(* into a ring; once its neighbours are there it is classified; outliers   *)
(* are gathered into bursts; a tracker follows the period of the bursts;   *)
(* and a frame that is DELAY frames old is given to the application,       *)
(* interpolated if it is in a window that was blanked by then.             *)
(*                                                                         *)
(* Left out: the samples.  Whether a frame is an outlier is the input, and *)
(* what comes out is the raw frame or one drawn between two others.  The   *)
(* period is kept to the nearest frame, as the predictions use it.         *)
(***************************************************************************)
EXTENDS Integers, Sequences

CONSTANTS
  RING, DELAY, HALF, CLUSTER, MIN_OUTLIERS, STRONG, MAX_BURST, MARGIN,
  P_INIT, P_MIN, P_MAX, PHASE_TOL, PRED_HALF, MAX_BLANKS,
  MaxFrames     (* bound on the frames captured after a (re)start          *)

\* The #defines, :37-53, and what of their values the algorithm relies on: a
\* burst and a missed prediction end early enough before the output gets
\* there, a window's right neighbour has come in by then, and its left one is
\* still in the ring.
ASSUME ConstAssumption ==
  /\ {RING, DELAY, HALF, CLUSTER, MIN_OUTLIERS, STRONG, MAX_BURST, MARGIN,
      P_INIT, P_MIN, P_MAX, PHASE_TOL, PRED_HALF, MAX_BLANKS, MaxFrames} \subseteq Nat
  /\ MAX_BURST + MARGIN + HALF + 2 <= DELAY
  /\ PHASE_TOL + PRED_HALF + HALF + 2 <= DELAY
  /\ MARGIN <= HALF
  /\ PRED_HALF <= PHASE_TOL
  /\ DELAY + MAX_BURST + 2 * MARGIN + 3 <= RING
  /\ DELAY + 2 * PRED_HALF + 2 <= RING
  /\ 0 < P_MIN /\ P_MIN <= P_INIT /\ P_INIT <= P_MAX
  /\ 0 < MAX_BLANKS /\ 0 < MIN_OUTLIERS

VARIABLES
  step,      (* where fm_transfer() is with the newest frame               *)
  n_in,      (* frames received from the slave                             *)
  n_out,     (* frames delivered to the application                        *)
  n_cls,     (* frames classified so far                                   *)
  open,      (* a burst is under construction: its first and last outlier, *)
  first, last, count, (* and how many there are                            *)
  locked,    (* the tracker knows the period                               *)
  period,
  c_last,    (* centre of the last accepted burst, or a prediction of it   *)
  misses,
  blanks,    (* the windows to blank, oldest first                         *)
  due        (* history: the windows of accepted bursts not yet played     *)

counters == <<n_in, n_out, n_cls>>
burst    == <<open, first, last, count>>
tracker  == <<locked, period, c_last, misses>>
vars == <<step, counters, burst, tracker, blanks, due>>

Min(a, b) == IF a < b THEN a ELSE b
Max(a, b) == IF a < b THEN b ELSE a

Window(a, b) == [a |-> Max(a, 1), b |-> b]
In(m, w) == w.a <= m /\ m <= w.b

-----------------------------------------------------------------------------
(* The parts of fm_transfer() and of track(), in the order they run for    *)
(* each frame.                                                             *)

\* Variant: a window of twice the size.
Complete_late(in, cls) == cls + 2 * HALF + 1 < in

\* Frame n_cls has its whole window.
Complete(in, cls) == cls + HALF + 1 < in

AfterClassified(cls) == IF Complete(n_in, cls) THEN "classify" ELSE "emit"

receive ==
  /\ step = "frame"
  /\ n_in < MaxFrames
  /\ n_in' = n_in + 1
  /\ step' = IF Complete(n_in + 1, n_cls) THEN "classify" ELSE "emit"
  /\ UNCHANGED <<n_out, n_cls, burst, tracker, blanks, due>>

\* The first frames are not looked at; the others are whatever they are.
classify ==
  /\ step = "classify"
  /\ \E outlier \in BOOLEAN :
       /\ outlier => n_cls > HALF
       /\ IF outlier
          THEN /\ open' = TRUE
               /\ first' = IF open THEN first ELSE n_cls
               /\ last' = n_cls
               /\ count' = IF open THEN count + 1 ELSE 1
          ELSE UNCHANGED burst
  /\ step' = "close"
  /\ UNCHANGED <<counters, tracker, blanks, due>>

\* Variant: no room is made.
add_blank_no_room(w) == blanks' = Append(blanks, w)

\* The oldest window makes room.
add_blank(w) ==
  blanks' = Append(IF Len(blanks) = MAX_BLANKS THEN Tail(blanks) ELSE blanks, w)

\* Variant: a burst is only closed by quiet frames.
Over_quiet_only == n_cls - last > CLUSTER

Over == n_cls - last > CLUSTER \/ n_cls - first > MAX_BURST

\* No burst ends here, or one of too few outliers.
stay_open ==
  /\ step = "close"
  /\ ~(open /\ Over /\ count >= MIN_OUTLIERS)
  /\ open' = (open /\ ~Over)
  /\ step' = "predict"
  /\ UNCHANGED <<counters, first, last, count, tracker, blanks, due>>

centre == (first + last) \div 2
pred   == c_last + period
OnPhase == pred - PHASE_TOL <= centre /\ centre <= pred + PHASE_TOL

\* A step of the period towards a measured one: between them.
Towards(lo, hi) == Min(period, lo) .. Max(period, hi)

\* The periods in d frames, counted with a period that is half a frame longer
\* or shorter than the one kept.
Periods(d) == ((4 * d + 2 * period + 1) \div (2 * (2 * period + 1)))
              .. ((4 * d + 2 * period - 1) \div (2 * (2 * period - 1)))

\* How the period follows an accepted burst d frames after the last one.
Adapt(d) ==
  IF P_MIN < d /\ d < P_MAX THEN period' \in Towards(d, d)
  ELSE IF ~OnPhase /\ 2 * d > 3 * P_MIN
       THEN \E k \in Periods(d) :
              k > 0 /\ period' \in Towards(d \div k, (d + k - 1) \div k)
       ELSE UNCHANGED period

Accept ==
  LET w == Window(first - MARGIN, last + MARGIN)
  IN  /\ add_blank(w)
      /\ due' = due \union {w}
      /\ c_last' = centre
      /\ misses' = 0

EndOfBurst ==
  /\ step = "close"
  /\ open /\ Over /\ count >= MIN_OUTLIERS
  /\ open' = FALSE
  /\ step' = "predict"
  /\ UNCHANGED <<counters, first, last, count>>

\* close_burst(), locked: off phase only a strong burst is believed.
close_locked ==
  /\ EndOfBurst
  /\ locked
  /\ OnPhase \/ count >= STRONG
  /\ Adapt(centre - c_last)
  /\ Accept
  /\ UNCHANGED locked

close_ignored ==
  /\ EndOfBurst
  /\ locked
  /\ ~OnPhase /\ count < STRONG
  /\ UNCHANGED <<tracker, blanks, due>>

\* close_burst(), not locked: two bursts about a period apart lock it.
close_unlocked ==
  /\ EndOfBurst
  /\ ~locked
  /\ LET d == centre - c_last
     IN  IF c_last # 0 /\ P_MIN < d /\ d < P_MAX
         THEN locked' = TRUE /\ period' = d
         ELSE UNCHANGED <<locked, period>>
  /\ Accept

Missed == locked /\ ~open /\ n_cls > pred + PHASE_TOL

\* A predicted burst that never showed is blanked anyway; three in a row, and
\* the tracker lets go.
predict_missed ==
  /\ step = "predict"
  /\ Missed
  /\ add_blank(Window(pred - PRED_HALF, pred + PRED_HALF))
  /\ c_last' = pred
  /\ misses' = misses + 1
  /\ locked' = (misses + 1 < 3)
  /\ n_cls' = n_cls + 1
  /\ step' = AfterClassified(n_cls + 1)
  /\ UNCHANGED <<n_in, n_out, burst, period, due>>

predict_none ==
  /\ step = "predict"
  /\ ~Missed
  /\ n_cls' = n_cls + 1
  /\ step' = AfterClassified(n_cls + 1)
  /\ UNCHANGED <<n_in, n_out, burst, tracker, blanks, due>>

\* Variant: a window is dropped once it has begun.
DropBehind_early ==
  \E k \in 0 .. Len(blanks) :
    /\ \A i \in 1 .. k : blanks[i].a < n_out
    /\ k < Len(blanks) => blanks[k + 1].a >= n_out
    /\ blanks' = SubSeq(blanks, k + 1, Len(blanks))

\* emit(): the windows at the head that are behind are dropped.  (What is
\* played follows from blanks: see Played.)
DropBehind ==
  \E k \in 0 .. Len(blanks) :
    /\ \A i \in 1 .. k : blanks[i].b < n_out
    /\ k < Len(blanks) => blanks[k + 1].b >= n_out
    /\ blanks' = SubSeq(blanks, k + 1, Len(blanks))

emit ==
  /\ step = "emit"
  /\ n_in > DELAY
  /\ DropBehind
  /\ n_out' = n_out + 1
  /\ due' = {w \in due : w.b > n_out}
  /\ step' = "frame"
  /\ UNCHANGED <<n_in, n_cls, burst, tracker>>

\* Silence until the delay is filled.
emit_silence ==
  /\ step = "emit"
  /\ n_in <= DELAY
  /\ step' = "frame"
  /\ UNCHANGED <<counters, burst, tracker, blanks, due>>

\* The stream is prepared anew, between two transfers.
fm_init ==
  /\ step = "frame"
  /\ n_in' = 0 /\ n_out' = 0 /\ n_cls' = 0
  /\ open' = FALSE
  /\ locked' = FALSE /\ period' = P_INIT /\ c_last' = 0 /\ misses' = 0
  /\ blanks' = <<>> /\ due' = {}
  /\ UNCHANGED <<step, first, last, count>>

-----------------------------------------------------------------------------

Init ==
  /\ step = "frame"
  /\ n_in = 0 /\ n_out = 0 /\ n_cls = 0
  /\ open = FALSE /\ first = 0 /\ last = 0 /\ count = 0
  /\ locked = FALSE /\ period = P_INIT /\ c_last = 0 /\ misses = 0
  /\ blanks = <<>> /\ due = {}

Next ==
  \/ receive \/ classify
  \/ stay_open \/ close_locked \/ close_ignored \/ close_unlocked
  \/ predict_missed \/ predict_none
  \/ emit \/ emit_silence
  \/ fm_init

Spec == Init /\ [][Next]_vars

-----------------------------------------------------------------------------
(* Properties.                                                             *)

TypeOK ==
  /\ step \in {"frame", "classify", "close", "predict", "emit"}
  /\ n_in \in Nat /\ n_out \in Nat /\ n_cls \in Nat
  /\ open \in BOOLEAN /\ first \in Nat /\ last \in Nat /\ count \in Nat
  /\ locked \in BOOLEAN /\ period \in Nat /\ c_last \in Nat /\ misses \in Nat
  /\ blanks \in Seq([a : Nat, b : Int]) /\ Len(blanks) <= MAX_BLANKS
  /\ due \subseteq [a : Nat, b : Int]

\* A burst is only known for what it is some time after it came in: the window
\* of every accepted one is blanked before its first frame is played (DELAY
\* against MAX_BURST, MARGIN and the classifier's window; :39, :171, :192).
InTime == [][\A w \in due' \ due : n_out <= w.a]_vars

\* And so is the window of a prediction that failed, unless another burst was
\* under construction when the time for it was up: track() then waits for its
\* end (:179).
PredictedInTime ==
  [][misses' > misses /\ n_cls = pred + PHASE_TOL + 1 =>
       n_out <= Window(pred - PRED_HALF, pred + PRED_HALF).a]_vars

\* No frame of an accepted burst is played as it came in: its window is still
\* in the list when its frames are due, however many were added since
\* (MAX_BLANKS), and a window behind is not dropped for it (:202).
Played(m) == step = "emit" /\ n_in > DELAY /\ m = n_out
Repaired ==
  \A w \in due : Played(n_out) /\ In(n_out, w) =>
    \E i \in DOMAIN blanks : In(n_out, blanks[i])

\* Also, no list or count leaves its type: the list never exceeds MAX_BLANKS.
RepairSound == TypeOK /\ Repaired

\* The two frames an interpolation draws between are in the ring: the later
\* has come in, and the earlier is not overwritten (:209).
Anchored ==
  Played(n_out) =>
    \A i \in DOMAIN blanks : In(n_out, blanks[i]) =>
      /\ blanks[i].b + 1 < n_in
      /\ n_in - RING <= blanks[i].a - 1

=============================================================================
