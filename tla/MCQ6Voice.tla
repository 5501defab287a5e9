----------------------------- MODULE MCQ6Voice -----------------------------
(* Instances of Q6Voice for TLC: the parameter settings the runs use.      *)
EXTENDS Q6Voice

Setting(both, stream, port, vp) ==
  [require_both |-> both, attach_stream |-> stream, playback_port |-> port,
   unmute |-> TRUE, voice_path |-> vp]

\* The defaults, with unmute set or not.
Defaults == {[Setting(TRUE, FALSE, FALSE, p) EXCEPT !.unmute = u] :
               u \in BOOLEAN, p \in Paths}

\* A stream of our own, with in-call playback or without.
OwnStream == {Setting(TRUE, TRUE, port, p) : port \in BOOLEAN, p \in Paths}

\* The optional modes: in-call playback on a stream of our own, on any path;
\* in-call playback asked for without a stream; and what holdpcm.c with
\* "playback" as its third argument needs.
Optional ==
  {Setting(TRUE, TRUE, TRUE, p) : p \in Paths}
    \union {Setting(TRUE, FALSE, TRUE, 0), Setting(FALSE, FALSE, FALSE, 0)}

\* What call-say.sh sets and resets, on top of the defaults.
CallSay == OwnStream \union Defaults

=============================================================================
