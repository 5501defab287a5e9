------------------------------ MODULE Q6Voice ------------------------------
(***************************************************************************)
(* The voice paths of q6voice.c and their two users in q6voice-dai.c.      *)
(*                                                                         *)
(* A path is brought up by prepare() and taken down by shutdown() of the   *)
(* two directions of the voice PCM, each a thread of its own; the path's   *)
(* mutex serialises them.  Bringing a path up is a sequence of commands to *)
(* three DSP services, every one of which may be refused, time out, or be  *)
(* acknowledged by the late answer of an earlier one (module Q6Session     *)
(* shows exactly when).  The module parameters are writable at run time    *)
(* and are read in the middle of these sequences.                          *)
(***************************************************************************)
EXTENDS Naturals, FiniteSets

CONSTANTS
  Paths,        (* enum q6voice_path_type                                  *)
  ParamValues,  (* the combinations of module parameters in use            *)
  HotParams,    (* parameters written while a voice PCM is open; the       *)
                (* others are only written between calls                   *)
  Faults,       (* what may go wrong with a command: "refuse", "timeout"   *)
  MaxFaults     (* bound on the commands that go wrong in a behaviour      *)

Dirs == {"playback", "capture"}
Params == [require_both  : BOOLEAN, attach_stream : BOOLEAN,
           playback_port : BOOLEAN, \* TRUE: a port is set, FALSE: 0
           unmute        : BOOLEAN, voice_path    : Paths]

ASSUME ConstAssumption ==
  /\ ParamValues \subseteq Params
  /\ HotParams \subseteq
       {"require_both", "attach_stream", "playback_port", "unmute", "voice_path"}
  /\ Faults \subseteq {"refuse", "timeout"}
  /\ MaxFaults \in Nat

VARIABLES
  params,   (* the module parameters                                       *)
  pcm,      (* the directions of the voice PCM that are open               *)
  bound,    (* the platform device is bound: q6voice_create() .. _free()   *)
  pc,       (* where each thread is                                        *)
  at,       (* the path each thread works on                               *)
  lock,     (* p->lock: the thread that holds it                           *)
  runtime,  (* the paths whose p->runtime is allocated                     *)
  started,  (* p->runtime->started, the set of its bits                    *)
  sess,     (* p->runtime->sessions, the services that have one            *)
  cvs,      (* the local variable cvs of q6voice_path_start()              *)
  dsp,      (* what is set up on the DSP for each path                     *)
  owed,     (* opcodes of timed-out commands whose answer may still come   *)
  doubt,    (* history: what the DSP left the driver in doubt about, by    *)
            (* not confirming the last command that concerned it           *)
  faults    (* history: the commands that went wrong so far                *)

wire == <<dsp, owed, doubt, faults>>
pathState == <<runtime, started, sess>>
vars == <<params, pcm, bound, pc, at, lock, pathState, cvs, wire>>

\* The two substreams, and device removal.
Threads == Dirs \union {"remove"}

-----------------------------------------------------------------------------
(* The commands, as q6mvm.c, q6cvp.c and q6cvs.c send them: the service    *)
(* they go to and what they add to and take from the state of the DSP.     *)
(* What a DESTROY does beyond the session itself is not relied upon.       *)

Cmd(svc, adds, drops) == [svc |-> svc, adds |-> adds, drops |-> drops]

q6mvm ==
  [CREATE_MVM    |-> Cmd("mvm", {"mvm"}, {"dual"}),
   DUAL_CONTROL  |-> Cmd("mvm", {"dual"}, {}),
   ATTACH_STREAM |-> Cmd("mvm", {"stream"}, {}),
   DETACH_STREAM |-> Cmd("mvm", {}, {"stream"}),
   ATTACH        |-> Cmd("mvm", {"vocproc"}, {}),
   DETACH        |-> Cmd("mvm", {}, {"vocproc"}),
   START_VOICE   |-> Cmd("mvm", {"running"}, {}),
   STOP_VOICE    |-> Cmd("mvm", {}, {"running"}),
   DESTROY_MVM   |-> Cmd("mvm", {}, {"mvm", "dual"})]

q6cvp ==
  [CREATE_CVP    |-> Cmd("cvp", {"cvp"}, {}),
   ENABLE        |-> Cmd("cvp", {"enabled"}, {}),
   DISABLE       |-> Cmd("cvp", {}, {"enabled"}),
   MUTE_V2       |-> Cmd("cvp", {}, {}),
   DESTROY_CVP   |-> Cmd("cvp", {}, {"cvp"})]

q6cvs ==
  [CREATE_CVS    |-> Cmd("cvs", {"cvs"}, {}),
   PLAYBACK_START |-> Cmd("cvs", {"playback"}, {}),
   PLAYBACK_STOP |-> Cmd("cvs", {}, {"playback"}),
   DESTROY_CVS   |-> Cmd("cvs", {}, {"cvs"})]

Opcodes == DOMAIN q6mvm \union DOMAIN q6cvp \union DOMAIN q6cvs
Command(o) == IF o \in DOMAIN q6mvm THEN q6mvm[o]
              ELSE IF o \in DOMAIN q6cvp THEN q6cvp[o] ELSE q6cvs[o]
Services == {"mvm", "cvp", "cvs"}
Facts == {"mvm", "dual", "stream", "vocproc", "running", "cvp", "enabled",
          "cvs", "playback"}

\* After an answer from a service that serves in order, none of its earlier
\* commands can still be answered.
SettledBy(svc, p) == {o \in owed[p] : Command(o).svc # svc}

\* One call of q6voice_common_send(); ok is whether it returns 0.
send(p, o, ok) ==
  LET c     == Command(o)
      after == (dsp[p] \ c.drops) \union c.adds
      fault(f) == f \in Faults /\ faults < MaxFaults /\ faults' = faults + 1
  IN  \/ \* executed, and answered in time
         /\ ok
         /\ dsp' = [dsp EXCEPT ![p] = after]
         /\ doubt' = [doubt EXCEPT ![p] = @ \ (c.adds \union c.drops)]
         /\ owed' = [owed EXCEPT ![p] = SettledBy(c.svc, p)]
         /\ UNCHANGED faults
      \/ \* refused: -EIO
         /\ ~ok
         /\ fault("refuse")
         /\ doubt' = [doubt EXCEPT ![p] = @ \union c.drops]
         /\ owed' = [owed EXCEPT ![p] = SettledBy(c.svc, p)]
         /\ UNCHANGED dsp
      \/ \* -ETIMEDOUT, or not sent: executed sooner, later or never
         /\ ~ok
         /\ fault("timeout")
         /\ dsp' \in {dsp, [dsp EXCEPT ![p] = after]}
         /\ doubt' = [doubt EXCEPT ![p] = @ \union c.adds \union c.drops]
         /\ owed' = [owed EXCEPT ![p] = @ \union {o}]
      \/ \* the late answer to an earlier command of this opcode is taken
         /\ o \in owed[p]
         /\ dsp' \in {dsp, [dsp EXCEPT ![p] = after]}
         /\ doubt' = [doubt EXCEPT ![p] = @ \union c.adds \union c.drops]
         /\ UNCHANGED <<owed, faults>>

-----------------------------------------------------------------------------

At(t, l) == pc[t] = l
Goto(t, l) == pc' = [pc EXCEPT ![t] = l]
Unlock(t) == lock' = [lock EXCEPT ![at[t]] = "free"]
Acquire(t, l) == /\ At(t, l)
                 /\ lock[at[t]] = "free"

\* A step that sends one command, which returns 0 iff ok, and goes on.
Step(t, l, o, ok, next) ==
  /\ At(t, l)
  /\ send(at[t], o, ok)
  /\ Goto(t, next)
  /\ UNCHANGED <<params, pcm, bound, at, lock, runtime, started, cvs>>

\* One that goes on to yes or to no, and one whose result is only logged.
Try(t, l, o, yes, no) ==
  \E ok \in BOOLEAN : Step(t, l, o, ok, IF ok THEN yes ELSE no) /\ UNCHANGED sess
Do(t, l, o, next) == Try(t, l, o, next, next)

\* A call through a null or a garbage pointer.
Oops(t) == Goto(t, "oops") /\ UNCHANGED <<params, pcm, bound, at, lock, pathState, cvs, wire>>

\* A step that only goes on.
Skip(t, l) == Goto(t, l) /\ UNCHANGED <<params, pcm, bound, at, lock, pathState, cvs, wire>>

-----------------------------------------------------------------------------
(* Userspace and the PCM core, external.                                   *)

Idle(t) == At(t, "idle")
Quiet == pcm = {} /\ \A t \in Threads : Idle(t)

\* A write to /sys/module/q6voice*/parameters: one parameter at a time.
write_param ==
  \E n \in DOMAIN params : \E v \in {q[n] : q \in ParamValues} :
    /\ n \in HotParams \/ Quiet
    /\ params[n] # v
    /\ params' = [params EXCEPT ![n] = v]
    /\ params' \in ParamValues
    /\ UNCHANGED <<pcm, bound, pc, at, lock, pathState, cvs, wire>>

\* Whoever sets require_both=N "has to open only playback to match".
open_pcm(d) ==
  /\ bound /\ Idle("remove") /\ Idle(d)
  /\ d \notin pcm
  /\ params.require_both \/ d = "playback"
  /\ pcm' = pcm \union {d}
  /\ UNCHANGED <<params, bound, pc, at, lock, pathState, cvs, wire>>

\* q6voice_dai_prepare(): also on a stream that is prepared already.
dai_prepare(d) ==
  /\ Idle(d) /\ d \in pcm
  /\ at' = [at EXCEPT ![d] = params.voice_path]
  /\ Goto(d, "start")
  /\ UNCHANGED <<params, pcm, bound, lock, pathState, cvs, wire>>

\* q6voice_dai_shutdown(), when the direction is closed.
dai_shutdown(d) ==
  /\ Idle(d) /\ d \in pcm
  /\ pcm' = pcm \ {d}
  /\ at' = [at EXCEPT ![d] = params.voice_path]
  /\ Goto(d, "stop")
  /\ UNCHANGED <<params, bound, lock, pathState, cvs, wire>>

-----------------------------------------------------------------------------
(* q6voice_start() and q6voice_path_start().                               *)

\* Whether the directions in s are enough for the voice session to run, in
\* q6voice_start() and q6voice_stop() alike.
wants_voice(s) == IF params.require_both THEN s = Dirs ELSE "playback" \in s

\* Variant: -EALREADY returns with the mutex held.
q6voice_start_no_unlock(d) ==
  /\ Acquire(d, "start")
  /\ LET p   == at[d]
         now == started[p] \union {d}
     IN  \/ /\ d \in started[p]
            /\ lock' = [lock EXCEPT ![p] = d]
            /\ Goto(d, "idle")
            /\ UNCHANGED <<runtime, started>>
         \/ /\ d \notin started[p]
            /\ runtime' = runtime \union {p}
            /\ started' = [started EXCEPT ![p] = now]
            /\ IF wants_voice(now)
               THEN lock' = [lock EXCEPT ![p] = d] /\ Goto(d, "mvm")
               ELSE UNCHANGED lock /\ Goto(d, "idle")
  /\ UNCHANGED <<params, pcm, bound, at, sess, cvs, wire>>

\* q6voice_start() up to the call of q6voice_path_start().
q6voice_start(d) ==
  /\ Acquire(d, "start")
  /\ LET p   == at[d]
         now == started[p] \union {d}
     IN  \/ \* -EALREADY, which prepare() returns as 0; or no memory
            /\ d \in started[p] \/ p \notin runtime
            /\ Goto(d, "idle")
            /\ UNCHANGED <<lock, runtime, started>>
         \/ /\ d \notin started[p]
            /\ runtime' = runtime \union {p}
            /\ started' = [started EXCEPT ![p] = now]
            /\ IF wants_voice(now)
               THEN lock' = [lock EXCEPT ![p] = d] /\ Goto(d, "mvm")
               ELSE UNCHANGED lock /\ Goto(d, "idle")
  /\ UNCHANGED <<params, pcm, bound, at, sess, cvs, wire>>

\* A session that was created and is kept in p->runtime.
Keep(t, svc) == sess' = [sess EXCEPT ![at[t]] = @ \union {svc}]

path_start_mvm(d) ==
  /\ At(d, "mvm")
  /\ IF "mvm" \in sess[at[d]]
     THEN Skip(d, "stream")
     ELSE Try(d, "mvm", "CREATE_MVM", "dual", "failed")

path_start_dual_control(d) ==
  \E ok \in BOOLEAN :
    /\ Step(d, "dual", "DUAL_CONTROL", ok, IF ok THEN "stream" ELSE "undual")
    /\ IF ok THEN Keep(d, "mvm") ELSE UNCHANGED sess

path_start_no_dual_control(d) == Do(d, "undual", "DESTROY_MVM", "failed")

\* Without attach_stream the variable cvs is left as it is: uninitialised.
path_start_stream(d) ==
  /\ At(d, "stream")
  /\ IF ~params.attach_stream
     THEN /\ cvs' = [cvs EXCEPT ![d] = "garbage"]
          /\ Goto(d, "cvp")
          /\ UNCHANGED <<params, pcm, bound, at, lock, pathState, wire>>
     ELSE IF "cvs" \in sess[at[d]]
     THEN /\ cvs' = [cvs EXCEPT ![d] = "cvs"]
          /\ Goto(d, "attach_stream")
          /\ UNCHANGED <<params, pcm, bound, at, lock, pathState, wire>>
     ELSE Skip(d, "create_cvs")

path_start_create_cvs(d) ==
  /\ At(d, "create_cvs")
  /\ \E ok \in BOOLEAN :
       /\ send(at[d], "CREATE_CVS", ok)
       /\ IF ok THEN Keep(d, "cvs") /\ cvs' = [cvs EXCEPT ![d] = "cvs"]
                ELSE UNCHANGED <<sess, cvs>>
       /\ Goto(d, IF ok THEN "attach_stream" ELSE "failed")
  /\ UNCHANGED <<params, pcm, bound, at, lock, runtime, started>>

path_start_attach_stream(d) == Try(d, "attach_stream", "ATTACH_STREAM", "cvp", "failed")

\* Variant: the pointer is stored before it is checked for an error.
path_start_cvp_unchecked(d) ==
  /\ At(d, "cvp")
  /\ IF "cvp" \in sess[at[d]]
     THEN Skip(d, "enable")
     ELSE \E ok \in BOOLEAN :
            /\ Step(d, "cvp", "CREATE_CVP", ok, IF ok THEN "enable" ELSE "failed")
            /\ Keep(d, IF ok THEN "cvp" ELSE "error pointer")

path_start_cvp(d) ==
  /\ At(d, "cvp")
  /\ IF "cvp" \in sess[at[d]]
     THEN Skip(d, "enable")
     ELSE \E ok \in BOOLEAN :
            /\ Step(d, "cvp", "CREATE_CVP", ok, IF ok THEN "enable" ELSE "failed")
            /\ IF ok THEN Keep(d, "cvp") ELSE UNCHANGED sess

path_start_enable(d) == Try(d, "enable", "ENABLE", "attach", "cvp_err")
path_start_attach(d) == Try(d, "attach", "ATTACH", "start_voice", "attach_err")
path_start_start(d)  == Try(d, "start_voice", "START_VOICE", "unmute", "start_err")

\* q6cvp_set_mute(): transmit, and receive unless transmit failed.
path_start_unmute(d) ==
  /\ At(d, "unmute")
  /\ IF params.unmute THEN Try(d, "unmute", "MUTE_V2", "unmute_rx", "play")
                      ELSE Skip(d, "play")
path_start_unmute_rx(d) == Do(d, "unmute_rx", "MUTE_V2", "play")

\* if (playback_port && cvs): a garbage cvs may or may not be null.
path_start_playback(d) ==
  /\ At(d, "play")
  /\ \/ ~params.playback_port /\ Skip(d, "up")
     \/ params.playback_port /\ cvs[d] = "garbage" /\ (Skip(d, "up") \/ Oops(d))
     \/ params.playback_port /\ cvs[d] = "cvs" /\ Do(d, "play", "PLAYBACK_START", "up")

\* Variant: a goto to the wrong one of them.
path_start_start_err_skips(d) == Do(d, "start_err", "STOP_VOICE", "cvp_err")
\* The error labels, which fall through.
path_start_start_err(d)  == Do(d, "start_err", "STOP_VOICE", "attach_err")
path_start_attach_err(d) == Do(d, "attach_err", "DETACH", "cvp_err")
path_start_cvp_err(d)    == Do(d, "cvp_err", "DISABLE", "failed")

\* Variant: the bit of a direction that failed to start stays set.
q6voice_start_returns_keeps_bit(d) ==
  /\ pc[d] \in {"up", "failed"}
  /\ Unlock(d)
  /\ Goto(d, "idle")
  /\ UNCHANGED <<params, pcm, bound, at, pathState, cvs, wire>>

\* The rest of q6voice_start().
q6voice_start_returns(d) ==
  /\ pc[d] \in {"up", "failed"}
  /\ started' = IF At(d, "failed") THEN [started EXCEPT ![at[d]] = @ \ {d}] ELSE started
  /\ Unlock(d)
  /\ Goto(d, "idle")
  /\ UNCHANGED <<params, pcm, bound, at, runtime, sess, cvs, wire>>

-----------------------------------------------------------------------------
(* q6voice_stop(), q6voice_path_stop() and q6voice_path_destroy().         *)

\* Variant: a path whose voice does not run is left alone.
q6voice_stop_ignores_idle_path(d) ==
  /\ Acquire(d, "stop")
  /\ IF at[d] \notin runtime \/ ~wants_voice(started[at[d]])
     THEN Goto(d, "idle") /\ UNCHANGED lock
     ELSE lock' = [lock EXCEPT ![at[d]] = d] /\ Goto(d, "stop_play")
  /\ UNCHANGED <<params, pcm, bound, at, pathState, cvs, wire>>

\* q6voice_stop() up to the call of q6voice_path_stop(), or past it.
q6voice_stop(d) ==
  /\ Acquire(d, "stop")
  /\ IF at[d] \notin runtime \/ d \notin started[at[d]]
     THEN Goto(d, "idle") /\ UNCHANGED lock
     ELSE /\ lock' = [lock EXCEPT ![at[d]] = d]
          /\ Goto(d, IF wants_voice(started[at[d]]) THEN "stop_play" ELSE "stopped")
  /\ UNCHANGED <<params, pcm, bound, at, pathState, cvs, wire>>

\* Variant: in-call playback is not stopped.
path_stop_no_playback(t) == At(t, "stop_play") /\ Skip(t, "stop_voice")

\* path_stop() looks the sessions up and uses them as they are.
path_stop_playback(t) ==
  /\ At(t, "stop_play")
  /\ IF params.playback_port /\ "cvs" \in sess[at[t]]
     THEN Do(t, "stop_play", "PLAYBACK_STOP", "stop_voice")
     ELSE Skip(t, "stop_voice")

path_stop_start(t) ==
  /\ At(t, "stop_voice")
  /\ IF "mvm" \in sess[at[t]] THEN Do(t, "stop_voice", "STOP_VOICE", "detach") ELSE Oops(t)

path_stop_attach(t) ==
  /\ At(t, "detach")
  /\ IF "cvp" \in sess[at[t]] THEN Do(t, "detach", "DETACH", "disable") ELSE Oops(t)

\* Variant: the vocproc is left enabled.
path_stop_no_disable(t) == At(t, "disable") /\ Skip(t, "detach_stream")

path_stop_enable(t) == Do(t, "disable", "DISABLE", "detach_stream")

path_stop_attach_stream(t) ==
  /\ At(t, "detach_stream")
  /\ IF "cvs" \in sess[at[t]]
     THEN Do(t, "detach_stream", "DETACH_STREAM", "stopped")
     ELSE Skip(t, "stopped")

\* The rest of q6voice_stop(); the last direction takes the sessions along.
q6voice_stop_returns(d) ==
  /\ At(d, "stopped")
  /\ LET left == started[at[d]] \ {d}
     IN  /\ started' = [started EXCEPT ![at[d]] = left]
         /\ IF left = {} THEN Goto(d, "destroy") /\ UNCHANGED lock
                         ELSE Goto(d, "idle") /\ Unlock(d)
  /\ UNCHANGED <<params, pcm, bound, at, runtime, sess, cvs, wire>>

\* q6voice_path_destroy() releases one session after the other, in the order
\* of enum q6voice_service_type; q6voice_session_release() does not care
\* whether the DESTROY succeeds.
Release(t, svc, o) ==
  /\ svc \in sess[at[t]]
  /\ \E ok \in BOOLEAN : Step(t, "destroy", o, ok, "destroy")
  /\ sess' = [sess EXCEPT ![at[t]] = @ \ {svc}]

path_destroy_mvm(t) == Release(t, "mvm", "DESTROY_MVM")
path_destroy_cvp(t) == "mvm" \notin sess[at[t]] /\ Release(t, "cvp", "DESTROY_CVP")
path_destroy_cvs(t) == sess[at[t]] = {"cvs"} /\ Release(t, "cvs", "DESTROY_CVS")

\* The runtime is freed, and the caller unlocks the path.
path_destroy_runtime(t) ==
  /\ At(t, "destroy")
  /\ sess[at[t]] = {}
  /\ runtime' = runtime \ {at[t]}
  /\ started' = [started EXCEPT ![at[t]] = {}]
  /\ Unlock(t)
  /\ Goto(t, IF t = "remove" THEN "free" ELSE "idle")
  /\ UNCHANGED <<params, pcm, bound, at, sess, cvs, wire>>

-----------------------------------------------------------------------------
(* Device removal: q6voice_free(), which devres runs after the component   *)
(* is gone and with it the PCM; and probe: q6voice_create().               *)

unbind ==
  /\ bound /\ Quiet
  /\ Goto("remove", "free")
  /\ UNCHANGED <<params, pcm, bound, at, lock, pathState, cvs, wire>>

\* One path of the loop in q6voice_free() that still has a runtime.
q6voice_free(p) ==
  /\ At("remove", "free")
  /\ p \in runtime
  /\ lock[p] = "free"
  /\ lock' = [lock EXCEPT ![p] = "remove"]
  /\ at' = [at EXCEPT !["remove"] = p]
  /\ Goto("remove", IF started[p] = Dirs THEN "stop_play" ELSE "destroy")
  /\ UNCHANGED <<params, pcm, bound, pathState, cvs, wire>>

\* In q6voice_free() the path is destroyed whatever path_stop() did.
q6voice_free_destroys ==
  /\ At("remove", "stopped")
  /\ Skip("remove", "destroy")

unbound ==
  /\ At("remove", "free")
  /\ runtime = {}
  /\ bound' = FALSE
  /\ Goto("remove", "idle")
  /\ UNCHANGED <<params, pcm, at, lock, pathState, cvs, wire>>

q6voice_create ==
  /\ ~bound
  /\ bound' = TRUE
  /\ UNCHANGED <<params, pcm, pc, at, lock, pathState, cvs, wire>>

-----------------------------------------------------------------------------

Init ==
  /\ params \in ParamValues
  /\ pcm = {}
  /\ bound = TRUE
  /\ pc = [t \in Threads |-> "idle"]
  /\ at = [t \in Threads |-> params.voice_path]
  /\ lock = [p \in Paths |-> "free"]
  /\ runtime = {}
  /\ started = [p \in Paths |-> {}]
  /\ sess = [p \in Paths |-> {}]
  /\ cvs = [t \in Dirs |-> "garbage"]
  /\ dsp = [p \in Paths |-> {}]
  /\ owed = [p \in Paths |-> {}]
  /\ doubt = [p \in Paths |-> {}]
  /\ faults = 0

PathStart(d) ==
  \/ path_start_mvm(d)         \/ path_start_dual_control(d)
  \/ path_start_no_dual_control(d)
  \/ path_start_stream(d)      \/ path_start_create_cvs(d)
  \/ path_start_attach_stream(d)
  \/ path_start_cvp(d)         \/ path_start_enable(d)
  \/ path_start_attach(d)      \/ path_start_start(d)
  \/ path_start_unmute(d)      \/ path_start_unmute_rx(d)
  \/ path_start_playback(d)
  \/ path_start_start_err(d)   \/ path_start_attach_err(d)
  \/ path_start_cvp_err(d)

PathStop(t) ==
  \/ path_stop_playback(t)     \/ path_stop_start(t)
  \/ path_stop_attach(t)       \/ path_stop_enable(t)
  \/ path_stop_attach_stream(t)
  \/ path_destroy_mvm(t)       \/ path_destroy_cvp(t)
  \/ path_destroy_cvs(t)       \/ path_destroy_runtime(t)

\* A thread inside q6voice_start() or q6voice_stop().
Running(d) ==
  \/ PathStart(d) \/ q6voice_start_returns(d)
  \/ PathStop(d)  \/ q6voice_stop_returns(d)

Enters(d) == q6voice_start(d) \/ q6voice_stop(d)

Removing ==
  \/ PathStop("remove")
  \/ \E p \in Paths : q6voice_free(p)
  \/ q6voice_free_destroys
  \/ unbound

Next ==
  \/ write_param
  \/ \E d \in Dirs :
       \/ open_pcm(d) \/ dai_prepare(d) \/ dai_shutdown(d)
       \/ Enters(d) \/ Running(d)
  \/ unbind \/ Removing \/ q6voice_create

Spec == Init /\ [][Next]_vars

\* A runnable thread runs.  A waiter for the mutex is not overtaken for ever:
\* the kernel's mutex hands over to a waiter that was overtaken.  Userspace
\* need not open, prepare or close anything.
FairSpec ==
  /\ Spec
  /\ \A d \in Dirs : WF_vars(Running(d)) /\ SF_vars(Enters(d))
  /\ WF_vars(Removing)

-----------------------------------------------------------------------------
(* Properties.                                                             *)

Labels ==
  {"idle", "start", "mvm", "dual", "undual", "stream", "create_cvs",
   "attach_stream", "cvp", "enable", "attach", "start_voice", "unmute",
   "unmute_rx", "play", "start_err", "attach_err", "cvp_err", "up", "failed",
   "stop", "stop_play", "stop_voice", "detach", "disable", "detach_stream",
   "stopped", "destroy", "free", "oops"}

TypeOK ==
  /\ params \in ParamValues
  /\ pcm \subseteq Dirs
  /\ bound \in BOOLEAN
  /\ pc \in [Threads -> Labels]
  /\ at \in [Threads -> Paths]
  /\ lock \in [Paths -> Threads \union {"free"}]
  /\ runtime \subseteq Paths
  /\ started \in [Paths -> SUBSET Dirs]
  /\ sess \in [Paths -> SUBSET Services]
  /\ cvs \in [Dirs -> {"garbage", "cvs"}]
  /\ dsp \in [Paths -> SUBSET Facts]
  /\ owed \in [Paths -> SUBSET Opcodes]
  /\ doubt \in [Paths -> SUBSET Facts]
  /\ faults \in 0 .. MaxFaults

\* Everything a call needs on the DSP, and what of it carries the voice.
CallNeeds == {"mvm", "dual", "cvp", "enabled", "vocproc", "running"}
Live == {"enabled", "vocproc", "running"}

\* Between operations, the voice session is up on the DSP exactly while the
\* directions it waits for are prepared, except for what the DSP did not
\* confirm: q6voice_start() unwinds what it began when any command fails, and
\* q6voice_stop() undoes all of it, whichever direction goes first.
UpIffWanted ==
  \A p \in Paths : lock[p] = "free" =>
    IF wants_voice(started[p])
    THEN CallNeeds \subseteq dsp[p] \union doubt[p] /\ {"mvm", "cvp"} \subseteq sess[p]
    ELSE dsp[p] \intersect Live \subseteq doubt[p]

\* When the path's runtime is gone, so is all that was ever set up for it on
\* the DSP, unless the DSP failed to confirm that it was taken down.
NothingLeft ==
  \A p \in Paths : p \notin runtime => sess[p] = {} /\ dsp[p] \subseteq doubt[p]

\* Once both directions are closed and their calls have returned, the driver
\* holds nothing: no prepare() that failed half way, at any of its commands,
\* leaves a runtime or a session behind that nobody will ever stop.
ClosedHoldsNothing ==
  (\A d \in Dirs : Idle(d)) /\ pcm = {} => runtime = {}

\* Both, and every variable keeps its type.
NothingHeld == TypeOK /\ NothingLeft /\ ClosedHoldsNothing

\* No call through a session pointer that is null or was never set, when
\* path_stop() takes the sessions it finds as they are (:268-270, :288-296).
NoOops == \A t \in Threads : ~At(t, "oops")

\* The order of things.  Dual control reaches the session before a vocproc
\* or a stream is attached to it (:124); the voice starts on an enabled,
\* attached vocproc; in-call playback stops before anything else (:276); and
\* a vocproc is disabled only when it is detached, detached only when the
\* voice has stopped, on the error path as well.  What is in doubt counts
\* for either side.
Sure(p) == dsp[p] \ doubt[p]
Maybe(p) == dsp[p] \union doubt[p]
Gains(p, f) == f \in dsp'[p] \ dsp[p]
Loses(p, f) == f \in dsp[p] \ dsp'[p]
Order ==
  \A p \in Paths :
    /\ Gains(p, "vocproc") \/ Gains(p, "stream") => "dual" \in Maybe(p)
    /\ Gains(p, "running") => {"enabled", "vocproc"} \subseteq Maybe(p)
    /\ Loses(p, "running") => "playback" \notin Sure(p)
    /\ Loses(p, "vocproc") => "running" \notin Sure(p)
    /\ Loses(p, "enabled") => "vocproc" \notin Sure(p)
InOrder == [][Order]_vars

\* In-call playback never outlives the path: the DSP would remember it into
\* the next call (:275-280).
PlaybackStopped ==
  \A p \in Paths : p \notin runtime => "playback" \notin Sure(p)

\* "There is only a stream to detach if we were the one who attached it"
\* (:300): a stream this side attached is detached before the path goes.
StreamDetached ==
  \A p \in Paths : p \notin runtime => "stream" \notin Sure(p)

\* prepare() and shutdown() return: no path of theirs keeps the mutex.
CallsReturn == \A d \in Dirs : ~Idle(d) ~> Idle(d)

=============================================================================
