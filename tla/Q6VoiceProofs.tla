--------------------------- MODULE Q6VoiceProofs ---------------------------
(***************************************************************************)
(* The voice session runs on the DSP exactly while both directions are     *)
(* prepared, whatever the DSP refuses or leaves unanswered, as long as the *)
(* parameters that say which path and which directions are meant are not   *)
(* written while a voice PCM is open.                                      *)
(***************************************************************************)
EXTENDS Q6Voice, TLAPS

\* Labels at which a thread holds no mutex; a direction on its way out.
Outside == {"idle", "start", "stop", "free"}
Leaving == {"stop", "stop_play", "stop_voice", "detach", "disable", "detach_stream", "stopped",
            "destroy", "oops"}

Types ==
  /\ params \in ParamValues /\ pcm \subseteq Dirs
  /\ pc \in [Threads -> Labels] /\ at \in [Threads -> Paths]
  /\ lock \in [Paths -> Threads \union {"free"}] /\ runtime \subseteq Paths
  /\ started \in [Paths -> SUBSET Dirs]
SessTypes == sess \in [Paths -> SUBSET Services]
DspTypes == dsp \in [Paths -> SUBSET Facts] /\ doubt \in [Paths -> SUBSET Facts]

\* The mutex belongs to the thread that is inside.
Owned ==
  /\ \A t \in Threads : pc[t] \notin Outside => lock[at[t]] = t
  /\ \A p \in Paths, t \in Threads : lock[p] = t => at[t] = p /\ pc[t] \notin Outside

\* A direction counts as started on the path in use only, and while it is open
\* or being stopped; nothing is open when the device goes.
Opened ==
  /\ \A d \in Dirs : ~Idle(d) => at[d] = params.voice_path
  /\ \A p \in Paths, d \in Dirs :
       d \in started[p] => p = params.voice_path /\ (d \in pcm \/ pc[d] \in Leaving)
  /\ \A p \in Paths : started[p] # {} => p \in runtime
  /\ \A d \in Dirs : d \notin pcm => Idle(d) \/ pc[d] \in Leaving
  /\ \A d \in Dirs : pc[d] # "free" /\ (d \in pcm \/ ~Idle(d) => params.require_both \/ d = "playback")
  /\ pc["remove"] \in {"idle", "free", "destroy"}
  /\ ~Idle("remove") => pcm = {} /\ \A d \in Dirs : Idle(d)

Control == Types /\ Owned /\ Opened

\* A fact the DSP, as far as it confirmed, does not hold, or may hold.
Clean(p, f) == f \in dsp[p] => f \in doubt[p]
Perhaps(p, f) == f \in dsp[p] \/ f \in doubt[p]
Silent(p) == \A f \in Live : Clean(p, f)

\* What is kept was created.
Kept(p) ==
  /\ "mvm" \in sess[p] => Perhaps(p, "mvm") /\ Perhaps(p, "dual")
  /\ "cvp" \in sess[p] => Perhaps(p, "cvp")

\* What is known of path p when the thread inside is at label l.
Up == {"stop_play", "stop_voice", "unmute", "unmute_rx", "play", "up"}
Knows(p, l) ==
  /\ l \in {"mvm", "dual", "undual", "stream", "create_cvs", "attach_stream", "cvp", "enable",
            "attach", "start_voice", "unmute", "unmute_rx", "play", "up"} => wants_voice(started[p])
  /\ l \in {"mvm", "dual", "undual", "stream", "create_cvs", "attach_stream", "cvp", "enable",
            "failed", "detach_stream", "stopped", "destroy"} => Silent(p)
  /\ l = "dual" => Perhaps(p, "mvm")
  /\ l \in {"dual", "undual"} => "mvm" \notin sess[p]
  /\ l \in {"stream", "create_cvs", "attach_stream", "cvp", "enable", "attach", "start_voice"}
           \union Up => "mvm" \in sess[p]
  /\ l \in {"enable", "attach", "start_voice"} \union Up => "cvp" \in sess[p]
  /\ l \in {"attach", "start_voice"} \union Up => Perhaps(p, "enabled")
  /\ l \in {"start_voice"} \union Up => Perhaps(p, "vocproc")
  /\ l \in Up => Perhaps(p, "running")
  /\ l \in {"attach", "attach_err", "cvp_err", "detach", "disable"} => Clean(p, "running")
  /\ l \in {"cvp_err", "disable"} => Clean(p, "vocproc")

\* UpIffWanted, for one path.
Resting(p) ==
  IF wants_voice(started[p])
  THEN /\ \A f \in Live : Perhaps(p, f)
       /\ "mvm" \in sess[p] /\ "cvp" \in sess[p]
  ELSE Silent(p)

PathInv ==
  \A p \in Paths :
    /\ Kept(p)
    /\ lock[p] = "free" => Resting(p)
    /\ lock[p] # "free" => Knows(p, pc[lock[p]])

VoiceInv == Control /\ SessTypes /\ DspTypes /\ PathInv

-----------------------------------------------------------------------------
(* Commands.                                                               *)

\* What a command adds to the DSP's state and takes from it.
LEMMA Commands ==
  /\ Command("CREATE_MVM").adds = {"mvm"} /\ Command("CREATE_MVM").drops = {"dual"}
  /\ Command("DUAL_CONTROL").adds = {"dual"} /\ Command("DUAL_CONTROL").drops = {}
  /\ Command("ATTACH_STREAM").adds = {"stream"} /\ Command("ATTACH_STREAM").drops = {}
  /\ Command("DETACH_STREAM").adds = {} /\ Command("DETACH_STREAM").drops = {"stream"}
  /\ Command("ATTACH").adds = {"vocproc"} /\ Command("ATTACH").drops = {}
  /\ Command("DETACH").adds = {} /\ Command("DETACH").drops = {"vocproc"}
  /\ Command("START_VOICE").adds = {"running"} /\ Command("START_VOICE").drops = {}
  /\ Command("STOP_VOICE").adds = {} /\ Command("STOP_VOICE").drops = {"running"}
  /\ Command("DESTROY_MVM").adds = {} /\ Command("DESTROY_MVM").drops = {"mvm", "dual"}
  /\ Command("CREATE_CVP").adds = {"cvp"} /\ Command("CREATE_CVP").drops = {}
  /\ Command("ENABLE").adds = {"enabled"} /\ Command("ENABLE").drops = {}
  /\ Command("DISABLE").adds = {} /\ Command("DISABLE").drops = {"enabled"}
  /\ Command("MUTE_V2").adds = {} /\ Command("MUTE_V2").drops = {}
  /\ Command("DESTROY_CVP").adds = {} /\ Command("DESTROY_CVP").drops = {"cvp"}
  /\ Command("CREATE_CVS").adds = {"cvs"} /\ Command("CREATE_CVS").drops = {}
  /\ Command("PLAYBACK_START").adds = {"playback"} /\ Command("PLAYBACK_START").drops = {}
  /\ Command("PLAYBACK_STOP").adds = {} /\ Command("PLAYBACK_STOP").drops = {"playback"}
  /\ Command("DESTROY_CVS").adds = {} /\ Command("DESTROY_CVS").drops = {"cvs"}
BY DEF Command, q6mvm, q6cvp, q6cvs, Cmd

\* What sending a command does to what is known, whatever its answer is.
LEMMA SendFacts ==
  ASSUME DspTypes, NEW p \in Paths, NEW o, NEW ok, send(p, o, ok),
         NEW a \in SUBSET Facts, NEW r \in SUBSET Facts,
         Command(o).adds = a, Command(o).drops = r
  PROVE  /\ DspTypes'
         /\ \A q \in Paths : q # p => dsp'[q] = dsp[q] /\ doubt'[q] = doubt[q]
         /\ \A f \in Facts \ r : Perhaps(p, f) => Perhaps(p, f)'
         /\ \A f \in Facts \ a : Clean(p, f) => Clean(p, f)'
         /\ \A f \in r \ a : Clean(p, f)'
         /\ ok => \A f \in a : Perhaps(p, f)'
<1> DEFINE after == (dsp[p] \ r) \union a
<1> USE DEF DspTypes, Perhaps, Clean
<1>1. CASE dsp' = [dsp EXCEPT ![p] = after] /\ doubt' = [doubt EXCEPT ![p] = @ \ (a \union r)]
  BY <1>1
<1>2. CASE ~ok /\ dsp' = dsp /\ doubt' = [doubt EXCEPT ![p] = @ \union r]
  BY <1>2
<1>3. CASE /\ dsp' = dsp \/ dsp' = [dsp EXCEPT ![p] = after]
           /\ doubt' = [doubt EXCEPT ![p] = @ \union a \union r]
  BY <1>3
<1>4. \/ dsp' = [dsp EXCEPT ![p] = after] /\ doubt' = [doubt EXCEPT ![p] = @ \ (a \union r)]
      \/ ~ok /\ dsp' = dsp /\ doubt' = [doubt EXCEPT ![p] = @ \union r]
      \/ /\ dsp' = dsp \/ dsp' = [dsp EXCEPT ![p] = after]
         /\ doubt' = [doubt EXCEPT ![p] = @ \union a \union r]
  BY DEF send
<1> QED BY <1>1, <1>2, <1>3, <1>4

-----------------------------------------------------------------------------
(* A step of a thread from one label inside to another.                    *)

Moves(t, l, n) ==
  /\ At(t, l) /\ Goto(t, n)
  /\ UNCHANGED <<params, pcm, at, lock, runtime, started>>

\* The mutexes and the directions that are open are as before.
LEMMA MoveControl ==
  ASSUME Control, NEW t \in Threads, NEW l \in Labels \ Outside, NEW n \in Labels \ Outside,
         Moves(t, l, n), l \in Leaving => n \in Leaving, l = "destroy" => n = "destroy"
  PROVE  Control'
<1> USE DEF Control, Moves, At, Goto
<1>1. Types'
  BY DEF Types
<1>2. Owned'
  BY DEF Types, Owned
<1>3. t = "remove" => n = "destroy"
  BY DEF Opened, Outside
<1>4. \A d \in Dirs : d \in Threads /\ "remove" \in Threads /\ d # "remove"
  BY DEF Dirs, Threads
<1>5. n # "idle" /\ l # "idle" /\ n # "free"
  BY DEF Outside
<1>6. \A d \in Dirs : (Idle(d)' <=> Idle(d)) /\ (pc[d] \in Leaving => pc'[d] \in Leaving)
                      /\ pc'[d] # "free"
  BY <1>4, <1>5 DEF Types, Opened, Idle
<1>7. pc'["remove"] \in {"idle", "free", "destroy"} /\ (Idle("remove")' <=> Idle("remove"))
  BY <1>3, <1>4, <1>5 DEF Types, Opened, Idle
<1>8. Opened'
  BY <1>6, <1>7 DEF Opened
<1> QED BY <1>1, <1>2, <1>8

\* The other paths do not notice, and the thread's own is as stated.
LEMMA MoveStep ==
  ASSUME VoiceInv, NEW t \in Threads, NEW l \in Labels \ Outside, NEW n \in Labels \ Outside,
         Moves(t, l, n), l \in Leaving => n \in Leaving, l = "destroy" => n = "destroy",
         SessTypes', DspTypes',
         \A q \in Paths \ {at[t]} : sess'[q] = sess[q] /\ dsp'[q] = dsp[q] /\ doubt'[q] = doubt[q],
         Kept(at[t])', Knows(at[t], n)'
  PROVE  VoiceInv'
<1>1. Control'
  BY MoveControl DEF VoiceInv
<1>2. at[t] \in Paths /\ lock[at[t]] = t /\ pc'[t] = n
  BY DEF VoiceInv, Control, Types, Owned, Moves, At, Goto
<1>3. ASSUME NEW q \in Paths \ {at[t]}
      PROVE  (Kept(q) <=> Kept(q)') /\ (Resting(q) <=> Resting(q)')
             /\ \A m \in Labels : Knows(q, m) <=> Knows(q, m)'
  BY <1>3 DEF Moves, Kept, Resting, Knows, Silent, Perhaps, Clean, wants_voice
<1>4. ASSUME NEW q \in Paths \ {at[t]}
      PROVE  lock'[q] = lock[q] /\ (lock[q] # "free" => pc'[lock[q]] = pc[lock[q]] /\ pc[lock[q]] \in Labels)
  BY <1>4 DEF VoiceInv, Control, Types, Owned, Moves, Goto
<1>5. PathInv'
  <2> SUFFICES ASSUME NEW q \in Paths
               PROVE  (/\ Kept(q)
                       /\ lock[q] = "free" => Resting(q)
                       /\ lock[q] # "free" => Knows(q, pc[lock[q]]))'
    BY DEF PathInv
  <2>1. CASE q = at[t]
    BY <2>1, <1>2 DEF Moves, VoiceInv, Control, Types, Threads, Dirs
  <2>2. CASE q # at[t]
    BY <2>2, <1>3, <1>4 DEF VoiceInv, PathInv
  <2> QED BY <2>1, <2>2
<1> QED BY <1>1, <1>5 DEF VoiceInv

\* What a thread inside knows, and what a command makes of it.
LEMMA Here ==
  ASSUME VoiceInv, NEW t \in Threads, NEW l \in Labels \ Outside, At(t, l)
  PROVE  /\ at[t] \in Paths /\ lock[at[t]] = t /\ Kept(at[t]) /\ Knows(at[t], l)
         /\ DspTypes /\ SessTypes
BY DEF VoiceInv, Control, Types, Owned, PathInv, At, Threads, Dirs

Sent(p, a, r, ok) ==
  /\ \A f \in Facts \ r : Perhaps(p, f) => Perhaps(p, f)'
  /\ \A f \in Facts \ a : Clean(p, f) => Clean(p, f)'
  /\ \A f \in r \ a : Clean(p, f)'
  /\ ok => \A f \in a : Perhaps(p, f)'
  /\ wants_voice(started[p])' <=> wants_voice(started[p])

\* The situation after a command of thread t at label l.
Answered(t, l, a, r, ok) ==
  /\ UNCHANGED <<at, sess>> /\ Sent(at[t], a, r, ok)
  /\ Kept(at[t]) /\ Knows(at[t], l)

\* A command changes the DSP's state of the thread's path, as its Cmd says.
LEMMA SendStep ==
  ASSUME VoiceInv, NEW t \in Threads, NEW l \in Labels \ Outside, NEW n, NEW o, NEW ok,
         NEW a \in SUBSET Facts, NEW r \in SUBSET Facts,
         Command(o).adds = a, Command(o).drops = r, At(t, l), send(at[t], o, ok), Goto(t, n),
         UNCHANGED <<params, pcm, at, lock, runtime, started>>
  PROVE  /\ Moves(t, l, n) /\ DspTypes' /\ Sent(at[t], a, r, ok)
         /\ \A q \in Paths \ {at[t]} : dsp'[q] = dsp[q] /\ doubt'[q] = doubt[q]
<1>1. at[t] \in Paths /\ DspTypes
  BY Here
<1>2. (wants_voice(started[at[t]])' <=> wants_voice(started[at[t]]))
  BY DEF wants_voice
<1> QED BY <1>1, <1>2, SendFacts DEF Moves, Sent

\* A command whose answer decides no more than the label.
LEMMA TryStep ==
  ASSUME VoiceInv, NEW t \in Threads, NEW l \in Labels \ Outside,
         NEW yes \in Labels \ Outside, NEW no \in Labels \ Outside,
         NEW o, NEW a \in SUBSET Facts, NEW r \in SUBSET Facts,
         Command(o).adds = a, Command(o).drops = r, Try(t, l, o, yes, no),
         l \in Leaving => yes \in Leaving /\ no \in Leaving, l # "destroy",
         Answered(t, l, a, r, TRUE) => Kept(at[t])' /\ Knows(at[t], yes)',
         Answered(t, l, a, r, FALSE) => Kept(at[t])' /\ Knows(at[t], no)'
  PROVE  VoiceInv'
<1>1. PICK ok \in BOOLEAN : Step(t, l, o, ok, IF ok THEN yes ELSE no) /\ UNCHANGED sess
  BY DEF Try
<1>2. SessTypes' /\ (\A q \in Paths : sess'[q] = sess[q]) /\ UNCHANGED <<at, sess>> /\ At(t, l)
  BY <1>1 DEF VoiceInv, SessTypes, Step
<1>3. CASE ok
  <2>1. /\ Moves(t, l, yes) /\ DspTypes' /\ Sent(at[t], a, r, TRUE)
        /\ \A q \in Paths \ {at[t]} : dsp'[q] = dsp[q] /\ doubt'[q] = doubt[q]
    BY <1>1, <1>3, SendStep DEF Step
  <2> QED BY <1>2, <2>1, Here, MoveStep DEF Answered
<1>4. CASE ~ok
  <2>1. /\ Moves(t, l, no) /\ DspTypes' /\ Sent(at[t], a, r, FALSE)
        /\ \A q \in Paths \ {at[t]} : dsp'[q] = dsp[q] /\ doubt'[q] = doubt[q]
    BY <1>1, <1>4, SendStep DEF Step
  <2> QED BY <1>2, <2>1, Here, MoveStep DEF Answered
<1> QED BY <1>3, <1>4

\* A command whose result is only logged.
LEMMA DoStep ==
  ASSUME VoiceInv, NEW t \in Threads, NEW l \in Labels \ Outside, NEW n \in Labels \ Outside,
         NEW o, NEW a \in SUBSET Facts, NEW r \in SUBSET Facts,
         Command(o).adds = a, Command(o).drops = r, Do(t, l, o, n),
         l \in Leaving => n \in Leaving, l # "destroy",
         Answered(t, l, a, r, FALSE) => Kept(at[t])' /\ Knows(at[t], n)'
  PROVE  VoiceInv'
<1>1. Answered(t, l, a, r, TRUE) => Answered(t, l, a, r, FALSE)
  BY DEF Answered, Sent
<1>2. Try(t, l, o, n, n)
  BY DEF Do
<1> QED BY <1>1, <1>2, TryStep

\* A step that sends nothing.
LEMMA SkipStep ==
  ASSUME VoiceInv, NEW t \in Threads, NEW l \in Labels \ Outside, NEW n \in Labels \ Outside,
         At(t, l), Goto(t, n), UNCHANGED <<params, pcm, at, lock, pathState, dsp, doubt>>,
         l \in Leaving => n \in Leaving, l = "destroy" => n = "destroy",
         Knows(at[t], l) => Knows(at[t], n)
  PROVE  VoiceInv'
<1>1. Moves(t, l, n) /\ sess' = sess /\ dsp' = dsp /\ doubt' = doubt
  BY DEF Moves, pathState
<1>2. SessTypes' /\ DspTypes'
  BY <1>1 DEF VoiceInv, SessTypes, DspTypes
<1>3. Kept(at[t])' /\ Knows(at[t], n)'
  BY <1>1, Here DEF Moves, Kept, Knows, Silent, Perhaps, Clean, wants_voice
<1> QED BY <1>1, <1>2, <1>3, MoveStep

-----------------------------------------------------------------------------
(* The steps of q6voice_path_start().                                      *)

\* Whatever fails, path_start() goes on from what it has set up.
LEMMA StartStep ==
  ASSUME VoiceInv, NEW d \in Dirs, PathStart(d)
  PROVE  VoiceInv'
<1> d \in Threads
  BY DEF Threads
<1> USE DEF Labels, Outside, Leaving
<1>1. CASE path_start_mvm(d)
  <2>1. CASE At(d, "mvm") /\ Skip(d, "stream") /\ "mvm" \in sess[at[d]]
    <3>1. Knows(at[d], "mvm") => Knows(at[d], "stream")
      BY <2>1 DEF Knows, Up
    <3> QED BY <2>1, <3>1, SkipStep DEF Skip, wire
  <2>2. CASE Try(d, "mvm", "CREATE_MVM", "dual", "failed") /\ "mvm" \notin sess[at[d]]
    <3>1. Answered(d, "mvm", {"mvm"}, {"dual"}, TRUE) => Kept(at[d])' /\ Knows(at[d], "dual")'
      BY <2>2 DEF Answered, Sent, Kept, Knows, Up, Silent, Live, Facts
    <3>2. Answered(d, "mvm", {"mvm"}, {"dual"}, FALSE) => Kept(at[d])' /\ Knows(at[d], "failed")'
      BY <2>2 DEF Answered, Sent, Kept, Knows, Up, Silent, Live, Facts
    <3> QED BY <2>2, <3>1, <3>2, TryStep, Commands DEF Facts
  <2> QED BY <1>1, <2>1, <2>2 DEF path_start_mvm
<1>2. CASE path_start_dual_control(d)
  <2>1. PICK ok \in BOOLEAN :
          /\ Step(d, "dual", "DUAL_CONTROL", ok, IF ok THEN "stream" ELSE "undual")
          /\ IF ok THEN Keep(d, "mvm") ELSE UNCHANGED sess
    BY <1>2 DEF path_start_dual_control
  <2> DEFINE n == IF ok THEN "stream" ELSE "undual"
  <2>2. /\ Moves(d, "dual", n) /\ DspTypes' /\ Sent(at[d], {"dual"}, {}, ok) /\ at' = at
        /\ \A q \in Paths \ {at[d]} : dsp'[q] = dsp[q] /\ doubt'[q] = doubt[q]
    BY <2>1, SendStep, Commands DEF Step, Facts
  <2>3. at[d] \in Paths /\ SessTypes /\ Kept(at[d]) /\ Knows(at[d], "dual")
    BY <2>2, Here DEF Moves
  <2>4. SessTypes' /\ (\A q \in Paths \ {at[d]} : sess'[q] = sess[q])
        /\ sess'[at[d]] = IF ok THEN sess[at[d]] \union {"mvm"} ELSE sess[at[d]]
    BY <2>1, <2>3 DEF SessTypes, Services, Keep
  <2>5. Kept(at[d])'
    BY <2>2, <2>3, <2>4 DEF Sent, Kept, Knows, Facts
  <2>6. Knows(at[d], n)'
    BY <2>2, <2>3, <2>4 DEF Sent, Knows, Up, Silent, Live, Facts
  <2> HIDE DEF n
  <2>7. n \in Labels \ Outside
    BY DEF n
  <2> QED BY <2>2, <2>4, <2>5, <2>6, <2>7, MoveStep
<1>3. CASE path_start_no_dual_control(d)
  <2>1. Answered(d, "undual", {}, {"mvm", "dual"}, FALSE) => Kept(at[d])' /\ Knows(at[d], "failed")'
    BY DEF Answered, Sent, Kept, Knows, Up, Silent, Live, Facts
  <2> QED BY <1>3, <2>1, DoStep, Commands DEF Facts, path_start_no_dual_control
<1>4. CASE path_start_stream(d)
  <2>1. At(d, "stream") /\ UNCHANGED <<params, pcm, at, lock, pathState, dsp, doubt>>
        /\ (Goto(d, "cvp") \/ Goto(d, "attach_stream") \/ Goto(d, "create_cvs"))
    BY <1>4 DEF path_start_stream, Skip, wire
  <2>2. /\ Knows(at[d], "stream") => Knows(at[d], "cvp")
        /\ Knows(at[d], "stream") => Knows(at[d], "attach_stream")
        /\ Knows(at[d], "stream") => Knows(at[d], "create_cvs")
    BY DEF Knows, Up
  <2> QED BY <2>1, <2>2, SkipStep
<1>5. CASE path_start_create_cvs(d)
  <2>1. PICK ok \in BOOLEAN :
          /\ send(at[d], "CREATE_CVS", ok)
          /\ IF ok THEN Keep(d, "cvs") ELSE UNCHANGED sess
          /\ Goto(d, IF ok THEN "attach_stream" ELSE "failed")
    BY <1>5 DEF path_start_create_cvs
  <2> DEFINE n == IF ok THEN "attach_stream" ELSE "failed"
  <2>2. /\ Moves(d, "create_cvs", n) /\ DspTypes' /\ Sent(at[d], {"cvs"}, {}, ok) /\ at' = at
        /\ \A q \in Paths \ {at[d]} : dsp'[q] = dsp[q] /\ doubt'[q] = doubt[q]
    <3>1. At(d, "create_cvs") /\ UNCHANGED <<params, pcm, at, lock, runtime, started>>
      BY <1>5 DEF path_start_create_cvs
    <3>2. {"cvs"} \in SUBSET Facts /\ {} \in SUBSET Facts
          /\ Command("CREATE_CVS").adds = {"cvs"} /\ Command("CREATE_CVS").drops = {}
      BY Commands DEF Facts
    <3> QED BY <2>1, <3>1, <3>2, SendStep
  <2>3. at[d] \in Paths /\ SessTypes /\ Kept(at[d]) /\ Knows(at[d], "create_cvs")
    BY <2>2, Here DEF Moves
  <2>4. SessTypes' /\ (\A q \in Paths \ {at[d]} : sess'[q] = sess[q])
        /\ \A s \in {"mvm", "cvp"} : s \in sess'[at[d]] <=> s \in sess[at[d]]
    BY <2>1, <2>3 DEF SessTypes, Services, Keep
  <2>5. Kept(at[d])'
    BY <2>2, <2>3, <2>4 DEF Sent, Kept, Facts
  <2>6. Knows(at[d], n)'
    BY <2>2, <2>3, <2>4 DEF Sent, Knows, Up, Silent, Live, Facts
  <2> HIDE DEF n
  <2>7. n \in Labels \ Outside
    BY DEF n
  <2> QED BY <2>2, <2>4, <2>5, <2>6, <2>7, MoveStep
<1>6. CASE path_start_attach_stream(d)
  <2>1. Answered(d, "attach_stream", {"stream"}, {}, TRUE) => Kept(at[d])' /\ Knows(at[d], "cvp")'
    BY DEF Answered, Sent, Kept, Knows, Up, Silent, Live, Facts
  <2>2. Answered(d, "attach_stream", {"stream"}, {}, FALSE) => Kept(at[d])' /\ Knows(at[d], "failed")'
    BY DEF Answered, Sent, Kept, Knows, Up, Silent, Live, Facts
  <2> QED BY <1>6, <2>1, <2>2, TryStep, Commands DEF Facts, path_start_attach_stream
<1>7. CASE path_start_cvp(d)
  <2>1. CASE At(d, "cvp") /\ Skip(d, "enable") /\ "cvp" \in sess[at[d]]
    <3>1. Knows(at[d], "cvp") => Knows(at[d], "enable")
      BY <2>1 DEF Knows, Up
    <3> QED BY <2>1, <3>1, SkipStep DEF Skip, wire
  <2>2. ASSUME NEW ok \in BOOLEAN,
               Step(d, "cvp", "CREATE_CVP", ok, IF ok THEN "enable" ELSE "failed"),
               IF ok THEN Keep(d, "cvp") ELSE UNCHANGED sess
        PROVE  VoiceInv'
    <3> DEFINE n == IF ok THEN "enable" ELSE "failed"
    <3>1. /\ Moves(d, "cvp", n) /\ DspTypes' /\ Sent(at[d], {"cvp"}, {}, ok) /\ at' = at
          /\ \A q \in Paths \ {at[d]} : dsp'[q] = dsp[q] /\ doubt'[q] = doubt[q]
      BY <2>2, SendStep, Commands DEF Step, Facts
    <3>2. at[d] \in Paths /\ SessTypes /\ Kept(at[d]) /\ Knows(at[d], "cvp")
      BY <3>1, Here DEF Moves
    <3>3. SessTypes' /\ (\A q \in Paths \ {at[d]} : sess'[q] = sess[q])
          /\ sess'[at[d]] = IF ok THEN sess[at[d]] \union {"cvp"} ELSE sess[at[d]]
      BY <2>2, <3>2 DEF SessTypes, Services, Keep
    <3>4. Kept(at[d])'
      BY <3>1, <3>2, <3>3 DEF Sent, Kept, Facts
    <3>5. Knows(at[d], n)'
      BY <3>1, <3>2, <3>3 DEF Sent, Knows, Up, Silent, Live, Facts
    <3> HIDE DEF n
    <3>6. n \in Labels \ Outside
      BY DEF n
    <3> QED BY <3>1, <3>3, <3>4, <3>5, <3>6, MoveStep
  <2> QED BY <1>7, <2>1, <2>2 DEF path_start_cvp
<1>8. CASE path_start_enable(d)
  <2>1. Answered(d, "enable", {"enabled"}, {}, TRUE) => Kept(at[d])' /\ Knows(at[d], "attach")'
    BY DEF Answered, Sent, Kept, Knows, Up, Silent, Live, Facts
  <2>2. Answered(d, "enable", {"enabled"}, {}, FALSE) => Kept(at[d])' /\ Knows(at[d], "cvp_err")'
    BY DEF Answered, Sent, Kept, Knows, Up, Silent, Live, Facts
  <2> QED BY <1>8, <2>1, <2>2, TryStep, Commands DEF Facts, path_start_enable
<1>9. CASE path_start_attach(d)
  <2>1. Answered(d, "attach", {"vocproc"}, {}, TRUE) => Kept(at[d])' /\ Knows(at[d], "start_voice")'
    BY DEF Answered, Sent, Kept, Knows, Up, Silent, Live, Facts
  <2>2. Answered(d, "attach", {"vocproc"}, {}, FALSE) => Kept(at[d])' /\ Knows(at[d], "attach_err")'
    BY DEF Answered, Sent, Kept, Knows, Up, Silent, Live, Facts
  <2> QED BY <1>9, <2>1, <2>2, TryStep, Commands DEF Facts, path_start_attach
<1>10. CASE path_start_start(d)
  <2>1. Answered(d, "start_voice", {"running"}, {}, TRUE) => Kept(at[d])' /\ Knows(at[d], "unmute")'
    BY DEF Answered, Sent, Kept, Knows, Up, Silent, Live, Facts
  <2>2. Answered(d, "start_voice", {"running"}, {}, FALSE) => Kept(at[d])' /\ Knows(at[d], "start_err")'
    BY DEF Answered, Sent, Kept, Knows, Up, Silent, Live, Facts
  <2> QED BY <1>10, <2>1, <2>2, TryStep, Commands DEF Facts, path_start_start
<1>11. CASE path_start_unmute(d)
  <2>1. At(d, "unmute") /\ (Try(d, "unmute", "MUTE_V2", "unmute_rx", "play") \/ Skip(d, "play"))
    BY <1>11 DEF path_start_unmute
  <2>2. Answered(d, "unmute", {}, {}, TRUE) => Kept(at[d])' /\ Knows(at[d], "unmute_rx")'
    BY DEF Answered, Sent, Kept, Knows, Up, Silent, Live, Facts
  <2>3. Answered(d, "unmute", {}, {}, FALSE) => Kept(at[d])' /\ Knows(at[d], "play")'
    BY DEF Answered, Sent, Kept, Knows, Up, Silent, Live, Facts
  <2>4. Knows(at[d], "unmute") => Knows(at[d], "play")
    BY DEF Knows, Up
  <2>5. CASE Try(d, "unmute", "MUTE_V2", "unmute_rx", "play")
    BY <2>2, <2>3, <2>5, TryStep, Commands DEF Facts
  <2>6. CASE Skip(d, "play")
    BY <2>1, <2>4, <2>6, SkipStep DEF Skip, wire
  <2> QED BY <2>1, <2>5, <2>6
<1>12. CASE path_start_unmute_rx(d)
  <2>1. Answered(d, "unmute_rx", {}, {}, FALSE) => Kept(at[d])' /\ Knows(at[d], "play")'
    BY DEF Answered, Sent, Kept, Knows, Up, Silent, Live, Facts
  <2> QED BY <1>12, <2>1, DoStep, Commands DEF Facts, path_start_unmute_rx
<1>13. CASE path_start_playback(d)
  <2>1. At(d, "play") /\ (Do(d, "play", "PLAYBACK_START", "up") \/ Skip(d, "up") \/ Oops(d))
    BY <1>13 DEF path_start_playback
  <2>2. Answered(d, "play", {"playback"}, {}, FALSE) => Kept(at[d])' /\ Knows(at[d], "up")'
    BY DEF Answered, Sent, Kept, Knows, Up, Silent, Live, Facts
  <2>3. /\ Knows(at[d], "play") => Knows(at[d], "up")
        /\ Knows(at[d], "play") => Knows(at[d], "oops")
    BY DEF Knows, Up
  <2>4. CASE Do(d, "play", "PLAYBACK_START", "up")
    BY <2>2, <2>4, DoStep, Commands DEF Facts
  <2>5. CASE Skip(d, "up") \/ Oops(d)
    BY <2>1, <2>3, <2>5, SkipStep DEF Skip, Oops, wire
  <2> QED BY <2>1, <2>4, <2>5
<1>14. CASE path_start_start_err(d)
  <2>1. Answered(d, "start_err", {}, {"running"}, FALSE) => Kept(at[d])' /\ Knows(at[d], "attach_err")'
    BY DEF Answered, Sent, Kept, Knows, Up, Silent, Live, Facts
  <2> QED BY <1>14, <2>1, DoStep, Commands DEF Facts, path_start_start_err
<1>15. CASE path_start_attach_err(d)
  <2>1. Answered(d, "attach_err", {}, {"vocproc"}, FALSE) => Kept(at[d])' /\ Knows(at[d], "cvp_err")'
    BY DEF Answered, Sent, Kept, Knows, Up, Silent, Live, Facts
  <2> QED BY <1>15, <2>1, DoStep, Commands DEF Facts, path_start_attach_err
<1>16. CASE path_start_cvp_err(d)
  <2>1. Answered(d, "cvp_err", {}, {"enabled"}, FALSE) => Kept(at[d])' /\ Knows(at[d], "failed")'
    BY DEF Answered, Sent, Kept, Knows, Up, Silent, Live, Facts
  <2> QED BY <1>16, <2>1, DoStep, Commands DEF Facts, path_start_cvp_err
<1> QED BY <1>1, <1>2, <1>3, <1>4, <1>5, <1>6, <1>7, <1>8, <1>9, <1>10, <1>11, <1>12, <1>13, <1>14, <1>15, <1>16
   DEF PathStart

-----------------------------------------------------------------------------
(* The steps of q6voice_path_stop() and q6voice_path_destroy().            *)

\* A session goes, and what depends on another one's does not.
LEMMA ReleaseStep ==
  ASSUME VoiceInv, NEW t \in Threads, NEW svc, NEW o, NEW r \in SUBSET Facts,
         Command(o).adds = {}, Command(o).drops = r, Release(t, svc, o),
         "mvm" \in sess[at[t]] \ {svc} => "mvm" \notin r /\ "dual" \notin r,
         "cvp" \in sess[at[t]] \ {svc} => "cvp" \notin r
  PROVE  VoiceInv'
<1>1. PICK ok \in BOOLEAN : Step(t, "destroy", o, ok, "destroy")
  BY DEF Release
<1>2. /\ Moves(t, "destroy", "destroy") /\ DspTypes' /\ Sent(at[t], {}, r, ok) /\ at' = at
      /\ \A q \in Paths \ {at[t]} : dsp'[q] = dsp[q] /\ doubt'[q] = doubt[q]
  BY <1>1, SendStep DEF Step, Facts, Labels, Outside
<1>3. at[t] \in Paths /\ SessTypes /\ Kept(at[t]) /\ Knows(at[t], "destroy")
  BY <1>2, Here DEF Moves, Labels, Outside
<1>4. SessTypes' /\ (\A q \in Paths \ {at[t]} : sess'[q] = sess[q])
      /\ sess'[at[t]] = sess[at[t]] \ {svc}
  BY <1>3 DEF SessTypes, Release
<1>5. Kept(at[t])'
  BY <1>2, <1>3, <1>4 DEF Sent, Kept, Facts
<1>6. Knows(at[t], "destroy")'
  BY <1>2, <1>3, <1>4 DEF Sent, Knows, Up, Silent, Live, Facts
<1> QED BY <1>2, <1>4, <1>5, <1>6, MoveStep DEF Labels, Outside

\* All but the last step of path_destroy(), which gives up the mutex.
LEMMA StopStep ==
  ASSUME VoiceInv, NEW t \in Threads, PathStop(t), ~path_destroy_runtime(t)
  PROVE  VoiceInv'
<1> USE DEF Labels, Outside, Leaving
<1>1. CASE path_stop_playback(t)
  <2>1. At(t, "stop_play") /\ (Do(t, "stop_play", "PLAYBACK_STOP", "stop_voice") \/ Skip(t, "stop_voice"))
    BY <1>1 DEF path_stop_playback
  <2>2. Answered(t, "stop_play", {}, {"playback"}, FALSE) => Kept(at[t])' /\ Knows(at[t], "stop_voice")'
    BY DEF Answered, Sent, Kept, Knows, Up, Silent, Live, Facts
  <2>3. Knows(at[t], "stop_play") => Knows(at[t], "stop_voice")
    BY DEF Knows, Up
  <2>4. CASE Do(t, "stop_play", "PLAYBACK_STOP", "stop_voice")
    BY <2>2, <2>4, DoStep, Commands DEF Facts
  <2>5. CASE Skip(t, "stop_voice")
    BY <2>1, <2>3, <2>5, SkipStep DEF Skip, wire
  <2> QED BY <2>1, <2>4, <2>5
<1>2. CASE path_stop_start(t)
  <2>1. At(t, "stop_voice") /\ (Do(t, "stop_voice", "STOP_VOICE", "detach") \/ Oops(t))
    BY <1>2 DEF path_stop_start
  <2>2. Answered(t, "stop_voice", {}, {"running"}, FALSE) => Kept(at[t])' /\ Knows(at[t], "detach")'
    BY DEF Answered, Sent, Kept, Knows, Up, Silent, Live, Facts
  <2>3. Knows(at[t], "stop_voice") => Knows(at[t], "oops")
    BY DEF Knows, Up
  <2>4. CASE Do(t, "stop_voice", "STOP_VOICE", "detach")
    BY <2>2, <2>4, DoStep, Commands DEF Facts
  <2>5. CASE Oops(t)
    BY <2>1, <2>3, <2>5, SkipStep DEF Oops, wire
  <2> QED BY <2>1, <2>4, <2>5
<1>3. CASE path_stop_attach(t)
  <2>1. At(t, "detach") /\ (Do(t, "detach", "DETACH", "disable") \/ Oops(t))
    BY <1>3 DEF path_stop_attach
  <2>2. Answered(t, "detach", {}, {"vocproc"}, FALSE) => Kept(at[t])' /\ Knows(at[t], "disable")'
    BY DEF Answered, Sent, Kept, Knows, Up, Silent, Live, Facts
  <2>3. Knows(at[t], "detach") => Knows(at[t], "oops")
    BY DEF Knows, Up
  <2>4. CASE Do(t, "detach", "DETACH", "disable")
    BY <2>2, <2>4, DoStep, Commands DEF Facts
  <2>5. CASE Oops(t)
    BY <2>1, <2>3, <2>5, SkipStep DEF Oops, wire
  <2> QED BY <2>1, <2>4, <2>5
<1>4. CASE path_stop_enable(t)
  <2>1. Answered(t, "disable", {}, {"enabled"}, FALSE) => Kept(at[t])' /\ Knows(at[t], "detach_stream")'
    BY DEF Answered, Sent, Kept, Knows, Up, Silent, Live, Facts
  <2> QED BY <1>4, <2>1, DoStep, Commands DEF Facts, path_stop_enable
<1>5. CASE path_stop_attach_stream(t)
  <2>1. At(t, "detach_stream")
        /\ (Do(t, "detach_stream", "DETACH_STREAM", "stopped") \/ Skip(t, "stopped"))
    BY <1>5 DEF path_stop_attach_stream
  <2>2. Answered(t, "detach_stream", {}, {"stream"}, FALSE) => Kept(at[t])' /\ Knows(at[t], "stopped")'
    BY DEF Answered, Sent, Kept, Knows, Up, Silent, Live, Facts
  <2>3. Knows(at[t], "detach_stream") => Knows(at[t], "stopped")
    BY DEF Knows, Up
  <2>4. CASE Do(t, "detach_stream", "DETACH_STREAM", "stopped")
    BY <2>2, <2>4, DoStep, Commands DEF Facts
  <2>5. CASE Skip(t, "stopped")
    BY <2>1, <2>3, <2>5, SkipStep DEF Skip, wire
  <2> QED BY <2>1, <2>4, <2>5
<1>6. CASE path_destroy_mvm(t)
  BY <1>6, ReleaseStep, Commands DEF path_destroy_mvm, Facts
<1>7. CASE path_destroy_cvp(t)
  BY <1>7, ReleaseStep, Commands DEF path_destroy_cvp, Facts
<1>8. CASE path_destroy_cvs(t)
  BY <1>8, ReleaseStep, Commands DEF path_destroy_cvs, Facts
<1> QED BY <1>1, <1>2, <1>3, <1>4, <1>5, <1>6, <1>7, <1>8 DEF PathStop

-----------------------------------------------------------------------------
(* Taking and giving up the mutex.                                         *)

\* The mutex of one path changes hands, the other paths do not notice.
LEMMA LockStep ==
  ASSUME VoiceInv, Control', NEW t \in Threads, NEW p \in Paths, UNCHANGED <<params, sess, dsp, doubt>>,
         \A q \in Paths \ {p} : lock'[q] = lock[q] /\ lock[q] # t /\ started'[q] = started[q],
         \A u \in Threads \ {t} : pc'[u] = pc[u],
         \/ lock'[p] = "free" /\ Resting(p)'
         \/ lock'[p] = t /\ Knows(p, pc[t])'
  PROVE  VoiceInv'
<1>1. SessTypes' /\ DspTypes'
  BY DEF VoiceInv, SessTypes, DspTypes
<1>2. \A q \in Paths : Kept(q)'
  BY DEF VoiceInv, PathInv, Kept, Perhaps
<1>3. ASSUME NEW q \in Paths \ {p}
      PROVE  /\ (Resting(q) <=> Resting(q)') /\ \A m \in Labels : Knows(q, m) <=> Knows(q, m)'
             /\ lock[q] # "free" => pc'[lock[q]] = pc[lock[q]] /\ pc[lock[q]] \in Labels
  BY <1>3 DEF VoiceInv, Control, Types, Resting, Knows, Silent, Perhaps, Clean, wants_voice
<1>4. t # "free"
  BY DEF Threads, Dirs
<1>5. PathInv'
  <2> SUFFICES ASSUME NEW q \in Paths
               PROVE  (/\ lock[q] = "free" => Resting(q)
                       /\ lock[q] # "free" => Knows(q, pc[lock[q]]))'
    BY <1>2 DEF PathInv
  <2>1. CASE q = p
    BY <2>1, <1>4
  <2>2. CASE q # p
    BY <2>2, <1>3 DEF VoiceInv, PathInv
  <2> QED BY <2>1, <2>2
<1> QED BY <1>1, <1>5 DEF VoiceInv

\* The threads, as far as the invariant of the control needs to know.
LEMMA ThreadFacts ==
  /\ \A d \in Dirs : d \in Threads /\ d # "remove" /\ d # "free"
  /\ "remove" \in Threads /\ "remove" # "free"
  /\ \A t \in Threads : t \in Dirs \/ t = "remove"
  /\ Dirs = {"playback", "capture"}
BY DEF Threads, Dirs

\* The path is up, or it was unwound and the direction is not started.
LEMMA StartReturns ==
  ASSUME VoiceInv, NEW d \in Dirs, q6voice_start_returns(d)
  PROVE  VoiceInv'
<1> USE ThreadFacts
<1>1. PICK l \in {"up", "failed"} : At(d, l)
  BY DEF q6voice_start_returns, At
<1>2. /\ at[d] \in Paths /\ lock[at[d]] = d /\ Knows(at[d], l) /\ pc[d] = l
      /\ at[d] = params.voice_path /\ d \in pcm /\ (params.require_both \/ d = "playback")
  <2>1. at[d] \in Paths /\ lock[at[d]] = d /\ Knows(at[d], l) /\ pc[d] = l
    BY <1>1, Here DEF Labels, Outside, At
  <2>2. ~Idle(d) /\ pc[d] \notin Leaving
    BY <1>1 DEF Idle, At, Leaving
  <2> QED BY <2>1, <2>2 DEF VoiceInv, Control, Opened
<1>3. /\ pc' = [pc EXCEPT ![d] = "idle"] /\ lock' = [lock EXCEPT ![at[d]] = "free"]
      /\ started' = IF l = "failed" THEN [started EXCEPT ![at[d]] = @ \ {d}] ELSE started
      /\ UNCHANGED <<params, pcm, at, runtime, sess, dsp, doubt>>
  BY <1>1 DEF q6voice_start_returns, Goto, Unlock, At, wire
<1>4. Types'
  BY <1>2, <1>3 DEF VoiceInv, Control, Types, Labels
<1>5. Owned'
  BY <1>2, <1>3 DEF VoiceInv, Control, Types, Owned, Outside
<1>6. Opened'
  BY <1>2, <1>3 DEF VoiceInv, Control, Types, Opened, Idle, At, Leaving
<1>7. Resting(at[d])'
  <2>1. CASE l = "up"
    BY <1>2, <1>3, <2>1 DEF Knows, Up, Resting, Live, Perhaps, wants_voice
  <2>2. CASE l = "failed"
    <3>1. Silent(at[d])' /\ ~wants_voice(started[at[d]])'
      BY <1>2, <1>3, <2>2 DEF Knows, Silent, Clean, wants_voice, VoiceInv, Control, Types
    <3> QED BY <1>3, <3>1 DEF Resting, wants_voice, Silent, Clean
  <2> QED BY <2>1, <2>2
<1>8. \A q \in Paths \ {at[d]} : lock'[q] = lock[q] /\ lock[q] # d /\ started'[q] = started[q]
  BY <1>2, <1>3 DEF VoiceInv, Control, Types, Owned
<1>9. (\A u \in Threads \ {d} : pc'[u] = pc[u]) /\ lock'[at[d]] = "free"
  BY <1>2, <1>3 DEF VoiceInv, Control, Types
<1> QED BY <1>2, <1>3, <1>4, <1>5, <1>6, <1>7, <1>8, <1>9, LockStep DEF Control

\* With one direction less the path is not wanted, and it is silent.
LEMMA StopReturns ==
  ASSUME VoiceInv, NEW d \in Dirs, q6voice_stop_returns(d)
  PROVE  VoiceInv'
<1> USE ThreadFacts
<1> DEFINE left == started[at[d]] \ {d}
<1>1. /\ at[d] \in Paths /\ lock[at[d]] = d /\ Silent(at[d]) /\ pc[d] = "stopped"
      /\ at[d] = params.voice_path /\ (params.require_both \/ d = "playback")
  <2>1. At(d, "stopped")
    BY DEF q6voice_stop_returns
  <2>2. at[d] \in Paths /\ lock[at[d]] = d /\ Knows(at[d], "stopped")
    BY <2>1, Here DEF Labels, Outside
  <2> QED BY <2>1, <2>2 DEF VoiceInv, Control, Opened, Knows, At, Idle
<1>2. /\ started' = [started EXCEPT ![at[d]] = left]
      /\ UNCHANGED <<params, pcm, at, runtime, sess, dsp, doubt>>
      /\ \/ left = {} /\ pc' = [pc EXCEPT ![d] = "destroy"] /\ lock' = lock
         \/ pc' = [pc EXCEPT ![d] = "idle"] /\ lock' = [lock EXCEPT ![at[d]] = "free"]
  BY DEF q6voice_stop_returns, Goto, Unlock, wire
<1>3. Types'
  BY <1>1, <1>2 DEF VoiceInv, Control, Types, Labels
<1>4. Owned'
  BY <1>1, <1>2 DEF VoiceInv, Control, Types, Owned, Outside
<1>5. Opened'
  BY <1>1, <1>2 DEF VoiceInv, Control, Types, Opened, Idle, At, Leaving
<1>6. Silent(at[d])' /\ ~wants_voice(started[at[d]])'
  BY <1>1, <1>2 DEF Silent, Clean, wants_voice, VoiceInv, Control, Types
<1>7. Resting(at[d])' /\ Knows(at[d], "destroy")'
  BY <1>1, <1>2, <1>6 DEF Resting, Knows, Up, wants_voice, Silent, Clean
<1>8. \A q \in Paths \ {at[d]} : lock'[q] = lock[q] /\ lock[q] # d /\ started'[q] = started[q]
  BY <1>1, <1>2 DEF VoiceInv, Control, Types, Owned
<1>9. \A u \in Threads \ {d} : pc'[u] = pc[u]
  BY <1>2 DEF VoiceInv, Control, Types
<1>10. lock'[at[d]] = "free" \/ (lock'[at[d]] = d /\ pc'[d] = "destroy")
  BY <1>1, <1>2 DEF VoiceInv, Control, Types
<1> QED BY <1>1, <1>2, <1>3, <1>4, <1>5, <1>7, <1>8, <1>9, <1>10, LockStep DEF Control

\* The last session is gone.
LEMMA Destroys ==
  ASSUME VoiceInv, NEW t \in Threads, path_destroy_runtime(t)
  PROVE  VoiceInv'
<1> USE ThreadFacts
<1>1. /\ at[t] \in Paths /\ lock[at[t]] = t /\ Silent(at[t]) /\ pc[t] = "destroy"
      /\ t \in Dirs => at[t] = params.voice_path
  <2>1. At(t, "destroy")
    BY DEF path_destroy_runtime
  <2>2. at[t] \in Paths /\ lock[at[t]] = t /\ Knows(at[t], "destroy")
    BY <2>1, Here DEF Labels, Outside
  <2> QED BY <2>1, <2>2 DEF VoiceInv, Control, Opened, Knows, At, Idle
<1>2. /\ started' = [started EXCEPT ![at[t]] = {}] /\ runtime' = runtime \ {at[t]}
      /\ UNCHANGED <<params, pcm, at, sess, dsp, doubt>>
      /\ pc' = [pc EXCEPT ![t] = IF t = "remove" THEN "free" ELSE "idle"]
      /\ lock' = [lock EXCEPT ![at[t]] = "free"]
  BY DEF path_destroy_runtime, Goto, Unlock, wire
<1>3. Types'
  BY <1>1, <1>2 DEF VoiceInv, Control, Types, Labels
<1>4. Owned'
  BY <1>1, <1>2 DEF VoiceInv, Control, Types, Owned, Outside
<1>5. Opened'
  BY <1>1, <1>2 DEF VoiceInv, Control, Types, Opened, Idle, At, Leaving
<1>6. Resting(at[t])'
  BY <1>1, <1>2 DEF Resting, Silent, Clean, wants_voice, VoiceInv, Control, Types
<1>7. \A q \in Paths \ {at[t]} : lock'[q] = lock[q] /\ lock[q] # t /\ started'[q] = started[q]
  BY <1>1, <1>2 DEF VoiceInv, Control, Types, Owned
<1>8. (\A u \in Threads \ {t} : pc'[u] = pc[u]) /\ lock'[at[t]] = "free"
  BY <1>1, <1>2 DEF VoiceInv, Control, Types
<1> QED BY <1>1, <1>2, <1>3, <1>4, <1>5, <1>6, <1>7, <1>8, LockStep DEF Control

\* q6voice_start() begins with a silent path if it begins anything.
LEMMA Starts ==
  ASSUME VoiceInv, NEW d \in Dirs, q6voice_start(d)
  PROVE  VoiceInv'
<1> USE ThreadFacts
<1> DEFINE p == at[d]
<1>1. /\ p \in Paths /\ lock[p] = "free" /\ Resting(p) /\ pc[d] = "start" /\ d \in pcm
      /\ p = params.voice_path /\ (params.require_both \/ d = "playback")
      /\ pc["remove"] = "idle"
  <2>1. pc[d] = "start" /\ lock[p] = "free"
    BY DEF q6voice_start, Acquire, At
  <2>2. p \in Paths /\ Resting(p)
    BY <2>1 DEF VoiceInv, Control, Types, PathInv
  <2> QED BY <2>1, <2>2 DEF VoiceInv, Control, Opened, Leaving, At, Idle
<1>2. CASE pc' = [pc EXCEPT ![d] = "idle"] /\ UNCHANGED <<lock, runtime, started>>
  <2>1. UNCHANGED <<params, pcm, at, sess, dsp, doubt>>
    BY DEF q6voice_start, wire
  <2>2. Types'
    BY <1>1, <1>2, <2>1 DEF VoiceInv, Control, Types, Labels
  <2>3. Owned'
    BY <1>1, <1>2, <2>1 DEF VoiceInv, Control, Types, Owned, Outside
  <2>4. Opened'
    BY <1>1, <1>2, <2>1 DEF VoiceInv, Control, Types, Opened, Idle, At, Leaving
  <2>5. Resting(p)'
    BY <1>1, <1>2, <2>1 DEF Resting, Perhaps, Silent, Clean, wants_voice
  <2>6. \A q \in Paths \ {p} : lock'[q] = lock[q] /\ lock[q] # d /\ started'[q] = started[q]
    BY <1>1, <1>2 DEF VoiceInv, Control, Types, Owned, Outside
  <2>7. (\A u \in Threads \ {d} : pc'[u] = pc[u]) /\ lock'[p] = "free"
    BY <1>1, <1>2 DEF VoiceInv, Control, Types
  <2> QED BY <1>1, <2>1, <2>2, <2>3, <2>4, <2>5, <2>6, <2>7, LockStep DEF Control
<1>3. CASE /\ d \notin started[p] /\ runtime' = runtime \union {p}
           /\ started' = [started EXCEPT ![p] = started[p] \union {d}]
           /\ IF wants_voice(started[p] \union {d})
              THEN lock' = [lock EXCEPT ![p] = d] /\ Goto(d, "mvm")
              ELSE UNCHANGED lock /\ Goto(d, "idle")
  <2>1. UNCHANGED <<params, pcm, at, sess, dsp, doubt>>
    BY DEF q6voice_start, wire
  <2>2. \/ /\ wants_voice(started[p] \union {d})
           /\ lock' = [lock EXCEPT ![p] = d] /\ pc' = [pc EXCEPT ![d] = "mvm"]
        \/ /\ ~wants_voice(started[p] \union {d})
           /\ lock' = lock /\ pc' = [pc EXCEPT ![d] = "idle"]
    BY <1>3 DEF Goto
  <2>3. Types'
    BY <1>1, <1>3, <2>1, <2>2 DEF VoiceInv, Control, Types, Labels
  <2>4. Owned'
    BY <1>1, <1>3, <2>1, <2>2 DEF VoiceInv, Control, Types, Owned, Outside
  <2>5. Opened'
    BY <1>1, <1>3, <2>1, <2>2 DEF VoiceInv, Control, Types, Opened, Idle, At, Leaving
  <2>6. ~wants_voice(started[p])
    BY <1>1, <1>3 DEF wants_voice
  <2>7. Silent(p)
    BY <1>1, <2>6 DEF Resting
  <2>8. started'[p] = started[p] \union {d}
    BY <1>1, <1>3 DEF VoiceInv, Control, Types
  <2>9. Silent(p)' /\ (wants_voice(started[p])' <=> wants_voice(started[p] \union {d}))
    BY <2>1, <2>7, <2>8 DEF Silent, Clean, wants_voice
  <2>10. IF wants_voice(started[p] \union {d}) THEN Knows(p, "mvm")' ELSE Resting(p)'
    BY <2>1, <2>9 DEF Resting, Knows, Up, wants_voice, Silent, Clean
  <2>11. \/ lock'[p] = "free" /\ Resting(p)'
         \/ lock'[p] = d /\ pc'[d] = "mvm" /\ Knows(p, "mvm")'
    BY <1>1, <2>2, <2>10 DEF VoiceInv, Control, Types
  <2>12. \A q \in Paths \ {p} : lock'[q] = lock[q] /\ lock[q] # d /\ started'[q] = started[q]
    BY <1>1, <1>3, <2>2 DEF VoiceInv, Control, Types, Owned, Outside
  <2>13. \A u \in Threads \ {d} : pc'[u] = pc[u]
    BY <2>2 DEF VoiceInv, Control, Types
  <2>14. p' = p
    BY <2>1
  <2> QED BY <1>1, <2>1, <2>3, <2>4, <2>5, <2>11, <2>12, <2>13, <2>14, LockStep DEF Control
<1> QED BY <1>2, <1>3 DEF q6voice_start, Goto

\* q6voice_stop() takes a path that is up, or one that is silent.
LEMMA Stops ==
  ASSUME VoiceInv, NEW d \in Dirs, q6voice_stop(d)
  PROVE  VoiceInv'
<1> USE ThreadFacts
<1> DEFINE p == at[d]
<1>1. /\ p \in Paths /\ lock[p] = "free" /\ Resting(p) /\ pc[d] = "stop"
      /\ p = params.voice_path /\ pc["remove"] = "idle"
      /\ params.require_both \/ d = "playback"
  <2>1. pc[d] = "stop" /\ lock[p] = "free"
    BY DEF q6voice_stop, Acquire, At
  <2>2. p \in Paths /\ Resting(p)
    BY <2>1 DEF VoiceInv, Control, Types, PathInv
  <2> QED BY <2>1, <2>2 DEF VoiceInv, Control, Opened, Leaving, At, Idle
<1>2. UNCHANGED <<params, pcm, at, runtime, started, sess, dsp, doubt>>
  BY DEF q6voice_stop, wire, pathState
<1>3. CASE pc' = [pc EXCEPT ![d] = "idle"] /\ lock' = lock /\ (p \notin runtime \/ d \notin started[p])
  <2>2. Types'
    BY <1>1, <1>2, <1>3 DEF VoiceInv, Control, Types, Labels
  <2>3. Owned'
    BY <1>1, <1>2, <1>3 DEF VoiceInv, Control, Types, Owned, Outside
  <2>4. \A q \in Paths : d \notin started[q]
    BY <1>1, <1>3 DEF VoiceInv, Control, Opened
  <2>5. Opened'
    BY <1>1, <1>2, <1>3, <2>4 DEF VoiceInv, Control, Types, Opened, Idle, At, Leaving
  <2>6. Resting(p)'
    BY <1>1, <1>2 DEF Resting, Perhaps, Silent, Clean, wants_voice
  <2>7. \A q \in Paths \ {p} : lock'[q] = lock[q] /\ lock[q] # d /\ started'[q] = started[q]
    BY <1>1, <1>2, <1>3 DEF VoiceInv, Control, Types, Owned, Outside
  <2>8. (\A u \in Threads \ {d} : pc'[u] = pc[u]) /\ lock'[p] = "free"
    BY <1>1, <1>3 DEF VoiceInv, Control, Types
  <2> QED BY <1>1, <1>2, <2>2, <2>3, <2>5, <2>6, <2>7, <2>8, LockStep DEF Control
<1>4. ASSUME NEW n \in {"stop_play", "stopped"},
             n = IF wants_voice(started[p]) THEN "stop_play" ELSE "stopped",
             pc' = [pc EXCEPT ![d] = n], lock' = [lock EXCEPT ![p] = d]
      PROVE  VoiceInv'
  <2>1. n \in Labels /\ n \notin Outside /\ n \in Leaving /\ n # "free" /\ n # "idle"
    BY <1>4 DEF Labels, Outside, Leaving
  <2>2. Types'
    BY <1>1, <1>2, <1>4, <2>1 DEF VoiceInv, Control, Types
  <2>3. Owned'
    BY <1>1, <1>2, <1>4, <2>1 DEF VoiceInv, Control, Types, Owned, Outside
  <2>4. Opened'
    BY <1>1, <1>2, <1>4, <2>1 DEF VoiceInv, Control, Types, Opened, Idle, At
  <2>5. Knows(p, n)
    BY <1>1, <1>4 DEF Resting, Knows, Up, Live, Silent
  <2>6. Knows(p, n)'
    BY <1>2, <2>5 DEF Knows, Silent, Perhaps, Clean, wants_voice
  <2>7. \A q \in Paths \ {p} : lock'[q] = lock[q] /\ lock[q] # d /\ started'[q] = started[q]
    BY <1>1, <1>2, <1>4 DEF VoiceInv, Control, Types, Owned, Outside
  <2>8. (\A u \in Threads \ {d} : pc'[u] = pc[u]) /\ lock'[p] = d /\ pc'[d] = n
    BY <1>1, <1>4 DEF VoiceInv, Control, Types
  <2> QED BY <1>1, <1>2, <2>2, <2>3, <2>4, <2>6, <2>7, <2>8, LockStep DEF Control
<1> QED BY <1>3, <1>4 DEF q6voice_stop, Goto

\* On removal nothing is open, so nothing is started and nothing runs.
LEMMA Frees ==
  ASSUME VoiceInv, NEW p \in Paths, q6voice_free(p)
  PROVE  VoiceInv'
<1> USE ThreadFacts
<1>1. /\ pc["remove"] = "free" /\ lock[p] = "free" /\ Resting(p)
      /\ pcm = {} /\ \A d \in Dirs : pc[d] = "idle"
  BY DEF q6voice_free, At, VoiceInv, Control, Opened, Idle, PathInv
<1>2. started[p] = {}
  BY <1>1 DEF VoiceInv, Control, Types, Opened, Leaving
<1>3. Silent(p)
  BY <1>1, <1>2 DEF Resting, wants_voice
<1>4. /\ lock' = [lock EXCEPT ![p] = "remove"] /\ at' = [at EXCEPT !["remove"] = p]
      /\ pc' = [pc EXCEPT !["remove"] = "destroy"]
      /\ UNCHANGED <<params, pcm, runtime, started, sess, dsp, doubt>>
  BY <1>2 DEF q6voice_free, Goto, wire, pathState
<1>5. Types'
  BY <1>1, <1>4 DEF VoiceInv, Control, Types, Labels
<1>6. Owned'
  BY <1>1, <1>4 DEF VoiceInv, Control, Types, Owned, Outside
<1>7. Opened'
  BY <1>1, <1>4 DEF VoiceInv, Control, Types, Opened, Idle, At, Leaving
<1>8. Knows(p, "destroy")'
  BY <1>3, <1>4 DEF Knows, Up, Silent, Clean
<1>9. \A q \in Paths \ {p} : lock'[q] = lock[q] /\ lock[q] # "remove" /\ started'[q] = started[q]
  BY <1>1, <1>4 DEF VoiceInv, Control, Types, Owned, Outside
<1>10. /\ \A u \in Threads \ {"remove"} : pc'[u] = pc[u]
       /\ lock'[p] = "remove" /\ pc'["remove"] = "destroy"
  BY <1>1, <1>4 DEF VoiceInv, Control, Types
<1> QED BY <1>4, <1>5, <1>6, <1>7, <1>8, <1>9, <1>10, LockStep DEF Control

-----------------------------------------------------------------------------
(* Steps outside of the mutex.                                             *)

\* A step that touches no path, nor what a path is judged by.
LEMMA OutsideStep ==
  ASSUME VoiceInv, Control', UNCHANGED <<params, lock, pathState, dsp, doubt>>,
         \A p \in Paths : lock[p] # "free" => pc'[lock[p]] = pc[lock[p]]
  PROVE  VoiceInv'
<1>1. SessTypes' /\ DspTypes'
  BY DEF VoiceInv, SessTypes, DspTypes, pathState
<1>2. ASSUME NEW p \in Paths
      PROVE  (Kept(p) <=> Kept(p)') /\ (Resting(p) <=> Resting(p)')
             /\ \A l \in Labels : Knows(p, l) <=> Knows(p, l)'
  BY DEF pathState, Kept, Resting, Knows, Silent, Perhaps, Clean, wants_voice
<1>3. \A p \in Paths : lock[p] # "free" => pc[lock[p]] \in Labels
  BY DEF VoiceInv, Control, Types
<1>4. PathInv'
  <2> SUFFICES ASSUME NEW p \in Paths
               PROVE  (/\ Kept(p)
                       /\ lock[p] = "free" => Resting(p)
                       /\ lock[p] # "free" => Knows(p, pc[lock[p]]))'
    BY DEF PathInv
  <2>1. lock'[p] = lock[p] /\ (lock[p] # "free" => pc'[lock[p]] = pc[lock[p]])
    OBVIOUS
  <2> QED BY <2>1, <1>2, <1>3 DEF VoiceInv, PathInv
<1> QED BY <1>1, <1>4 DEF VoiceInv

\* The parameters that decide what a path is for are written between calls.
Cold == HotParams \intersect {"require_both", "voice_path"} = {}

\* A parameter is written while nothing runs, or does not matter here.
LEMMA WriteParam ==
  ASSUME Cold, VoiceInv, write_param
  PROVE  VoiceInv'
<1> USE ThreadFacts
<1>1. UNCHANGED <<pcm, pc, at, lock, runtime, started, sess, dsp, doubt>> /\ params' \in ParamValues
  BY DEF write_param, pathState, wire
<1>2. Types' /\ Owned'
  BY <1>1 DEF VoiceInv, Control, Types, Owned
<1>3. CASE Quiet
  <2>1. pcm = {} /\ \A t \in Threads : pc[t] = "idle"
    BY <1>3 DEF Quiet, Idle, At
  <2>2. \A p \in Paths : started[p] = {}
    BY <2>1 DEF VoiceInv, Control, Types, Opened, Leaving
  <2>3. \A p \in Paths : lock[p] = "free"
    BY <2>1 DEF VoiceInv, Control, Types, Owned, Outside
  <2>4. Opened'
    BY <1>1, <2>1, <2>2 DEF Opened, Idle, At
  <2>5. \A p \in Paths : Silent(p)
    BY <2>2, <2>3 DEF VoiceInv, PathInv, Resting, wants_voice
  <2>6. \A p \in Paths : Resting(p)' /\ Kept(p)' /\ lock'[p] = "free"
    BY <1>1, <2>2, <2>3, <2>5 DEF VoiceInv, PathInv, Resting, Kept, Perhaps, Silent, Clean, wants_voice
  <2>7. PathInv'
    BY <2>6 DEF PathInv
  <2> QED BY <1>1, <1>2, <2>4, <2>7 DEF VoiceInv, Control, SessTypes, DspTypes
<1>4. CASE params'.require_both = params.require_both /\ params'.voice_path = params.voice_path
  <2>1. Opened'
    BY <1>1, <1>4 DEF VoiceInv, Control, Opened, Idle, At
  <2>2. ASSUME NEW p \in Paths
        PROVE  (Kept(p) <=> Kept(p)') /\ (Resting(p) <=> Resting(p)')
               /\ \A l \in Labels : Knows(p, l) <=> Knows(p, l)'
    BY <1>1, <1>4 DEF Kept, Resting, Knows, Silent, Perhaps, Clean, wants_voice
  <2>3. \A p \in Paths : lock[p] # "free" => pc[lock[p]] \in Labels
    BY DEF VoiceInv, Control, Types
  <2>4. PathInv'
    <3> SUFFICES ASSUME NEW p \in Paths
                 PROVE  (/\ Kept(p)
                         /\ lock[p] = "free" => Resting(p)
                         /\ lock[p] # "free" => Knows(p, pc[lock[p]]))'
      BY DEF PathInv
    <3> QED BY <1>1, <2>2, <2>3 DEF VoiceInv, PathInv
  <2> QED BY <1>1, <1>2, <2>1, <2>4 DEF VoiceInv, Control, SessTypes, DspTypes
<1>5. ASSUME NEW n \in DOMAIN params, NEW v, n \in HotParams, params' = [params EXCEPT ![n] = v]
      PROVE  params'.require_both = params.require_both /\ params'.voice_path = params.voice_path
  <2>1. n # "require_both" /\ n # "voice_path"
    BY <1>5 DEF Cold
  <2>2. params \in Params
    BY ConstAssumption DEF VoiceInv, Control, Types
  <2> QED BY <1>5, <2>1, <2>2 DEF Params
<1> QED BY <1>3, <1>4, <1>5 DEF write_param

\* A direction is opened, prepared or closed.
LEMMA Userspace ==
  ASSUME VoiceInv, NEW d \in Dirs, open_pcm(d) \/ dai_prepare(d) \/ dai_shutdown(d)
  PROVE  VoiceInv'
<1> USE ThreadFacts
<1>1. /\ UNCHANGED <<params, lock, runtime, started, sess, dsp, doubt>>
      /\ pc[d] = "idle" /\ params.voice_path \in Paths
      /\ \/ /\ pcm' = pcm \union {d} /\ pc' = pc /\ at' = at /\ pc["remove"] = "idle"
            /\ params.require_both \/ d = "playback"
         \/ /\ d \in pcm /\ pcm' = pcm /\ pc' = [pc EXCEPT ![d] = "start"]
            /\ at' = [at EXCEPT ![d] = params.voice_path]
         \/ /\ d \in pcm /\ pcm' = pcm \ {d} /\ pc' = [pc EXCEPT ![d] = "stop"]
            /\ at' = [at EXCEPT ![d] = params.voice_path]
  BY ConstAssumption DEF open_pcm, dai_prepare, dai_shutdown, Goto, Idle, At, pathState, wire,
     VoiceInv, Control, Types, Params
<1>2. Types'
  BY <1>1 DEF VoiceInv, Control, Types, Labels
<1>3. Owned'
  BY <1>1 DEF VoiceInv, Control, Types, Owned, Outside
<1>4. Opened'
  BY <1>1 DEF VoiceInv, Control, Types, Opened, Idle, At, Leaving
<1>5. \A p \in Paths : lock[p] # "free" => pc'[lock[p]] = pc[lock[p]]
  BY <1>1 DEF VoiceInv, Control, Types, Owned, Outside
<1> QED BY <1>1, <1>2, <1>3, <1>4, <1>5, OutsideStep DEF Control, pathState

\* The device is bound and unbound.
LEMMA Binding ==
  ASSUME VoiceInv, unbind \/ unbound \/ q6voice_create \/ q6voice_free_destroys
  PROVE  VoiceInv'
<1> USE ThreadFacts
<1>1. pc["remove"] # "stopped"
  BY DEF VoiceInv, Control, Opened
<1>2. /\ UNCHANGED <<params, pcm, at, lock, runtime, started, sess, dsp, doubt>>
      /\ \/ pc' = pc
         \/ /\ pc' = [pc EXCEPT !["remove"] = "free"] /\ pc["remove"] = "idle"
            /\ pcm = {} /\ \A d \in Dirs : pc[d] = "idle"
         \/ pc' = [pc EXCEPT !["remove"] = "idle"] /\ pc["remove"] = "free"
  BY <1>1 DEF unbind, unbound, q6voice_create, q6voice_free_destroys, Goto, At, Idle, Quiet,
     pathState, wire
<1>3. Types'
  BY <1>2 DEF VoiceInv, Control, Types, Labels
<1>4. Owned'
  BY <1>2 DEF VoiceInv, Control, Types, Owned, Outside
<1>5. Opened'
  BY <1>2 DEF VoiceInv, Control, Types, Opened, Idle, At, Leaving
<1>6. \A p \in Paths : lock[p] # "free" => pc'[lock[p]] = pc[lock[p]]
  BY <1>2 DEF VoiceInv, Control, Types, Owned, Outside
<1> QED BY <1>2, <1>3, <1>4, <1>5, <1>6, OutsideStep DEF Control, pathState

-----------------------------------------------------------------------------
(* Together.                                                               *)

\* Every step.
LEMMA VoiceStep == ASSUME Cold, VoiceInv, [Next]_vars PROVE VoiceInv'
<1> USE ThreadFacts
<1>1. CASE write_param
  BY <1>1, WriteParam
<1>2. ASSUME NEW d \in Dirs, open_pcm(d) \/ dai_prepare(d) \/ dai_shutdown(d)
      PROVE  VoiceInv'
  BY <1>2, Userspace
<1>3. ASSUME NEW d \in Dirs, Enters(d)
      PROVE  VoiceInv'
  BY <1>3, Starts, Stops DEF Enters
<1>4. ASSUME NEW d \in Dirs, Running(d)
      PROVE  VoiceInv'
  BY <1>4, StartStep, StartReturns, StopStep, Destroys, StopReturns DEF Running
<1>5. CASE Removing
  BY <1>5, StopStep, Destroys, Frees, Binding DEF Removing
<1>6. CASE unbind \/ q6voice_create
  BY <1>6, Binding
<1>7. CASE UNCHANGED vars
  <2>1. UNCHANGED <<params, pcm, pc, at, lock, runtime, started, sess, dsp, doubt>>
    BY <1>7 DEF vars, pathState, wire
  <2>2. Control'
    BY <2>1 DEF VoiceInv, Control, Types, Owned, Opened, Idle, At
  <2> QED BY <2>1, <2>2, OutsideStep DEF pathState
<1> QED BY <1>1, <1>2, <1>3, <1>4, <1>5, <1>6, <1>7 DEF Next

\* At the start nothing is open, set up or locked.
LEMMA VoiceInit == Init => VoiceInv
<1> USE ThreadFacts
<1> SUFFICES ASSUME Init PROVE VoiceInv
  OBVIOUS
<1>1. \A t \in Threads : pc[t] = "idle"
  BY DEF Init
<1>2. params.voice_path \in Paths
  BY ConstAssumption DEF Init, Params
<1>3. Types /\ SessTypes /\ DspTypes
  BY <1>2 DEF Init, Types, SessTypes, DspTypes, Labels
<1>4. Owned
  BY <1>1 DEF Init, Owned, Outside
<1>5. Opened
  BY <1>1 DEF Init, Opened, Idle, At
<1>6. PathInv
  BY DEF Init, PathInv, Kept, Resting, Silent, Clean, wants_voice
<1> QED BY <1>3, <1>4, <1>5, <1>6 DEF VoiceInv, Control

\* Between operations a voice session is up on the DSP exactly while the
\* directions it waits for are prepared, up to what the DSP did not confirm
\* (UpIffWanted), with any number of paths, faults and calls, if require_both
\* and voice_path are written only while no voice PCM is open.
THEOREM UpIffWantedAlways ==
  ASSUME Cold
  PROVE  Spec => []UpIffWanted
<1>1. VoiceInv /\ [Next]_vars => VoiceInv'
  BY VoiceStep
<1>2. VoiceInv => UpIffWanted
  <2> SUFFICES ASSUME VoiceInv, NEW p \in Paths, lock[p] = "free"
               PROVE  IF wants_voice(started[p])
                      THEN CallNeeds \subseteq dsp[p] \union doubt[p] /\ {"mvm", "cvp"} \subseteq sess[p]
                      ELSE dsp[p] \intersect Live \subseteq doubt[p]
    BY DEF UpIffWanted
  <2>1. Resting(p) /\ Kept(p)
    BY DEF VoiceInv, PathInv
  <2>2. CASE wants_voice(started[p])
    BY <2>1, <2>2 DEF Resting, Kept, Perhaps, Live, CallNeeds
  <2>3. CASE ~wants_voice(started[p])
    BY <2>1, <2>3 DEF Resting, Silent, Clean
  <2> QED BY <2>2, <2>3
<1> QED BY VoiceInit, <1>1, <1>2, PTL DEF Spec

-----------------------------------------------------------------------------
(* What is left of a path: every fact the DSP may hold for it is covered   *)
(* by a session, by the runtime, or by the command that is under way.      *)

\* The parameters that a path is stopped by are written between calls too.
Steady == HotParams \intersect {"require_both", "voice_path", "playback_port"} = {}

\* No stream of our own; both directions are waited for; in-call playback is
\* only asked for together with a stream to play into.
NoStream == \A q \in ParamValues : ~q.attach_stream
BothRequired == \A q \in ParamValues : q.require_both
Paired == "attach_stream" \notin HotParams /\ \A q \in ParamValues : q.playback_port => q.attach_stream

\* Labels of q6voice_path_start(), and those where its variable cvs counts.
Starting == {"mvm", "dual", "undual", "stream", "create_cvs", "attach_stream", "cvp", "enable",
             "attach", "start_voice", "unmute", "unmute_rx", "play", "start_err", "attach_err",
             "cvp_err", "up", "failed"}
Streaming == {"attach_stream", "cvp", "enable", "attach", "start_voice", "unmute", "unmute_rx",
              "play"}

\* At any time.
Covered(p) ==
  /\ "cvp" \in sess[p] \/ Clean(p, "cvp")
  /\ "cvs" \in sess[p] \/ Clean(p, "cvs")
  /\ Clean(p, "playback") \/ (params.playback_port /\ "cvs" \in sess[p])
  /\ NoStream => Clean(p, "stream") /\ "cvs" \notin sess[p]

\* While the mutex is free.
Left(p) ==
  /\ "mvm" \in sess[p] \/ (Clean(p, "mvm") /\ Clean(p, "dual"))
  /\ wants_voice(started[p]) \/ Clean(p, "playback")
  /\ sess[p] # {} => p \in runtime
  /\ BothRequired /\ p \in runtime => started[p] # {}

\* While thread t, inside with the mutex, is at label l.
Holds(p, l, t) ==
  /\ p \in runtime
  /\ l \in {"dual", "undual"} \/ "mvm" \in sess[p] \/ (Clean(p, "mvm") /\ Clean(p, "dual"))
  /\ l \in {"up", "stop_play"} \/ Clean(p, "playback")
  /\ l \in Starting => t \in Dirs /\ wants_voice(started[p])
  /\ l \in Streaming /\ t \in Dirs /\ cvs[t] = "cvs" => "cvs" \in sess[p]
  /\ l \in Streaming /\ t \in Dirs /\ cvs[t] # "cvs" /\ Paired => ~params.attach_stream
  /\ l \in {"create_cvs", "attach_stream"} => ~NoStream
  /\ l = "detach" => "cvp" \in sess[p]
  /\ BothRequired => t # "remove"
  /\ Paired => l # "oops"

CvsType == cvs \in [Dirs -> {"garbage", "cvs"}]

HeldInv ==
  /\ CvsType
  /\ \A p \in Paths :
       /\ Covered(p)
       /\ lock[p] = "free" => Left(p)
       /\ lock[p] # "free" => Holds(p, pc[lock[p]], lock[p])

\* A command, what it adds and what it takes.
Does(o, a, r) ==
  /\ a \in SUBSET Facts /\ r \in SUBSET Facts
  /\ Command(o).adds = a /\ Command(o).drops = r

\* All of them.
LEMMA Deeds ==
  /\ Does("CREATE_MVM", {"mvm"}, {"dual"})
  /\ Does("DUAL_CONTROL", {"dual"}, {})
  /\ Does("DESTROY_MVM", {}, {"mvm", "dual"})
  /\ Does("CREATE_CVS", {"cvs"}, {})
  /\ Does("ATTACH_STREAM", {"stream"}, {})
  /\ Does("CREATE_CVP", {"cvp"}, {})
  /\ Does("ENABLE", {"enabled"}, {})
  /\ Does("ATTACH", {"vocproc"}, {})
  /\ Does("START_VOICE", {"running"}, {})
  /\ Does("MUTE_V2", {}, {})
  /\ Does("PLAYBACK_START", {"playback"}, {})
  /\ Does("STOP_VOICE", {}, {"running"})
  /\ Does("DETACH", {}, {"vocproc"})
  /\ Does("DISABLE", {}, {"enabled"})
  /\ Does("PLAYBACK_STOP", {}, {"playback"})
  /\ Does("DETACH_STREAM", {}, {"stream"})
  /\ Does("DESTROY_CVP", {}, {"cvp"})
  /\ Does("DESTROY_CVS", {}, {"cvs"})
BY Commands DEF Does, Facts

\* Labels at which a thread has the mutex.
Inside == Labels \ Outside

\* These are.
LEMMA InsideFacts ==
  /\ "mvm" \in Inside /\ "dual" \in Inside /\ "undual" \in Inside /\ "stream" \in Inside
  /\ "create_cvs" \in Inside /\ "attach_stream" \in Inside /\ "cvp" \in Inside /\ "enable" \in Inside
  /\ "attach" \in Inside /\ "start_voice" \in Inside /\ "unmute" \in Inside /\ "unmute_rx" \in Inside
  /\ "play" \in Inside /\ "start_err" \in Inside /\ "attach_err" \in Inside /\ "cvp_err" \in Inside
  /\ "up" \in Inside /\ "failed" \in Inside /\ "stop_play" \in Inside /\ "stop_voice" \in Inside
  /\ "detach" \in Inside /\ "disable" \in Inside /\ "detach_stream" \in Inside /\ "stopped" \in Inside
  /\ "destroy" \in Inside /\ "oops" \in Inside
BY DEF Inside, Outside, Labels

\* A command that failed adds nothing that is known to be there.
LEMMA SendFails ==
  ASSUME DspTypes, NEW p \in Paths, NEW o, NEW ok, ~ok, send(p, o, ok),
         NEW a, NEW r, Does(o, a, r)
  PROVE  \A f \in a : Clean(p, f) => Clean(p, f)'
<1> DEFINE after == (dsp[p] \ r) \union a
<1> USE DEF DspTypes, Clean, Does
<1>1. CASE dsp' = dsp /\ doubt' = [doubt EXCEPT ![p] = @ \union r]
  BY <1>1
<1>2. CASE /\ dsp' = dsp \/ dsp' = [dsp EXCEPT ![p] = after]
           /\ doubt' = [doubt EXCEPT ![p] = @ \union a \union r]
  BY <1>2
<1>3. \/ dsp' = dsp /\ doubt' = [doubt EXCEPT ![p] = @ \union r]
      \/ /\ dsp' = dsp \/ dsp' = [dsp EXCEPT ![p] = after]
         /\ doubt' = [doubt EXCEPT ![p] = @ \union a \union r]
  BY DEF send
<1> QED BY <1>1, <1>2, <1>3

\* What a thread inside relies on.
LEMMA HeldHere ==
  ASSUME VoiceInv, HeldInv, NEW t \in Threads, NEW l \in Labels \ Outside, At(t, l)
  PROVE  Covered(at[t]) /\ Holds(at[t], l, t) /\ CvsType
<1>1. at[t] \in Paths /\ lock[at[t]] = t /\ pc[t] = l /\ t # "free"
  BY Here DEF At, Threads, Dirs
<1> QED BY <1>1 DEF HeldInv

\* A step inside: the other paths do not notice, and its own is as stated.
LEMMA HeldMove ==
  ASSUME VoiceInv, HeldInv, NEW t \in Threads, NEW l \in Labels \ Outside, NEW n \in Labels,
         Moves(t, l, n), CvsType', \A u \in Dirs \ {t} : cvs'[u] = cvs[u],
         \A q \in Paths \ {at[t]} : sess'[q] = sess[q] /\ dsp'[q] = dsp[q] /\ doubt'[q] = doubt[q],
         Covered(at[t])', Holds(at[t], n, t)'
  PROVE  HeldInv'
<1>1. at[t] \in Paths /\ lock[at[t]] = t /\ pc'[t] = n /\ t # "free"
  BY Here DEF VoiceInv, Control, Types, Moves, At, Goto, Threads, Dirs
<1>2. UNCHANGED <<params, at, lock, runtime, started>>
  BY DEF Moves
<1>3. ASSUME NEW q \in Paths \ {at[t]}
      PROVE  (Covered(q) <=> Covered(q)') /\ (Left(q) <=> Left(q)')
  BY <1>2, <1>3 DEF Covered, Left, Clean, wants_voice
<1>4. ASSUME NEW q \in Paths \ {at[t]}, NEW m, NEW u \in Threads \ {t}
      PROVE  Holds(q, m, u) <=> Holds(q, m, u)'
  BY <1>2, <1>4 DEF Holds, Clean, wants_voice
<1>5. ASSUME NEW q \in Paths \ {at[t]}, lock[q] # "free"
      PROVE  lock[q] \in Threads \ {t} /\ pc'[lock[q]] = pc[lock[q]]
  BY <1>5 DEF VoiceInv, Control, Types, Owned, Moves, Goto
<1>6. ASSUME NEW q \in Paths
      PROVE  (/\ Covered(q)
              /\ lock[q] = "free" => Left(q)
              /\ lock[q] # "free" => Holds(q, pc[lock[q]], lock[q]))'
  <2>1. CASE q = at[t]
    BY <2>1, <1>1, <1>2
  <2>2. CASE q # at[t]
    BY <2>2, <1>2, <1>3, <1>4, <1>5 DEF HeldInv
  <2> QED BY <2>1, <2>2
<1> QED BY <1>6 DEF HeldInv

\* What is known after a command, whether it succeeded or not.
Heard(t, l, a, r) ==
  /\ UNCHANGED <<params, at, runtime, started, sess, cvs>>
  /\ \A f \in Facts \ a : Clean(at[t], f) => Clean(at[t], f)'
  /\ \A f \in r \ a : Clean(at[t], f)'
  /\ wants_voice(started[at[t]])' <=> wants_voice(started[at[t]])
  /\ Covered(at[t]) /\ Holds(at[t], l, t) /\ Knows(at[t], l)

\* And what one that failed leaves.
Failed(t, a) == \A f \in a : Clean(at[t], f) => Clean(at[t], f)'

\* A command that leaves the sessions and the variable cvs alone.
LEMMA HeldTry ==
  ASSUME VoiceInv, HeldInv, NEW t \in Threads, NEW l \in Inside,
         NEW yes \in Inside, NEW no \in Inside,
         NEW o, NEW a, NEW r, Does(o, a, r), Try(t, l, o, yes, no),
         Heard(t, l, a, r) => Covered(at[t])' /\ Holds(at[t], yes, t)',
         Heard(t, l, a, r) /\ Failed(t, a) => Covered(at[t])' /\ Holds(at[t], no, t)'
  PROVE  HeldInv'
<1> USE DEF Does, Inside
<1>1. PICK ok \in BOOLEAN : Step(t, l, o, ok, IF ok THEN yes ELSE no) /\ UNCHANGED sess
  BY DEF Try
<1>2. /\ At(t, l) /\ send(at[t], o, ok)
      /\ UNCHANGED <<params, pcm, at, lock, runtime, started, cvs, sess>>
      /\ IF ok THEN Goto(t, yes) ELSE Goto(t, no)
  BY <1>1 DEF Step
<1>3. /\ Sent(at[t], a, r, ok)
      /\ \A q \in Paths \ {at[t]} : dsp'[q] = dsp[q] /\ doubt'[q] = doubt[q]
  BY <1>2, SendStep
<1>4. at[t] \in Paths /\ Knows(at[t], l) /\ DspTypes /\ Covered(at[t]) /\ Holds(at[t], l, t) /\ CvsType
  BY <1>2, Here, HeldHere
<1>5. Heard(t, l, a, r) /\ CvsType'
  BY <1>2, <1>3, <1>4 DEF Heard, Sent, CvsType
<1>6. CASE ok
  <2>1. Moves(t, l, yes)
    BY <1>2, <1>6 DEF Moves
  <2> QED BY <1>2, <1>3, <1>5, <2>1, HeldMove
<1>7. CASE ~ok
  <2>1. Moves(t, l, no) /\ Failed(t, a)
    BY <1>2, <1>4, <1>7, SendFails DEF Moves, Failed
  <2> QED BY <1>2, <1>3, <1>5, <2>1, HeldMove
<1> QED BY <1>6, <1>7

\* One whose result is only logged.
LEMMA HeldDo ==
  ASSUME VoiceInv, HeldInv, NEW t \in Threads, NEW l \in Inside, NEW n \in Inside,
         NEW o, NEW a, NEW r, Does(o, a, r), Do(t, l, o, n),
         Heard(t, l, a, r) => Covered(at[t])' /\ Holds(at[t], n, t)'
  PROVE  HeldInv'
BY HeldTry DEF Do

\* A step inside that sends nothing and leaves the variable cvs alone.
LEMMA HeldSkip ==
  ASSUME VoiceInv, HeldInv, NEW t \in Threads, NEW l \in Inside, NEW n \in Inside,
         At(t, l), Goto(t, n), UNCHANGED <<params, pcm, at, lock, pathState, dsp, doubt, cvs>>,
         Covered(at[t]) /\ Holds(at[t], l, t) /\ Knows(at[t], l) => Holds(at[t], n, t)
  PROVE  HeldInv'
<1> USE DEF Inside
<1>1. Covered(at[t]) /\ Holds(at[t], n, t) /\ CvsType
  BY Here, HeldHere
<1>2. Moves(t, l, n) /\ sess' = sess /\ runtime' = runtime /\ started' = started
  BY DEF Moves, pathState
<1>3. Covered(at[t])' /\ CvsType'
  BY <1>1, <1>2 DEF Covered, Clean, CvsType
<1>4. Holds(at[t], n, t)'
  BY <1>1, <1>2 DEF Holds, Clean, wants_voice
<1> QED BY <1>2, <1>3, <1>4, HeldMove

\* A CREATE whose session is kept exactly if it succeeded; DUAL_CONTROL likewise.
Created0(t, l, a, ok) ==
  /\ UNCHANGED <<params, at, runtime, started>>
  /\ \A f \in Facts \ a : Clean(at[t], f) => Clean(at[t], f)'
  /\ ~ok => \A f \in a : Clean(at[t], f) => Clean(at[t], f)'
  /\ wants_voice(started[at[t]])' <=> wants_voice(started[at[t]])
  /\ Covered(at[t]) /\ Holds(at[t], l, t) /\ Knows(at[t], l)

Created(t, l, n, svc, ok, a) ==
  /\ Moves(t, l, n) /\ Created0(t, l, a, ok) /\ CvsType
  /\ \A q \in Paths \ {at[t]} : sess'[q] = sess[q] /\ dsp'[q] = dsp[q] /\ doubt'[q] = doubt[q]
  /\ ok => sess'[at[t]] = sess[at[t]] \union {svc}
  /\ ~ok => sess'[at[t]] = sess[at[t]]

\* What follows from such a command, with the session kept.
LEMMA CreateStep ==
  ASSUME VoiceInv, HeldInv, NEW t \in Threads, NEW l \in Inside, NEW n, NEW svc, NEW o,
         NEW ok \in BOOLEAN, NEW a, Does(o, a, {}),
         At(t, l), send(at[t], o, ok), Goto(t, n),
         UNCHANGED <<params, pcm, at, lock, runtime, started>>,
         IF ok THEN Keep(t, svc) ELSE UNCHANGED sess
  PROVE  Created(t, l, n, svc, ok, a)
<1> USE DEF Does, Inside
<1>1. /\ Moves(t, l, n) /\ Sent(at[t], a, {}, ok)
      /\ \A q \in Paths \ {at[t]} : dsp'[q] = dsp[q] /\ doubt'[q] = doubt[q]
  BY SendStep
<1>2. /\ at[t] \in Paths /\ Knows(at[t], l) /\ DspTypes /\ SessTypes
      /\ Covered(at[t]) /\ Holds(at[t], l, t) /\ CvsType
  BY Here, HeldHere
<1>3. ~ok => \A f \in a : Clean(at[t], f) => Clean(at[t], f)'
  BY <1>2, SendFails
<1>4. Created0(t, l, a, ok)
  BY <1>1, <1>2, <1>3 DEF Created0, Sent
<1>5. /\ \A q \in Paths \ {at[t]} : sess'[q] = sess[q]
      /\ ok => sess'[at[t]] = sess[at[t]] \union {svc}
      /\ ~ok => sess'[at[t]] = sess[at[t]]
  BY <1>2 DEF SessTypes, Keep
<1> QED BY <1>1, <1>2, <1>4, <1>5 DEF Created

\* path_start() covers what it sets up, and a failure leaves what is covered.
LEMMA HeldStart ==
  ASSUME VoiceInv, HeldInv, NEW d \in Dirs, PathStart(d)
  PROVE  HeldInv'
<1> d \in Threads
  BY ThreadFacts
<1>1. CASE path_start_mvm(d)
  <2>1. CASE At(d, "mvm") /\ Skip(d, "stream") /\ "mvm" \in sess[at[d]]
    <3>1. Holds(at[d], "mvm", d) => Holds(at[d], "stream", d)
      BY <2>1 DEF Holds, Starting, Streaming, Facts
    <3> QED BY <2>1, <3>1, HeldSkip, InsideFacts DEF Skip, wire
  <2>2. CASE Try(d, "mvm", "CREATE_MVM", "dual", "failed") /\ "mvm" \notin sess[at[d]]
    <3>1. Heard(d, "mvm", {"mvm"}, {"dual"}) => Covered(at[d])' /\ Holds(at[d], "dual", d)'
      BY DEF Heard, Covered, Holds, Starting, Streaming, Facts
    <3>2. Heard(d, "mvm", {"mvm"}, {"dual"}) /\ Failed(d, {"mvm"})
          => Covered(at[d])' /\ Holds(at[d], "failed", d)'
      BY <2>2 DEF Heard, Failed, Covered, Holds, Starting, Streaming, Facts
    <3> QED BY <2>2, <3>1, <3>2, HeldTry, Deeds, InsideFacts
  <2> QED BY <1>1, <2>1, <2>2 DEF path_start_mvm
<1>2. CASE path_start_dual_control(d)
  <2>1. PICK ok \in BOOLEAN :
          /\ Step(d, "dual", "DUAL_CONTROL", ok, IF ok THEN "stream" ELSE "undual")
          /\ IF ok THEN Keep(d, "mvm") ELSE UNCHANGED sess
    BY <1>2 DEF path_start_dual_control
  <2>2. Created(d, "dual", IF ok THEN "stream" ELSE "undual", "mvm", ok, {"dual"}) /\ cvs' = cvs
    BY <2>1, CreateStep, Deeds, InsideFacts DEF Step
  <2>3. Covered(at[d])' /\ Holds(at[d], IF ok THEN "stream" ELSE "undual", d)'
    BY <2>2 DEF Created, Created0, Covered, Holds, Starting, Streaming, Facts
  <2> QED BY <2>2, <2>3, HeldMove, InsideFacts DEF Inside, Created, CvsType
<1>3. CASE path_start_no_dual_control(d)
  <2>1. Heard(d, "undual", {}, {"mvm", "dual"}) => Covered(at[d])' /\ Holds(at[d], "failed", d)'
    BY DEF Heard, Covered, Holds, Starting, Streaming, Facts, Knows, Up
  <2> QED BY <1>3, <2>1, HeldDo, Deeds, InsideFacts DEF path_start_no_dual_control
<1>4. CASE path_start_stream(d)
  <2>1. At(d, "stream") /\ UNCHANGED <<params, pcm, at, lock, runtime, started, sess, dsp, doubt>>
    BY <1>4 DEF path_start_stream, Skip, wire, pathState
  <2>2. PICK n \in {"cvp", "attach_stream", "create_cvs"} :
          /\ Goto(d, n)
          /\ n = "cvp" => cvs' = [cvs EXCEPT ![d] = "garbage"] /\ ~params.attach_stream
          /\ n = "attach_stream" => cvs' = [cvs EXCEPT ![d] = "cvs"] /\ "cvs" \in sess[at[d]]
          /\ n = "create_cvs" => cvs' = cvs
          /\ n # "cvp" => params.attach_stream
    BY <1>4 DEF path_start_stream, Skip
  <2>3. Covered(at[d]) /\ Holds(at[d], "stream", d) /\ CvsType /\ params \in ParamValues
    BY <2>1, HeldHere, InsideFacts DEF Inside, VoiceInv, Control, Types
  <2>4. CvsType' /\ (\A u \in Dirs \ {d} : cvs'[u] = cvs[u])
    <3>1. \/ cvs' = [cvs EXCEPT ![d] = "garbage"] \/ cvs' = [cvs EXCEPT ![d] = "cvs"]
          \/ cvs' = cvs
      BY <2>2
    <3> QED BY <2>3, <3>1 DEF CvsType
  <2>5. Covered(at[d])'
    BY <2>1, <2>3 DEF Covered, Clean
  <2>6. n = "attach_stream" \/ n = "cvp" => cvs'[d] = IF n = "cvp" THEN "garbage" ELSE "cvs"
    BY <2>2, <2>3 DEF CvsType
  <2>7. Holds(at[d], n, d)'
    BY <2>1, <2>2, <2>3, <2>6 DEF Holds, Starting, Streaming, Facts, Clean, wants_voice, NoStream
  <2>8. Moves(d, "stream", n)
    BY <2>1, <2>2 DEF Moves
  <2> QED BY <2>1, <2>4, <2>5, <2>7, <2>8, HeldMove, InsideFacts DEF Inside
<1>5. CASE path_start_create_cvs(d)
  <2>1. PICK ok \in BOOLEAN :
          /\ send(at[d], "CREATE_CVS", ok)
          /\ IF ok THEN Keep(d, "cvs") /\ cvs' = [cvs EXCEPT ![d] = "cvs"]
                   ELSE UNCHANGED <<sess, cvs>>
          /\ Goto(d, IF ok THEN "attach_stream" ELSE "failed")
    BY <1>5 DEF path_start_create_cvs
  <2>2. At(d, "create_cvs") /\ UNCHANGED <<params, pcm, at, lock, runtime, started>>
    BY <1>5 DEF path_start_create_cvs
  <2>3. Created(d, "create_cvs", IF ok THEN "attach_stream" ELSE "failed", "cvs", ok, {"cvs"})
    BY <2>1, <2>2, CreateStep, Deeds, InsideFacts
  <2>4. CvsType
    BY <2>2, HeldHere, InsideFacts DEF Inside
  <2>5. CvsType' /\ (\A u \in Dirs \ {d} : cvs'[u] = cvs[u])
    BY <2>1, <2>4 DEF CvsType
  <2>6. ok => cvs'[d] = "cvs"
    BY <2>1, <2>4 DEF CvsType
  <2>7. Covered(at[d])' /\ Holds(at[d], IF ok THEN "attach_stream" ELSE "failed", d)'
    BY <2>3, <2>6 DEF Created, Created0, Covered, Holds, Starting, Streaming, Facts
  <2> QED BY <2>3, <2>5, <2>7, HeldMove, InsideFacts DEF Inside, Created
<1>6. CASE path_start_attach_stream(d)
  <2>1. Heard(d, "attach_stream", {"stream"}, {}) => Covered(at[d])' /\ Holds(at[d], "cvp", d)'
    BY DEF Heard, Covered, Holds, Starting, Streaming, Facts, Knows, Up
  <2>2. Heard(d, "attach_stream", {"stream"}, {}) /\ Failed(d, {"stream"}) => Covered(at[d])' /\ Holds(at[d], "failed", d)'
    BY DEF Heard, Failed, Covered, Holds, Starting, Streaming, Facts, Knows, Up
  <2> QED BY <1>6, <2>1, <2>2, HeldTry, Deeds, InsideFacts DEF path_start_attach_stream
<1>7. CASE path_start_cvp(d)
  <2>1. CASE At(d, "cvp") /\ Skip(d, "enable") /\ "cvp" \in sess[at[d]]
    <3>1. Holds(at[d], "cvp", d) => Holds(at[d], "enable", d)
      BY DEF Holds, Starting, Streaming, Facts
    <3> QED BY <2>1, <3>1, HeldSkip, InsideFacts DEF Skip, wire
  <2>2. ASSUME NEW ok \in BOOLEAN,
               Step(d, "cvp", "CREATE_CVP", ok, IF ok THEN "enable" ELSE "failed"),
               IF ok THEN Keep(d, "cvp") ELSE UNCHANGED sess
        PROVE  HeldInv'
    <3>1. Created(d, "cvp", IF ok THEN "enable" ELSE "failed", "cvp", ok, {"cvp"}) /\ cvs' = cvs
      BY <2>2, CreateStep, Deeds, InsideFacts DEF Step
    <3>2. Covered(at[d])' /\ Holds(at[d], IF ok THEN "enable" ELSE "failed", d)'
      BY <3>1 DEF Created, Created0, Covered, Holds, Starting, Streaming, Facts
    <3> QED BY <3>1, <3>2, HeldMove, InsideFacts DEF Inside, Created, CvsType
  <2> QED BY <1>7, <2>1, <2>2 DEF path_start_cvp
<1>8. CASE path_start_enable(d)
  <2>1. Heard(d, "enable", {"enabled"}, {}) => Covered(at[d])' /\ Holds(at[d], "attach", d)'
    BY DEF Heard, Covered, Holds, Starting, Streaming, Facts, Knows, Up
  <2>2. Heard(d, "enable", {"enabled"}, {}) /\ Failed(d, {"enabled"}) => Covered(at[d])' /\ Holds(at[d], "cvp_err", d)'
    BY DEF Heard, Failed, Covered, Holds, Starting, Streaming, Facts, Knows, Up
  <2> QED BY <1>8, <2>1, <2>2, HeldTry, Deeds, InsideFacts DEF path_start_enable
<1>9. CASE path_start_attach(d)
  <2>1. Heard(d, "attach", {"vocproc"}, {}) => Covered(at[d])' /\ Holds(at[d], "start_voice", d)'
    BY DEF Heard, Covered, Holds, Starting, Streaming, Facts, Knows, Up
  <2>2. Heard(d, "attach", {"vocproc"}, {}) /\ Failed(d, {"vocproc"}) => Covered(at[d])' /\ Holds(at[d], "attach_err", d)'
    BY DEF Heard, Failed, Covered, Holds, Starting, Streaming, Facts, Knows, Up
  <2> QED BY <1>9, <2>1, <2>2, HeldTry, Deeds, InsideFacts DEF path_start_attach
<1>10. CASE path_start_start(d)
  <2>1. Heard(d, "start_voice", {"running"}, {}) => Covered(at[d])' /\ Holds(at[d], "unmute", d)'
    BY DEF Heard, Covered, Holds, Starting, Streaming, Facts, Knows, Up
  <2>2. Heard(d, "start_voice", {"running"}, {}) /\ Failed(d, {"running"}) => Covered(at[d])' /\ Holds(at[d], "start_err", d)'
    BY DEF Heard, Failed, Covered, Holds, Starting, Streaming, Facts, Knows, Up
  <2> QED BY <1>10, <2>1, <2>2, HeldTry, Deeds, InsideFacts DEF path_start_start
<1>11. CASE path_start_unmute(d)
  <2>1. At(d, "unmute") /\ (Try(d, "unmute", "MUTE_V2", "unmute_rx", "play") \/ Skip(d, "play"))
    BY <1>11 DEF path_start_unmute
  <2>2. Heard(d, "unmute", {}, {}) => Covered(at[d])' /\ Holds(at[d], "unmute_rx", d)'
                                      /\ Holds(at[d], "play", d)'
    BY DEF Heard, Covered, Holds, Starting, Streaming, Facts
  <2>3. Holds(at[d], "unmute", d) => Holds(at[d], "play", d)
    BY DEF Holds, Starting, Streaming, Facts
  <2>4. CASE Try(d, "unmute", "MUTE_V2", "unmute_rx", "play")
    BY <2>2, <2>4, HeldTry, Deeds, InsideFacts
  <2>5. CASE Skip(d, "play")
    BY <2>1, <2>3, <2>5, HeldSkip, InsideFacts DEF Skip, wire
  <2> QED BY <2>1, <2>4, <2>5
<1>12. CASE path_start_unmute_rx(d)
  <2>1. Heard(d, "unmute_rx", {}, {}) => Covered(at[d])' /\ Holds(at[d], "play", d)'
    BY DEF Heard, Covered, Holds, Starting, Streaming, Facts, Knows, Up
  <2> QED BY <1>12, <2>1, HeldDo, Deeds, InsideFacts DEF path_start_unmute_rx
<1>13. CASE path_start_playback(d)
  <2>1. At(d, "play")
    BY <1>13 DEF path_start_playback
  <2>2. CASE params.playback_port /\ cvs[d] = "cvs" /\ Do(d, "play", "PLAYBACK_START", "up")
    <3>1. Heard(d, "play", {"playback"}, {}) => Covered(at[d])' /\ Holds(at[d], "up", d)'
      BY <2>2 DEF Heard, Covered, Holds, Starting, Streaming, Facts
    <3> QED BY <2>2, <3>1, HeldDo, Deeds, InsideFacts
  <2>3. CASE Skip(d, "up")
    <3>1. Holds(at[d], "play", d) => Holds(at[d], "up", d)
      BY DEF Holds, Starting, Streaming, Facts
    <3> QED BY <2>1, <2>3, <3>1, HeldSkip, InsideFacts DEF Skip, wire
  <2>4. CASE params.playback_port /\ cvs[d] = "garbage" /\ Oops(d)
    <3>1. params \in ParamValues
      BY DEF VoiceInv, Control, Types
    <3>2. Holds(at[d], "play", d) => Holds(at[d], "oops", d)
      BY <2>4, <3>1 DEF Holds, Starting, Streaming, Facts, Paired
    <3> QED BY <2>1, <2>4, <3>2, HeldSkip, InsideFacts DEF Oops, wire
  <2> QED BY <1>13, <2>2, <2>3, <2>4 DEF path_start_playback
<1>14. CASE path_start_start_err(d)
  <2>1. Heard(d, "start_err", {}, {"running"}) => Covered(at[d])' /\ Holds(at[d], "attach_err", d)'
    BY DEF Heard, Covered, Holds, Starting, Streaming, Facts, Knows, Up
  <2> QED BY <1>14, <2>1, HeldDo, Deeds, InsideFacts DEF path_start_start_err
<1>15. CASE path_start_attach_err(d)
  <2>1. Heard(d, "attach_err", {}, {"vocproc"}) => Covered(at[d])' /\ Holds(at[d], "cvp_err", d)'
    BY DEF Heard, Covered, Holds, Starting, Streaming, Facts, Knows, Up
  <2> QED BY <1>15, <2>1, HeldDo, Deeds, InsideFacts DEF path_start_attach_err
<1>16. CASE path_start_cvp_err(d)
  <2>1. Heard(d, "cvp_err", {}, {"enabled"}) => Covered(at[d])' /\ Holds(at[d], "failed", d)'
    BY DEF Heard, Covered, Holds, Starting, Streaming, Facts, Knows, Up
  <2> QED BY <1>16, <2>1, HeldDo, Deeds, InsideFacts DEF path_start_cvp_err
<1> QED BY <1>1, <1>2, <1>3, <1>4, <1>5, <1>6, <1>7, <1>8, <1>9, <1>10, <1>11, <1>12, <1>13, <1>14, <1>15, <1>16
   DEF PathStart

\* A session is released, and the DSP's side of it with it.
LEMMA HeldRelease ==
  ASSUME VoiceInv, HeldInv, NEW t \in Threads, NEW svc, NEW o, NEW r, Does(o, {}, r), Release(t, svc, o),
         svc = "mvm" => {"mvm", "dual"} \subseteq r,
         svc \in {"cvp", "cvs"} => svc \in r
  PROVE  HeldInv'
<1>1. PICK ok \in BOOLEAN : Step(t, "destroy", o, ok, "destroy")
  BY DEF Release
<1>2. /\ Moves(t, "destroy", "destroy") /\ Sent(at[t], {}, r, ok)
      /\ UNCHANGED <<params, at, runtime, started, cvs>> /\ At(t, "destroy")
      /\ \A q \in Paths \ {at[t]} : dsp'[q] = dsp[q] /\ doubt'[q] = doubt[q]
  BY <1>1, SendStep DEF Does, Step, Facts, Labels, Outside
<1>3. /\ at[t] \in Paths /\ SessTypes
      /\ Covered(at[t]) /\ Holds(at[t], "destroy", t) /\ CvsType
  BY <1>2, Here, HeldHere DEF Labels, Outside
<1>4. (\A q \in Paths \ {at[t]} : sess'[q] = sess[q]) /\ sess'[at[t]] = sess[at[t]] \ {svc}
  BY <1>3 DEF SessTypes, Release
<1>5. Covered(at[t])'
  BY <1>2, <1>3, <1>4 DEF Sent, Covered, Holds, Facts
<1>6. Holds(at[t], "destroy", t)'
  BY <1>2, <1>3, <1>4 DEF Sent, Holds, Starting, Streaming, Facts
<1>7. CvsType'
  BY <1>2, <1>3 DEF CvsType
<1> QED BY <1>2, <1>4, <1>5, <1>6, <1>7, HeldMove DEF Labels, Outside

\* path_stop() takes down what covered it, and finds the sessions it uses.
LEMMA HeldStop ==
  ASSUME VoiceInv, HeldInv, NEW t \in Threads, PathStop(t), ~path_destroy_runtime(t)
  PROVE  HeldInv'
<1>1. CASE path_stop_playback(t)
  <2>1. At(t, "stop_play")
    BY <1>1 DEF path_stop_playback
  <2>2. CASE Do(t, "stop_play", "PLAYBACK_STOP", "stop_voice")
    <3>1. Heard(t, "stop_play", {}, {"playback"}) => Covered(at[t])' /\ Holds(at[t], "stop_voice", t)'
      BY DEF Heard, Covered, Holds, Starting, Streaming, Facts
    <3> QED BY <2>2, <3>1, HeldDo, Deeds, InsideFacts
  <2>3. CASE ~(params.playback_port /\ "cvs" \in sess[at[t]]) /\ Skip(t, "stop_voice")
    <3>1. Covered(at[t]) /\ Holds(at[t], "stop_play", t) => Holds(at[t], "stop_voice", t)
      BY <2>3 DEF Covered, Holds, Starting, Streaming, Facts
    <3> QED BY <2>1, <2>3, <3>1, HeldSkip, InsideFacts DEF Skip, wire
  <2> QED BY <1>1, <2>2, <2>3 DEF path_stop_playback
<1>2. CASE path_stop_start(t)
  <2>1. At(t, "stop_voice")
    BY <1>2 DEF path_stop_start
  <2>2. "mvm" \in sess[at[t]]
    BY <2>1, Here, InsideFacts DEF Inside, Knows, Up
  <2>3. Do(t, "stop_voice", "STOP_VOICE", "detach")
    BY <1>2, <2>2 DEF path_stop_start
  <2>4. Heard(t, "stop_voice", {}, {"running"}) => Covered(at[t])' /\ Holds(at[t], "detach", t)'
    BY DEF Heard, Covered, Holds, Starting, Streaming, Facts, Knows, Up
  <2> QED BY <2>3, <2>4, HeldDo, Deeds, InsideFacts
<1>3. CASE path_stop_attach(t)
  <2>1. At(t, "detach")
    BY <1>3 DEF path_stop_attach
  <2>2. "cvp" \in sess[at[t]]
    BY <2>1, HeldHere, InsideFacts DEF Inside, Holds, Starting, Streaming, Facts
  <2>3. Do(t, "detach", "DETACH", "disable")
    BY <1>3, <2>2 DEF path_stop_attach
  <2>4. Heard(t, "detach", {}, {"vocproc"}) => Covered(at[t])' /\ Holds(at[t], "disable", t)'
    BY DEF Heard, Covered, Holds, Starting, Streaming, Facts
  <2> QED BY <2>3, <2>4, HeldDo, Deeds, InsideFacts
<1>4. CASE path_stop_enable(t)
  <2>1. Heard(t, "disable", {}, {"enabled"}) => Covered(at[t])' /\ Holds(at[t], "detach_stream", t)'
    BY DEF Heard, Covered, Holds, Starting, Streaming, Facts
  <2> QED BY <1>4, <2>1, HeldDo, Deeds, InsideFacts DEF path_stop_enable
<1>5. CASE path_stop_attach_stream(t)
  <2>1. At(t, "detach_stream")
        /\ (Do(t, "detach_stream", "DETACH_STREAM", "stopped") \/ Skip(t, "stopped"))
    BY <1>5 DEF path_stop_attach_stream
  <2>2. Heard(t, "detach_stream", {}, {"stream"}) => Covered(at[t])' /\ Holds(at[t], "stopped", t)'
    BY DEF Heard, Covered, Holds, Starting, Streaming, Facts
  <2>3. Holds(at[t], "detach_stream", t) => Holds(at[t], "stopped", t)
    BY DEF Holds, Starting, Streaming, Facts
  <2>4. CASE Do(t, "detach_stream", "DETACH_STREAM", "stopped")
    BY <2>2, <2>4, HeldDo, Deeds, InsideFacts
  <2>5. CASE Skip(t, "stopped")
    BY <2>1, <2>3, <2>5, HeldSkip, InsideFacts DEF Skip, wire
  <2> QED BY <2>1, <2>4, <2>5
<1>6. CASE path_destroy_mvm(t)
  BY <1>6, HeldRelease, Deeds, InsideFacts DEF path_destroy_mvm
<1>7. CASE path_destroy_cvp(t)
  BY <1>7, HeldRelease, Deeds, InsideFacts DEF path_destroy_cvp
<1>8. CASE path_destroy_cvs(t)
  BY <1>8, HeldRelease, Deeds, InsideFacts DEF path_destroy_cvs
<1> QED BY <1>1, <1>2, <1>3, <1>4, <1>5, <1>6, <1>7, <1>8 DEF PathStop

-----------------------------------------------------------------------------
(* The mutex again.                                                        *)

\* The mutex of one path changes hands, or is not taken.
LEMMA HeldLock ==
  ASSUME VoiceInv, HeldInv, NEW t \in Threads, NEW p \in Paths,
         UNCHANGED <<params, sess, dsp, doubt, cvs>>,
         \A q \in Paths \ {p} : /\ lock'[q] = lock[q] /\ lock[q] # t /\ started'[q] = started[q]
                                /\ q \in runtime' <=> q \in runtime,
         \A u \in Threads \ {t} : pc'[u] = pc[u],
         \/ lock'[p] = "free" /\ Left(p)'
         \/ lock'[p] = t /\ Holds(p, pc[t], t)'
  PROVE  HeldInv'
<1>1. CvsType' /\ \A q \in Paths : Covered(q)'
  BY DEF HeldInv, CvsType, Covered, Clean
<1>2. ASSUME NEW q \in Paths \ {p}
      PROVE  /\ (Left(q) <=> Left(q)') /\ \A m, u : Holds(q, m, u) <=> Holds(q, m, u)'
             /\ lock[q] # "free" => pc'[lock[q]] = pc[lock[q]]
  BY <1>2 DEF VoiceInv, Control, Types, Left, Holds, Clean, wants_voice
<1>3. t # "free"
  BY DEF Threads, Dirs
<1>4. ASSUME NEW q \in Paths
      PROVE  (/\ lock[q] = "free" => Left(q)
              /\ lock[q] # "free" => Holds(q, pc[lock[q]], lock[q]))'
  <2>1. CASE q = p
    BY <2>1, <1>3
  <2>2. CASE q # p
    <3>1. lock'[q] = lock[q]
      BY <2>2
    <3> QED BY <2>2, <3>1, <1>2 DEF HeldInv
  <2> QED BY <2>1, <2>2
<1> QED BY <1>1, <1>4 DEF HeldInv

\* The facts about the path of a thread that is about to take the mutex.
LEMMA HeldFree ==
  ASSUME VoiceInv, HeldInv, NEW p \in Paths, lock[p] = "free"
  PROVE  Covered(p) /\ Left(p) /\ Resting(p)
BY DEF HeldInv, VoiceInv, PathInv

\* The path that begins to be set up has its runtime.
LEMMA HeldStarts ==
  ASSUME VoiceInv, HeldInv, NEW d \in Dirs, q6voice_start(d)
  PROVE  HeldInv'
<1> USE ThreadFacts
<1> DEFINE p == at[d]
<1>1. /\ p \in Paths /\ lock[p] = "free" /\ pc[d] = "start" /\ d \in pcm
      /\ params.require_both \/ d = "playback"
  BY DEF q6voice_start, Acquire, At, VoiceInv, Control, Types, Opened, Leaving, Idle
<1>2. Covered(p) /\ Left(p)
  BY <1>1, HeldFree
<1>3. UNCHANGED <<params, pcm, at, sess, dsp, doubt, cvs>>
  BY DEF q6voice_start, wire
<1>4. \A q \in Paths : lock[q] # d
  BY <1>1 DEF VoiceInv, Control, Types, Owned, Outside
<1>5. CASE pc' = [pc EXCEPT ![d] = "idle"] /\ UNCHANGED <<lock, runtime, started>>
  <2>1. Left(p)'
    BY <1>2, <1>3, <1>5 DEF Left, Clean, wants_voice
  <2>2. \A u \in Threads \ {d} : pc'[u] = pc[u]
    BY <1>5 DEF VoiceInv, Control, Types
  <2> QED BY <1>1, <1>3, <1>4, <1>5, <2>1, <2>2, HeldLock
<1>6. CASE /\ d \notin started[p] /\ runtime' = runtime \union {p}
           /\ started' = [started EXCEPT ![p] = started[p] \union {d}]
           /\ IF wants_voice(started[p] \union {d})
              THEN lock' = [lock EXCEPT ![p] = d] /\ Goto(d, "mvm")
              ELSE UNCHANGED lock /\ Goto(d, "idle")
  <2>1. /\ started'[p] = started[p] \union {d} /\ p \in runtime'
        /\ wants_voice(started[p])' <=> wants_voice(started[p] \union {d})
    BY <1>1, <1>3, <1>6 DEF VoiceInv, Control, Types, wants_voice
  <2>2. ~wants_voice(started[p])
    BY <1>1, <1>6 DEF wants_voice
  <2>3. \A q \in Paths \ {p} : started'[q] = started[q] /\ (q \in runtime' <=> q \in runtime)
    BY <1>1, <1>6 DEF VoiceInv, Control, Types
  <2>4. \A u \in Threads \ {d} : pc'[u] = pc[u]
    BY <1>6 DEF VoiceInv, Control, Types, Goto
  <2>5. CASE wants_voice(started[p] \union {d})
    <3>1. lock'[p] = d /\ pc'[d] = "mvm" /\ \A q \in Paths \ {p} : lock'[q] = lock[q]
      BY <1>1, <1>6, <2>5 DEF VoiceInv, Control, Types, Goto
    <3>2. Holds(p, "mvm", d)'
      BY <1>2, <1>3, <2>1, <2>2, <2>5 DEF Left, Holds, Starting, Streaming, Clean
    <3> QED BY <1>1, <1>3, <1>4, <2>3, <2>4, <3>1, <3>2, HeldLock
  <2>6. CASE ~wants_voice(started[p] \union {d})
    <3>1. Left(p)'
      BY <1>2, <1>3, <2>1, <2>2 DEF Left, Clean
    <3> QED BY <1>1, <1>3, <1>4, <1>6, <2>3, <2>4, <2>6, <3>1, HeldLock
  <2> QED BY <2>5, <2>6
<1> QED BY <1>5, <1>6 DEF q6voice_start, Goto

\* A path that is up is stopped, playback first; one that is not has none.
LEMMA HeldStops ==
  ASSUME VoiceInv, HeldInv, NEW d \in Dirs, q6voice_stop(d)
  PROVE  HeldInv'
<1> USE ThreadFacts
<1> DEFINE p == at[d]
<1>1. p \in Paths /\ lock[p] = "free" /\ pc[d] = "stop"
  BY DEF q6voice_stop, Acquire, At, VoiceInv, Control, Types
<1>2. Covered(p) /\ Left(p) /\ Resting(p)
  BY <1>1, HeldFree
<1>3. UNCHANGED <<params, at, runtime, started, sess, dsp, doubt, cvs>>
  BY DEF q6voice_stop, wire, pathState
<1>4. \A q \in Paths : lock[q] # d
  BY <1>1 DEF VoiceInv, Control, Types, Owned, Outside
<1>5. ASSUME NEW n \in {"idle", "stop_play", "stopped"}, pc' = [pc EXCEPT ![d] = n]
      PROVE  (\A u \in Threads \ {d} : pc'[u] = pc[u]) /\ pc'[d] = n
  BY <1>5 DEF VoiceInv, Control, Types
<1>6. CASE pc' = [pc EXCEPT ![d] = "idle"] /\ lock' = lock
  <2>1. Left(p)'
    BY <1>2, <1>3 DEF Left, Clean, wants_voice
  <2> QED BY <1>1, <1>3, <1>4, <1>5, <1>6, <2>1, HeldLock
<1>7. ASSUME NEW n \in {"stop_play", "stopped"}, p \in runtime,
             n = IF wants_voice(started[p]) THEN "stop_play" ELSE "stopped",
             pc' = [pc EXCEPT ![d] = n], lock' = [lock EXCEPT ![p] = d]
      PROVE  HeldInv'
  <2>1. Holds(p, n, d)
    BY <1>2, <1>7 DEF Left, Holds, Starting, Streaming
  <2>2. Holds(p, n, d)'
    BY <1>3, <2>1 DEF Holds, Clean, wants_voice
  <2>3. lock'[p] = d /\ \A q \in Paths \ {p} : lock'[q] = lock[q]
    BY <1>1, <1>7 DEF VoiceInv, Control, Types
  <2>4. (\A u \in Threads \ {d} : pc'[u] = pc[u]) /\ pc'[d] = n
    BY <1>5, <1>7
  <2> QED BY <1>1, <1>3, <1>4, <2>2, <2>3, <2>4, HeldLock
<1> QED BY <1>6, <1>7 DEF q6voice_stop, Goto

\* The path is up and covered, or what is left of it is.
LEMMA HeldStartReturns ==
  ASSUME VoiceInv, HeldInv, NEW d \in Dirs, q6voice_start_returns(d)
  PROVE  HeldInv'
<1> USE ThreadFacts
<1> DEFINE p == at[d]
<1>1. PICK l \in {"up", "failed"} : At(d, l)
  BY DEF q6voice_start_returns, At
<1>2. /\ p \in Paths /\ lock[p] = d /\ Holds(p, l, d) /\ params \in ParamValues
  BY <1>1, Here, HeldHere DEF Labels, Outside, VoiceInv, Control, Types
<1>3. /\ pc' = [pc EXCEPT ![d] = "idle"] /\ lock' = [lock EXCEPT ![p] = "free"]
      /\ started' = IF l = "failed" THEN [started EXCEPT ![p] = @ \ {d}] ELSE started
      /\ UNCHANGED <<params, pcm, at, runtime, sess, dsp, doubt, cvs>>
  BY <1>1 DEF q6voice_start_returns, Goto, Unlock, At, wire
<1>4. /\ \A u \in Threads \ {d} : pc'[u] = pc[u]
      /\ lock'[p] = "free" /\ started'[p] = IF l = "failed" THEN started[p] \ {d} ELSE started[p]
      /\ \A q \in Paths \ {p} : lock'[q] = lock[q] /\ lock[q] # d /\ started'[q] = started[q]
  BY <1>2, <1>3 DEF VoiceInv, Control, Types, Owned
<1>5. BothRequired => started'[p] # {}
  BY <1>2, <1>4 DEF Holds, Starting, wants_voice, BothRequired
<1>6. Left(p)'
  BY <1>1, <1>2, <1>3, <1>4, <1>5 DEF Holds, Left, Clean, wants_voice, Starting
<1> QED BY <1>2, <1>3, <1>4, <1>6, HeldLock

\* The last direction goes on to destroy the path.
LEMMA HeldStopReturns ==
  ASSUME VoiceInv, HeldInv, NEW d \in Dirs, q6voice_stop_returns(d)
  PROVE  HeldInv'
<1> USE ThreadFacts
<1> DEFINE p == at[d]
           left == started[p] \ {d}
<1>1. At(d, "stopped")
  BY DEF q6voice_stop_returns
<1>2. p \in Paths /\ lock[p] = d /\ Holds(p, "stopped", d)
  BY <1>1, Here, HeldHere DEF Labels, Outside
<1>3. /\ started' = [started EXCEPT ![p] = left]
      /\ UNCHANGED <<params, pcm, at, runtime, sess, dsp, doubt, cvs>>
      /\ \/ left = {} /\ pc' = [pc EXCEPT ![d] = "destroy"] /\ lock' = lock
         \/ left # {} /\ pc' = [pc EXCEPT ![d] = "idle"] /\ lock' = [lock EXCEPT ![p] = "free"]
  BY DEF q6voice_stop_returns, Goto, Unlock, wire
<1>4. /\ \A u \in Threads \ {d} : pc'[u] = pc[u]
      /\ started'[p] = left
      /\ \A q \in Paths \ {p} : lock'[q] = lock[q] /\ lock[q] # d /\ started'[q] = started[q]
  BY <1>2, <1>3 DEF VoiceInv, Control, Types, Owned
<1>5. CASE left = {} /\ pc' = [pc EXCEPT ![d] = "destroy"] /\ lock' = lock
  <2>1. Holds(p, "destroy", d)'
    BY <1>2, <1>3 DEF Holds, Clean, Starting, Streaming
  <2>2. pc'[d] = "destroy" /\ lock'[p] = d
    BY <1>2, <1>5 DEF VoiceInv, Control, Types
  <2> QED BY <1>2, <1>3, <1>4, <2>1, <2>2, HeldLock
<1>6. CASE left # {} /\ pc' = [pc EXCEPT ![d] = "idle"] /\ lock' = [lock EXCEPT ![p] = "free"]
  <2>1. Left(p)'
    BY <1>2, <1>3, <1>4, <1>6 DEF Holds, Left, Clean
  <2>2. lock'[p] = "free"
    BY <1>2, <1>6 DEF VoiceInv, Control, Types
  <2> QED BY <1>2, <1>3, <1>4, <2>1, <2>2, HeldLock
<1> QED BY <1>3, <1>5, <1>6

\* A path without sessions loses its runtime.
LEMMA HeldDestroys ==
  ASSUME VoiceInv, HeldInv, NEW t \in Threads, path_destroy_runtime(t)
  PROVE  HeldInv'
<1> USE ThreadFacts
<1> DEFINE p == at[t]
<1>1. At(t, "destroy") /\ sess[p] = {}
  BY DEF path_destroy_runtime
<1>2. p \in Paths /\ lock[p] = t /\ Holds(p, "destroy", t)
  BY <1>1, Here, HeldHere DEF Labels, Outside
<1>3. /\ started' = [started EXCEPT ![p] = {}] /\ runtime' = runtime \ {p}
      /\ UNCHANGED <<params, pcm, at, sess, dsp, doubt, cvs>>
      /\ pc' = [pc EXCEPT ![t] = IF t = "remove" THEN "free" ELSE "idle"]
      /\ lock' = [lock EXCEPT ![p] = "free"]
  BY DEF path_destroy_runtime, Goto, Unlock, wire
<1>4. /\ \A u \in Threads \ {t} : pc'[u] = pc[u]
      /\ lock'[p] = "free"
      /\ \A q \in Paths \ {p} : lock'[q] = lock[q] /\ lock[q] # t /\ started'[q] = started[q]
  BY <1>2, <1>3 DEF VoiceInv, Control, Types, Owned
<1>5. Left(p)'
  BY <1>1, <1>2, <1>3 DEF Holds, Left, Clean
<1> QED BY <1>2, <1>3, <1>4, <1>5, HeldLock

\* On removal nothing is started, so a path that is left was never up.
LEMMA HeldFrees ==
  ASSUME VoiceInv, HeldInv, NEW p \in Paths, q6voice_free(p)
  PROVE  HeldInv'
<1> USE ThreadFacts
<1>1. /\ pc["remove"] = "free" /\ lock[p] = "free" /\ p \in runtime
      /\ pcm = {} /\ \A d \in Dirs : pc[d] = "idle"
  BY DEF q6voice_free, At, VoiceInv, Control, Opened, Idle
<1>2. started[p] = {}
  BY <1>1 DEF VoiceInv, Control, Types, Opened, Leaving
<1>3. Covered(p) /\ Left(p)
  BY <1>1, HeldFree
<1>4. /\ lock' = [lock EXCEPT ![p] = "remove"] /\ pc' = [pc EXCEPT !["remove"] = "destroy"]
      /\ UNCHANGED <<params, runtime, started, sess, dsp, doubt, cvs>>
  BY <1>2 DEF q6voice_free, Goto, wire, pathState
<1>5. Clean(p, "playback") /\ ~BothRequired
  BY <1>1, <1>2, <1>3 DEF Left, wants_voice
<1>6. Holds(p, "destroy", "remove")
  BY <1>1, <1>3, <1>5 DEF Left, Holds, Starting, Streaming
<1>7. Holds(p, "destroy", "remove")'
  BY <1>4, <1>6 DEF Holds, Clean, wants_voice
<1>8. /\ \A q \in Paths \ {p} : lock'[q] = lock[q] /\ lock[q] # "remove"
      /\ lock'[p] = "remove" /\ pc'["remove"] = "destroy"
      /\ \A u \in Threads \ {"remove"} : pc'[u] = pc[u]
  BY <1>1, <1>4 DEF VoiceInv, Control, Types, Owned, Outside
<1> QED BY <1>4, <1>7, <1>8, HeldLock

-----------------------------------------------------------------------------
(* Outside of the mutex again.                                             *)

\* A step that touches no path.
LEMMA HeldOutside ==
  ASSUME VoiceInv, HeldInv, UNCHANGED <<params, lock, runtime, started, sess, dsp, doubt, cvs>>,
         \A p \in Paths : lock[p] # "free" => pc'[lock[p]] = pc[lock[p]]
  PROVE  HeldInv'
<1>1. CvsType'
  BY DEF HeldInv, CvsType
<1>2. ASSUME NEW p \in Paths
      PROVE  (Covered(p) <=> Covered(p)') /\ (Left(p) <=> Left(p)')
             /\ \A l, t : Holds(p, l, t) <=> Holds(p, l, t)'
  BY DEF Covered, Left, Holds, Clean, wants_voice
<1>3. ASSUME NEW p \in Paths
      PROVE  (/\ Covered(p)
              /\ lock[p] = "free" => Left(p)
              /\ lock[p] # "free" => Holds(p, pc[lock[p]], lock[p]))'
  <2>1. lock'[p] = lock[p]
    OBVIOUS
  <2> QED BY <2>1, <1>2 DEF HeldInv
<1> QED BY <1>1, <1>3 DEF HeldInv

\* A parameter is written between calls, or is not one a path is stopped by.
LEMMA HeldWriteParam ==
  ASSUME Steady, VoiceInv, HeldInv, write_param
  PROVE  HeldInv'
<1> USE ThreadFacts
<1>1. UNCHANGED <<pcm, pc, at, lock, runtime, started, sess, dsp, doubt, cvs>>
  BY DEF write_param, pathState, wire
<1>2. CvsType'
  BY <1>1 DEF HeldInv, CvsType
<1>3. CASE Quiet
  <2>1. pcm = {} /\ \A t \in Threads : pc[t] = "idle"
    BY <1>3 DEF Quiet, Idle, At
  <2>2. \A p \in Paths : started[p] = {}
    BY <2>1 DEF VoiceInv, Control, Types, Opened, Leaving
  <2>3. \A p \in Paths : lock[p] = "free"
    BY <2>1 DEF VoiceInv, Control, Types, Owned, Outside
  <2>4. ASSUME NEW p \in Paths
        PROVE  Covered(p)' /\ Left(p)' /\ lock'[p] = "free"
    <3>1. Covered(p) /\ Left(p) /\ lock[p] = "free" /\ started[p] = {}
      BY <2>2, <2>3 DEF HeldInv
    <3>2. Clean(p, "playback")
      BY <3>1 DEF Left, wants_voice
    <3> QED BY <1>1, <3>1, <3>2 DEF Covered, Left, Clean
  <2> QED BY <1>2, <2>4 DEF HeldInv
<1>4. ASSUME NEW n \in DOMAIN params, NEW v, n \in HotParams, params' = [params EXCEPT ![n] = v]
      PROVE  HeldInv'
  <2>1. n \notin {"require_both", "voice_path", "playback_port"}
    BY <1>4 DEF Steady
  <2>2. params \in Params
    BY ConstAssumption DEF VoiceInv, Control, Types
  <2>3. /\ params'.require_both = params.require_both
        /\ params'.playback_port = params.playback_port
    BY <1>4, <2>1, <2>2 DEF Params
  <2>4. Paired => params'.attach_stream = params.attach_stream
    BY <1>4, <2>2 DEF Params, Paired
  <2>5. ASSUME NEW p \in Paths
        PROVE  (Covered(p) <=> Covered(p)') /\ (Left(p) <=> Left(p)')
               /\ \A l, t : Holds(p, l, t) <=> Holds(p, l, t)'
    BY <1>1, <2>3, <2>4 DEF Covered, Left, Holds, Clean, wants_voice
  <2> QED BY <1>1, <1>2, <2>5 DEF HeldInv
<1> QED BY <1>3, <1>4 DEF write_param

\* The steps of the PCM, and of probe and removal.
LEMMA HeldUserspace ==
  ASSUME VoiceInv, HeldInv,
         \/ \E d \in Dirs : open_pcm(d) \/ dai_prepare(d) \/ dai_shutdown(d)
         \/ unbind \/ unbound \/ q6voice_create \/ q6voice_free_destroys
  PROVE  HeldInv'
<1> USE ThreadFacts
<1>1. pc["remove"] # "stopped"
  BY DEF VoiceInv, Control, Opened
<1>2. /\ UNCHANGED <<params, lock, runtime, started, sess, dsp, doubt, cvs>>
      /\ \/ pc' = pc
         \/ \E t \in Threads : \E l : pc[t] \in {"idle", "free"} /\ pc' = [pc EXCEPT ![t] = l]
  <2>1. CASE unbind \/ unbound \/ q6voice_create \/ q6voice_free_destroys
    BY <1>1, <2>1 DEF unbind, unbound, q6voice_create, q6voice_free_destroys, Goto, At, Idle, Quiet,
       pathState, wire
  <2>2. CASE \E d \in Dirs : open_pcm(d) \/ dai_prepare(d) \/ dai_shutdown(d)
    BY <2>2 DEF open_pcm, dai_prepare, dai_shutdown, Goto, At, Idle, pathState, wire
  <2> QED BY <2>1, <2>2
<1>3. \A p \in Paths : lock[p] # "free" => pc'[lock[p]] = pc[lock[p]]
  BY <1>2 DEF VoiceInv, Control, Types, Owned, Outside
<1> QED BY <1>2, <1>3, HeldOutside

-----------------------------------------------------------------------------
(* Which command is sent where.                                            *)

Asks(t, l, o) == At(t, l) /\ \E ok \in BOOLEAN : send(at[t], o, ok)

StartAsks(t) ==
  \/ Asks(t, "mvm", "CREATE_MVM")        \/ Asks(t, "dual", "DUAL_CONTROL")
  \/ Asks(t, "undual", "DESTROY_MVM")    \/ Asks(t, "create_cvs", "CREATE_CVS")
  \/ Asks(t, "attach_stream", "ATTACH_STREAM")
  \/ Asks(t, "cvp", "CREATE_CVP")        \/ Asks(t, "enable", "ENABLE")
  \/ Asks(t, "attach", "ATTACH")         \/ Asks(t, "start_voice", "START_VOICE")
  \/ Asks(t, "unmute", "MUTE_V2")        \/ Asks(t, "unmute_rx", "MUTE_V2")
  \/ Asks(t, "play", "PLAYBACK_START")
  \/ Asks(t, "start_err", "STOP_VOICE")  \/ Asks(t, "attach_err", "DETACH")
  \/ Asks(t, "cvp_err", "DISABLE")
StopAsks(t) ==
  \/ Asks(t, "stop_play", "PLAYBACK_STOP")
  \/ Asks(t, "stop_voice", "STOP_VOICE") \/ Asks(t, "detach", "DETACH")
  \/ Asks(t, "disable", "DISABLE")       \/ Asks(t, "detach_stream", "DETACH_STREAM")
  \/ Asks(t, "destroy", "DESTROY_MVM")   \/ Asks(t, "destroy", "DESTROY_CVP")
  \/ Asks(t, "destroy", "DESTROY_CVS")

\* No other step reaches the DSP.
LEMMA Commanded ==
  ASSUME [Next]_vars
  PROVE  UNCHANGED wire \/ \E t \in Threads : StartAsks(t) \/ StopAsks(t)
<1> USE ThreadFacts
<1> USE DEF Skip, Do, Try, Step
<1>1. ASSUME NEW d \in Dirs, PathStart(d)
      PROVE  UNCHANGED wire \/ StartAsks(d)
  <2>1. CASE path_start_mvm(d)
    BY <2>1 DEF path_start_mvm, StartAsks, Asks
  <2>2. CASE path_start_dual_control(d)
    BY <2>2 DEF path_start_dual_control, StartAsks, Asks
  <2>3. CASE path_start_no_dual_control(d)
    BY <2>3 DEF path_start_no_dual_control, StartAsks, Asks
  <2>4. CASE path_start_stream(d)
    BY <2>4 DEF path_start_stream
  <2>5. CASE path_start_create_cvs(d)
    BY <2>5 DEF path_start_create_cvs, StartAsks, Asks
  <2>6. CASE path_start_attach_stream(d)
    BY <2>6 DEF path_start_attach_stream, StartAsks, Asks
  <2>7. CASE path_start_cvp(d)
    BY <2>7 DEF path_start_cvp, StartAsks, Asks
  <2>8. CASE path_start_enable(d)
    BY <2>8 DEF path_start_enable, StartAsks, Asks
  <2>9. CASE path_start_attach(d)
    BY <2>9 DEF path_start_attach, StartAsks, Asks
  <2>10. CASE path_start_start(d)
    BY <2>10 DEF path_start_start, StartAsks, Asks
  <2>11. CASE path_start_unmute(d)
    BY <2>11 DEF path_start_unmute, StartAsks, Asks
  <2>12. CASE path_start_unmute_rx(d)
    BY <2>12 DEF path_start_unmute_rx, StartAsks, Asks
  <2>13. CASE path_start_playback(d)
    BY <2>13 DEF path_start_playback, Oops, StartAsks, Asks
  <2>14. CASE path_start_start_err(d)
    BY <2>14 DEF path_start_start_err, StartAsks, Asks
  <2>15. CASE path_start_attach_err(d)
    BY <2>15 DEF path_start_attach_err, StartAsks, Asks
  <2>16. CASE path_start_cvp_err(d)
    BY <2>16 DEF path_start_cvp_err, StartAsks, Asks
  <2> QED BY <1>1, <2>1, <2>2, <2>3, <2>4, <2>5, <2>6, <2>7, <2>8, <2>9, <2>10, <2>11, <2>12, <2>13, <2>14,
             <2>15, <2>16 DEF PathStart
<1>2. ASSUME NEW t \in Threads, PathStop(t)
      PROVE  UNCHANGED wire \/ StopAsks(t)
  <2>1. CASE path_stop_playback(t)
    BY <2>1 DEF path_stop_playback, StopAsks, Asks
  <2>2. CASE path_stop_start(t)
    BY <2>2 DEF path_stop_start, Oops, StopAsks, Asks
  <2>3. CASE path_stop_attach(t)
    BY <2>3 DEF path_stop_attach, Oops, StopAsks, Asks
  <2>4. CASE path_stop_enable(t)
    BY <2>4 DEF path_stop_enable, StopAsks, Asks
  <2>5. CASE path_stop_attach_stream(t)
    BY <2>5 DEF path_stop_attach_stream, StopAsks, Asks
  <2>6. CASE path_destroy_mvm(t)
    BY <2>6 DEF path_destroy_mvm, Release, StopAsks, Asks
  <2>7. CASE path_destroy_cvp(t)
    BY <2>7 DEF path_destroy_cvp, Release, StopAsks, Asks
  <2>8. CASE path_destroy_cvs(t)
    BY <2>8 DEF path_destroy_cvs, Release, StopAsks, Asks
  <2>9. CASE path_destroy_runtime(t)
    BY <2>9 DEF path_destroy_runtime
  <2> QED BY <1>2, <2>1, <2>2, <2>3, <2>4, <2>5, <2>6, <2>7, <2>8, <2>9 DEF PathStop
<1>3. ASSUME NEW d \in Dirs,
             \/ open_pcm(d) \/ dai_prepare(d) \/ dai_shutdown(d) \/ Enters(d)
             \/ q6voice_start_returns(d) \/ q6voice_stop_returns(d)
      PROVE  UNCHANGED wire
  BY <1>3 DEF open_pcm, dai_prepare, dai_shutdown, Enters, q6voice_start, q6voice_stop,
     q6voice_start_returns, q6voice_stop_returns
<1>4. CASE \/ write_param \/ unbind \/ unbound \/ q6voice_create \/ q6voice_free_destroys
           \/ UNCHANGED vars \/ \E p \in Paths : q6voice_free(p)
  BY <1>4 DEF write_param, unbind, unbound, q6voice_create, q6voice_free_destroys, q6voice_free, vars
<1>5. CASE \E d \in Dirs : \/ open_pcm(d) \/ dai_prepare(d) \/ dai_shutdown(d)
                          \/ Enters(d) \/ Running(d)
  BY <1>1, <1>2, <1>3, <1>5 DEF Running
<1>6. CASE Removing
  BY <1>2, <1>4, <1>6 DEF Removing
<1> QED BY <1>4, <1>5, <1>6 DEF Next

\* A command adds and takes nothing but what its Cmd says, on one path.
LEMMA Changes ==
  ASSUME DspTypes, NEW t \in Threads, NEW l, NEW o, at[t] \in Paths, Asks(t, l, o),
         NEW a, NEW r, Does(o, a, r)
  PROVE  /\ \A f, q : q \in Paths /\ Gains(q, f) => q = at[t] /\ f \in a
         /\ \A f, q : q \in Paths /\ Loses(q, f) => q = at[t] /\ f \in r \ a
<1> DEFINE after == (dsp[at[t]] \ r) \union a
<1>1. dsp' = dsp \/ dsp' = [dsp EXCEPT ![at[t]] = after]
  BY DEF Asks, send, Does
<1> QED BY <1>1 DEF Does, DspTypes, Gains, Loses

\* Every command is sent in its place: the order of the DSP's state.
LEMMA OrderStep == ASSUME VoiceInv, HeldInv, [Next]_vars PROVE Order
<1> USE DEF Facts
<1>1. CASE UNCHANGED wire
  BY <1>1 DEF wire, Order, Gains, Loses
<1>2. ASSUME NEW t \in Threads, StartAsks(t) \/ StopAsks(t)
      PROVE  Order
  <2> DEFINE p == at[t]
  <2>1. PICK l \in Labels \ Outside : At(t, l)
    BY <1>2 DEF StartAsks, StopAsks, Asks, Labels, Outside
  <2>2. p \in Paths /\ Kept(p) /\ Knows(p, l) /\ DspTypes /\ Covered(p) /\ Holds(p, l, t)
    BY <2>1, Here, HeldHere
  <2>3. CASE Asks(t, "attach_stream", "ATTACH_STREAM")
    <3>1. "dual" \in Maybe(p)
      BY <2>1, <2>2, <2>3 DEF Asks, At, Knows, Kept, Perhaps, Maybe
    <3> QED BY <2>2, <2>3, <3>1, Changes, Deeds DEF Order
  <2>4. CASE Asks(t, "attach", "ATTACH")
    <3>1. "dual" \in Maybe(p)
      BY <2>1, <2>2, <2>4 DEF Asks, At, Knows, Kept, Perhaps, Maybe
    <3> QED BY <2>2, <2>4, <3>1, Changes, Deeds DEF Order
  <2>5. CASE Asks(t, "start_voice", "START_VOICE")
    <3>1. {"enabled", "vocproc"} \subseteq Maybe(p)
      BY <2>1, <2>2, <2>5 DEF Asks, At, Knows, Perhaps, Maybe
    <3> QED BY <2>2, <2>5, <3>1, Changes, Deeds DEF Order
  <2>6. CASE Asks(t, "start_err", "STOP_VOICE") \/ Asks(t, "stop_voice", "STOP_VOICE")
    <3>1. "playback" \notin Sure(p)
      BY <2>1, <2>2, <2>6 DEF Asks, At, Holds, Clean, Sure
    <3> QED BY <2>2, <2>6, <3>1, Changes, Deeds DEF Order
  <2>7. CASE Asks(t, "attach_err", "DETACH") \/ Asks(t, "detach", "DETACH")
    <3>1. "running" \notin Sure(p)
      BY <2>1, <2>2, <2>7 DEF Asks, At, Knows, Clean, Sure
    <3> QED BY <2>2, <2>7, <3>1, Changes, Deeds DEF Order
  <2>8. CASE Asks(t, "cvp_err", "DISABLE") \/ Asks(t, "disable", "DISABLE")
    <3>1. "vocproc" \notin Sure(p)
      BY <2>1, <2>2, <2>8 DEF Asks, At, Knows, Clean, Sure
    <3> QED BY <2>2, <2>8, <3>1, Changes, Deeds DEF Order
  <2>9. CASE \/ Asks(t, "mvm", "CREATE_MVM") \/ Asks(t, "dual", "DUAL_CONTROL")
             \/ Asks(t, "undual", "DESTROY_MVM") \/ Asks(t, "create_cvs", "CREATE_CVS")
             \/ Asks(t, "cvp", "CREATE_CVP") \/ Asks(t, "enable", "ENABLE")
    BY <2>2, <2>9, Changes, Deeds DEF Order
  <2>10. CASE \/ Asks(t, "unmute", "MUTE_V2") \/ Asks(t, "unmute_rx", "MUTE_V2")
              \/ Asks(t, "play", "PLAYBACK_START") \/ Asks(t, "stop_play", "PLAYBACK_STOP")
              \/ Asks(t, "detach_stream", "DETACH_STREAM")
    BY <2>2, <2>10, Changes, Deeds DEF Order
  <2>11. CASE \/ Asks(t, "destroy", "DESTROY_MVM") \/ Asks(t, "destroy", "DESTROY_CVP")
              \/ Asks(t, "destroy", "DESTROY_CVS")
    BY <2>2, <2>11, Changes, Deeds DEF Order
  <2> QED BY <1>2, <2>3, <2>4, <2>5, <2>6, <2>7, <2>8, <2>9, <2>10, <2>11 DEF StartAsks, StopAsks
<1> QED BY <1>1, <1>2, Commanded

\* The variables the other invariants do not speak of.
OwedTypes == bound \in BOOLEAN /\ owed \in [Paths -> SUBSET Opcodes] /\ faults \in 0 .. MaxFaults

\* Only the commands of this driver are ever owed an answer.
LEMMA OwedStep == ASSUME VoiceInv, OwedTypes, [Next]_vars PROVE OwedTypes'
<1> USE ThreadFacts
<1>1. MaxFaults \in Nat
  BY ConstAssumption
<1>2. bound' \in BOOLEAN
  <2>1. bound' = bound \/ bound' = TRUE \/ bound' = FALSE
    <3>1. ASSUME NEW d \in Dirs, PathStart(d) PROVE bound' = bound
      BY <3>1 DEF PathStart, path_start_mvm, path_start_dual_control, path_start_no_dual_control,
         path_start_stream, path_start_create_cvs, path_start_attach_stream, path_start_cvp,
         path_start_enable, path_start_attach, path_start_start, path_start_unmute,
         path_start_unmute_rx, path_start_playback, path_start_start_err, path_start_attach_err,
         path_start_cvp_err, Do, Try, Step, Skip, Oops
    <3>2. ASSUME NEW t \in Threads, PathStop(t) PROVE bound' = bound
      BY <3>2 DEF PathStop, path_stop_playback, path_stop_start, path_stop_attach, path_stop_enable,
         path_stop_attach_stream, path_destroy_mvm, path_destroy_cvp, path_destroy_cvs,
         path_destroy_runtime, Release, Do, Try, Step, Skip, Oops
    <3>3. ASSUME NEW d \in Dirs,
                 \/ open_pcm(d) \/ dai_prepare(d) \/ dai_shutdown(d) \/ Enters(d)
                 \/ q6voice_start_returns(d) \/ q6voice_stop_returns(d)
          PROVE  bound' = bound
      BY <3>3 DEF open_pcm, dai_prepare, dai_shutdown, Enters, q6voice_start, q6voice_stop,
         q6voice_start_returns, q6voice_stop_returns
    <3>4. CASE \/ write_param \/ unbind \/ unbound \/ q6voice_create \/ q6voice_free_destroys
               \/ UNCHANGED vars \/ \E p \in Paths : q6voice_free(p)
      BY <3>4 DEF write_param, unbind, unbound, q6voice_create, q6voice_free_destroys, q6voice_free, vars, Skip
    <3> QED BY <3>1, <3>2, <3>3, <3>4 DEF Next, Running, Removing
  <2> QED BY <2>1 DEF OwedTypes
<1>3. CASE UNCHANGED wire
  BY <1>2, <1>3 DEF OwedTypes, wire
<1>4. ASSUME NEW t \in Threads, StartAsks(t) \/ StopAsks(t)
      PROVE  OwedTypes'
  <2>1. PICK o \in Opcodes, ok \in BOOLEAN : send(at[t], o, ok)
    BY <1>4 DEF StartAsks, StopAsks, Asks, Opcodes, q6mvm, q6cvp, q6cvs
  <2>2. at[t] \in Paths /\ owed[at[t]] \subseteq Opcodes
    BY DEF VoiceInv, Control, Types, OwedTypes
  <2> DEFINE S == SettledBy(Command(o).svc, at[t])
  <2>3. S \subseteq Opcodes
    BY <2>2 DEF SettledBy
  <2>4. /\ owed' = owed \/ owed' = [owed EXCEPT ![at[t]] = S]
           \/ owed' = [owed EXCEPT ![at[t]] = @ \union {o}]
        /\ faults' = faults \/ (faults < MaxFaults /\ faults' = faults + 1)
    BY <2>1 DEF send
  <2> HIDE DEF S
  <2>5. owed' \in [Paths -> SUBSET Opcodes]
    BY <2>1, <2>2, <2>3, <2>4 DEF OwedTypes
  <2>6. faults' \in 0 .. MaxFaults
    BY <1>1, <2>4 DEF OwedTypes
  <2> QED BY <1>2, <2>5, <2>6 DEF OwedTypes
<1> QED BY <1>3, <1>4, Commanded

-----------------------------------------------------------------------------
(* Together.                                                               *)

PathsInv == VoiceInv /\ HeldInv /\ OwedTypes

\* Every step, from the first state on.
LEMMA PathsStep == ASSUME Steady, PathsInv, [Next]_vars PROVE PathsInv'
<1> USE ThreadFacts DEF PathsInv
<1>1. VoiceInv' /\ OwedTypes'
  BY VoiceStep, OwedStep DEF Steady, Cold
<1>2. CASE write_param
  BY <1>1, <1>2, HeldWriteParam
<1>3. CASE \/ \E d \in Dirs : open_pcm(d) \/ dai_prepare(d) \/ dai_shutdown(d)
           \/ unbind \/ unbound \/ q6voice_create \/ q6voice_free_destroys
  BY <1>1, <1>3, HeldUserspace
<1>4. ASSUME NEW d \in Dirs, Enters(d)
      PROVE  HeldInv'
  BY <1>4, HeldStarts, HeldStops DEF Enters
<1>5. ASSUME NEW d \in Dirs, Running(d)
      PROVE  HeldInv'
  BY <1>5, HeldStart, HeldStartReturns, HeldStop, HeldDestroys, HeldStopReturns DEF Running
<1>6. CASE PathStop("remove") \/ \E p \in Paths : q6voice_free(p)
  <2>1. CASE PathStop("remove")
    BY <1>1, <2>1, HeldStop, HeldDestroys
  <2>2. CASE \E p \in Paths : q6voice_free(p)
    BY <1>1, <2>2, HeldFrees
  <2> QED BY <1>6, <2>1, <2>2
<1>7. CASE UNCHANGED vars
  <2>1. UNCHANGED <<params, pc, lock, runtime, started, sess, dsp, doubt, cvs>>
    BY <1>7 DEF vars, pathState, wire
  <2>2. \A p \in Paths : lock[p] # "free" => pc'[lock[p]] = pc[lock[p]]
    BY <2>1
  <2> QED BY <1>1, <2>1, <2>2, HeldOutside
<1> QED BY <1>1, <1>2, <1>3, <1>4, <1>5, <1>6, <1>7 DEF Next, Removing

\* At the start nothing is set up.
LEMMA PathsInit == Init => PathsInv
<1> SUFFICES ASSUME Init PROVE PathsInv
  OBVIOUS
<1>1. VoiceInv
  BY VoiceInit
<1>2. HeldInv
  BY DEF Init, HeldInv, CvsType, Covered, Left, Clean
<1>3. OwedTypes
  BY ConstAssumption DEF Init, OwedTypes
<1> QED BY <1>1, <1>2, <1>3 DEF PathsInv

\* In-call playback never outlives the path (PlaybackStopped): path_stop()
\* finds the port and the stream that path_start() used, for any number of
\* paths and faults, if the parameters in Steady are written between calls.
THEOREM PlaybackStoppedAlways ==
  ASSUME Steady
  PROVE  Spec => []PlaybackStopped
<1>1. PathsInv => PlaybackStopped
  <2> SUFFICES ASSUME PathsInv, NEW p \in Paths, p \notin runtime
               PROVE  "playback" \notin Sure(p)
    BY DEF PlaybackStopped
  <2>1. lock[p] = "free" /\ Left(p) /\ sess[p] = {}
    BY DEF PathsInv, HeldInv, Holds, Left
  <2>2. Covered(p)
    BY DEF PathsInv, HeldInv
  <2> QED BY <2>1, <2>2 DEF Covered, Clean, Sure
<1>2. PathsInv /\ [Next]_vars => PathsInv'
  BY PathsStep
<1> QED BY <1>1, <1>2, PathsInit, PTL DEF Spec

\* Setting up and taking down keep the order the DSP needs (InOrder), on the
\* error path as well, under the same condition.
THEOREM InOrderAlways ==
  ASSUME Steady
  PROVE  Spec => InOrder
<1>1. PathsInv /\ [Next]_vars => PathsInv' /\ [Order]_vars
  BY PathsStep, OrderStep DEF PathsInv
<1> QED BY <1>1, PathsInit, PTL DEF Spec, InOrder

\* path_start() and path_stop() follow no pointer that is null or was never
\* set (NoOops), if in-call playback is only asked for with a stream of our
\* own and neither is written while a voice PCM is open: a port without a
\* stream makes path_start() read cvs uninitialised.
THEOREM NoOopsAlways ==
  ASSUME Steady, Paired
  PROVE  Spec => []NoOops
<1>1. PathsInv => NoOops
  <2> SUFFICES ASSUME PathsInv, NEW t \in Threads, pc[t] = "oops"
               PROVE  FALSE
    BY DEF NoOops, At
  <2>1. Holds(at[t], "oops", t)
    BY HeldHere DEF PathsInv, Labels, Outside, At
  <2> QED BY <2>1 DEF Holds
<1>2. PathsInv /\ [Next]_vars => PathsInv'
  BY PathsStep
<1> QED BY <1>1, <1>2, PathsInit, PTL DEF Spec

\* A path without a runtime has nothing left on the DSP, and once both
\* directions are closed no path has a runtime (NothingHeld), whichever
\* command fails, if both directions are waited for and the stream is not
\* ours: the defaults of require_both and attach_stream.
THEOREM NothingHeldAlways ==
  ASSUME Steady, BothRequired, NoStream
  PROVE  Spec => []NothingHeld
<1>1. PathsInv => TypeOK
  BY DEF PathsInv, VoiceInv, Control, Types, SessTypes, DspTypes, HeldInv, CvsType, OwedTypes, TypeOK
<1>2. PathsInv => NothingLeft
  <2> SUFFICES ASSUME PathsInv, NEW p \in Paths, p \notin runtime
               PROVE  sess[p] = {} /\ \A f \in Facts : Clean(p, f)
    BY DEF NothingLeft, PathsInv, VoiceInv, DspTypes, Clean
  <2>1. lock[p] = "free" /\ Left(p) /\ sess[p] = {} /\ Covered(p)
    BY DEF PathsInv, HeldInv, Holds, Left
  <2>2. started[p] = {} /\ Resting(p)
    BY <2>1 DEF PathsInv, VoiceInv, Control, Opened, PathInv
  <2>3. Silent(p)
    BY <2>2 DEF Resting, wants_voice, Dirs
  <2> QED BY <2>1, <2>3 DEF Left, Covered, Silent, Live, Facts
<1>3. PathsInv => ClosedHoldsNothing
  <2> SUFFICES ASSUME PathsInv, \A d \in Dirs : pc[d] = "idle", pcm = {}, NEW p \in runtime
               PROVE  FALSE
    BY DEF ClosedHoldsNothing, Idle, At
  <2>1. p \in Paths /\ lock[p] \in Threads \union {"free"}
    BY DEF PathsInv, VoiceInv, Control, Types
  <2>2. lock[p] \notin Dirs
    BY <2>1, ThreadFacts DEF PathsInv, VoiceInv, Control, Owned, Outside
  <2>3. lock[p] # "remove"
    BY <2>1, ThreadFacts DEF PathsInv, HeldInv, Holds
  <2>4. lock[p] = "free"
    BY <2>1, <2>2, <2>3, ThreadFacts
  <2>5. started[p] # {} /\ started[p] \subseteq Dirs
    BY <2>1, <2>4 DEF PathsInv, HeldInv, Left, VoiceInv, Control, Types
  <2> QED BY <2>1, <2>5 DEF PathsInv, VoiceInv, Control, Opened, Leaving
<1>4. PathsInv /\ [Next]_vars => PathsInv'
  BY PathsStep
<1>5. PathsInv => NothingHeld
  BY <1>1, <1>2, <1>3 DEF NothingHeld
<1> QED BY <1>4, <1>5, PathsInit, PTL DEF Spec

=============================================================================
