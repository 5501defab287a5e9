---------------------------- MODULE DriversProofs ----------------------------
(***************************************************************************)
(* Proofs about the parts that share nothing with each other, each for its *)
(* own specification and any value of its constants: the front camera, the *)
(* sound card, the L2 cache, the clock dividers, the plug-in that repairs  *)
(* the FM capture, and the display panel.                                  *)
(***************************************************************************)
EXTENDS Imx132, SndCard, KraitL2, PmicClkDiv, FmRepair, PanelSirius, SequenceTheorems,
        WellFoundedInduction, TLAPS

-----------------------------------------------------------------------------
(* Scripts: concatenations of tuples, written out.                         *)

\* What a concatenation is, from its elements.
LEMMA Joined ==
  ASSUME NEW S, NEW s \in Seq(S), NEW t \in Seq(S), NEW u \in Seq(S),
         Len(u) = Len(s) + Len(t),
         \A k \in 1 .. Len(s) : u[k] = s[k], \A k \in 1 .. Len(t) : u[Len(s) + k] = t[k]
  PROVE  s \o t = u
<1>0. Len(s) \in Nat /\ Len(t) \in Nat
  BY LenProperties
<1>1. s \o t \in Seq(S) /\ Len(s \o t) = Len(s) + Len(t)
      /\ \A i \in 1 .. Len(s) + Len(t) : (s \o t)[i] = IF i <= Len(s) THEN s[i] ELSE t[i - Len(s)]
  BY ConcatProperties
<1>2. ASSUME NEW i \in 1 .. Len(s) + Len(t) PROVE (s \o t)[i] = u[i]
  <2>1. CASE i <= Len(s)
    BY <1>0, <1>1, <2>1
  <2>2. CASE ~(i <= Len(s))
    <3>1. i - Len(s) \in 1 .. Len(t) /\ Len(s) + (i - Len(s)) = i
      BY <1>0, <2>2
    <3>2. u[Len(s) + (i - Len(s))] = t[i - Len(s)]
      BY <3>1
    <3> QED
      BY <1>1, <2>2, <3>1, <3>2
  <2> QED
    BY <2>1, <2>2
<1> QED
  BY <1>1, <1>2, SeqEqual

\* Concatenations of short tuples.
LEMMA Join2 ==
  \A a, b :
    <<a>> \o <<b>> = <<a, b>>
<1> TAKE a, b
<1> DEFINE S == {a, b}
<1>1. a \in S /\ b \in S
  OBVIOUS
<1> HIDE DEF S
<1>2. <<a>> \o <<b>> = <<a, b>>
  <2> DEFINE s == <<a>>  t == <<b>>  u == <<a, b>>
  <2>1. s \in Seq(S) /\ t \in Seq(S) /\ u \in Seq(S) /\ Len(s) = 1 /\ Len(t) = 1 /\ Len(u) = 2
    BY <1>1
  <2>2. (\A j \in 1 .. 1 : u[j] = s[j]) /\ (\A j \in 1 .. 1 : u[1 + j] = t[j])
    OBVIOUS
  <2> HIDE DEF s, t, u
  <2>3. /\ Len(u) = Len(s) + Len(t)
        /\ \A j \in 1 .. Len(s) : u[j] = s[j]
        /\ \A j \in 1 .. Len(t) : u[Len(s) + j] = t[j]
    BY <2>1, <2>2
  <2>4. s \o t = u
    BY <2>1, <2>3, Joined
  <2> QED
    BY <2>4 DEF s, t, u
<1> QED
  BY <1>2

\* Of 3 elements.
LEMMA Join3 ==
  \A a, b, c :
    /\ <<a>> \o <<b, c>> = <<a, b, c>>
    /\ <<a, b>> \o <<c>> = <<a, b, c>>
<1> TAKE a, b, c
<1> DEFINE S == {a, b, c}
<1>1. a \in S /\ b \in S /\ c \in S
  OBVIOUS
<1> HIDE DEF S
<1>2. <<a>> \o <<b, c>> = <<a, b, c>>
  <2> DEFINE s == <<a>>  t == <<b, c>>  u == <<a, b, c>>
  <2>1. s \in Seq(S) /\ t \in Seq(S) /\ u \in Seq(S) /\ Len(s) = 1 /\ Len(t) = 2 /\ Len(u) = 3
    BY <1>1
  <2>2. (\A j \in 1 .. 1 : u[j] = s[j]) /\ (\A j \in 1 .. 2 : u[1 + j] = t[j])
    OBVIOUS
  <2> HIDE DEF s, t, u
  <2>3. /\ Len(u) = Len(s) + Len(t)
        /\ \A j \in 1 .. Len(s) : u[j] = s[j]
        /\ \A j \in 1 .. Len(t) : u[Len(s) + j] = t[j]
    BY <2>1, <2>2
  <2>4. s \o t = u
    BY <2>1, <2>3, Joined
  <2> QED
    BY <2>4 DEF s, t, u
<1>3. <<a, b>> \o <<c>> = <<a, b, c>>
  <2> DEFINE s == <<a, b>>  t == <<c>>  u == <<a, b, c>>
  <2>1. s \in Seq(S) /\ t \in Seq(S) /\ u \in Seq(S) /\ Len(s) = 2 /\ Len(t) = 1 /\ Len(u) = 3
    BY <1>1
  <2>2. (\A j \in 1 .. 2 : u[j] = s[j]) /\ (\A j \in 1 .. 1 : u[2 + j] = t[j])
    OBVIOUS
  <2> HIDE DEF s, t, u
  <2>3. /\ Len(u) = Len(s) + Len(t)
        /\ \A j \in 1 .. Len(s) : u[j] = s[j]
        /\ \A j \in 1 .. Len(t) : u[Len(s) + j] = t[j]
    BY <2>1, <2>2
  <2>4. s \o t = u
    BY <2>1, <2>3, Joined
  <2> QED
    BY <2>4 DEF s, t, u
<1> QED
  BY <1>2, <1>3

\* Of 4 elements.
LEMMA Join4 ==
  \A a, b, c, d :
    /\ <<a, b>> \o <<c, d>> = <<a, b, c, d>>
    /\ <<a, b, c>> \o <<d>> = <<a, b, c, d>>
<1> TAKE a, b, c, d
<1> DEFINE S == {a, b, c, d}
<1>1. a \in S /\ b \in S /\ c \in S /\ d \in S
  OBVIOUS
<1> HIDE DEF S
<1>2. <<a, b>> \o <<c, d>> = <<a, b, c, d>>
  <2> DEFINE s == <<a, b>>  t == <<c, d>>  u == <<a, b, c, d>>
  <2>1. s \in Seq(S) /\ t \in Seq(S) /\ u \in Seq(S) /\ Len(s) = 2 /\ Len(t) = 2 /\ Len(u) = 4
    BY <1>1
  <2>2. (\A j \in 1 .. 2 : u[j] = s[j]) /\ (\A j \in 1 .. 2 : u[2 + j] = t[j])
    OBVIOUS
  <2> HIDE DEF s, t, u
  <2>3. /\ Len(u) = Len(s) + Len(t)
        /\ \A j \in 1 .. Len(s) : u[j] = s[j]
        /\ \A j \in 1 .. Len(t) : u[Len(s) + j] = t[j]
    BY <2>1, <2>2
  <2>4. s \o t = u
    BY <2>1, <2>3, Joined
  <2> QED
    BY <2>4 DEF s, t, u
<1>3. <<a, b, c>> \o <<d>> = <<a, b, c, d>>
  <2> DEFINE s == <<a, b, c>>  t == <<d>>  u == <<a, b, c, d>>
  <2>1. s \in Seq(S) /\ t \in Seq(S) /\ u \in Seq(S) /\ Len(s) = 3 /\ Len(t) = 1 /\ Len(u) = 4
    BY <1>1
  <2>2. (\A j \in 1 .. 3 : u[j] = s[j]) /\ (\A j \in 1 .. 1 : u[3 + j] = t[j])
    OBVIOUS
  <2> HIDE DEF s, t, u
  <2>3. /\ Len(u) = Len(s) + Len(t)
        /\ \A j \in 1 .. Len(s) : u[j] = s[j]
        /\ \A j \in 1 .. Len(t) : u[Len(s) + j] = t[j]
    BY <2>1, <2>2
  <2>4. s \o t = u
    BY <2>1, <2>3, Joined
  <2> QED
    BY <2>4 DEF s, t, u
<1> QED
  BY <1>2, <1>3

\* Of 5 elements.
LEMMA Join5 ==
  \A a, b, c, d, e :
    /\ <<a, b, c>> \o <<d, e>> = <<a, b, c, d, e>>
    /\ <<a, b, c, d>> \o <<e>> = <<a, b, c, d, e>>
<1> TAKE a, b, c, d, e
<1> DEFINE S == {a, b, c, d, e}
<1>1. a \in S /\ b \in S /\ c \in S /\ d \in S /\ e \in S
  OBVIOUS
<1> HIDE DEF S
<1>2. <<a, b, c>> \o <<d, e>> = <<a, b, c, d, e>>
  <2> DEFINE s == <<a, b, c>>  t == <<d, e>>  u == <<a, b, c, d, e>>
  <2>1. s \in Seq(S) /\ t \in Seq(S) /\ u \in Seq(S) /\ Len(s) = 3 /\ Len(t) = 2 /\ Len(u) = 5
    BY <1>1
  <2>2. (\A j \in 1 .. 3 : u[j] = s[j]) /\ (\A j \in 1 .. 2 : u[3 + j] = t[j])
    OBVIOUS
  <2> HIDE DEF s, t, u
  <2>3. /\ Len(u) = Len(s) + Len(t)
        /\ \A j \in 1 .. Len(s) : u[j] = s[j]
        /\ \A j \in 1 .. Len(t) : u[Len(s) + j] = t[j]
    BY <2>1, <2>2
  <2>4. s \o t = u
    BY <2>1, <2>3, Joined
  <2> QED
    BY <2>4 DEF s, t, u
<1>3. <<a, b, c, d>> \o <<e>> = <<a, b, c, d, e>>
  <2> DEFINE s == <<a, b, c, d>>  t == <<e>>  u == <<a, b, c, d, e>>
  <2>1. s \in Seq(S) /\ t \in Seq(S) /\ u \in Seq(S) /\ Len(s) = 4 /\ Len(t) = 1 /\ Len(u) = 5
    BY <1>1
  <2>2. (\A j \in 1 .. 4 : u[j] = s[j]) /\ (\A j \in 1 .. 1 : u[4 + j] = t[j])
    OBVIOUS
  <2> HIDE DEF s, t, u
  <2>3. /\ Len(u) = Len(s) + Len(t)
        /\ \A j \in 1 .. Len(s) : u[j] = s[j]
        /\ \A j \in 1 .. Len(t) : u[Len(s) + j] = t[j]
    BY <2>1, <2>2
  <2>4. s \o t = u
    BY <2>1, <2>3, Joined
  <2> QED
    BY <2>4 DEF s, t, u
<1> QED
  BY <1>2, <1>3

\* Of 6 elements.
LEMMA Join6 ==
  \A a, b, c, d, e, f :
    /\ <<a, b, c>> \o <<d, e, f>> = <<a, b, c, d, e, f>>
    /\ <<a, b, c, d, e>> \o <<f>> = <<a, b, c, d, e, f>>
<1> TAKE a, b, c, d, e, f
<1> DEFINE S == {a, b, c, d, e, f}
<1>1. a \in S /\ b \in S /\ c \in S /\ d \in S /\ e \in S /\ f \in S
  OBVIOUS
<1> HIDE DEF S
<1>2. <<a, b, c>> \o <<d, e, f>> = <<a, b, c, d, e, f>>
  <2> DEFINE s == <<a, b, c>>  t == <<d, e, f>>  u == <<a, b, c, d, e, f>>
  <2>1. s \in Seq(S) /\ t \in Seq(S) /\ u \in Seq(S) /\ Len(s) = 3 /\ Len(t) = 3 /\ Len(u) = 6
    BY <1>1
  <2>2. (\A j \in 1 .. 3 : u[j] = s[j]) /\ (\A j \in 1 .. 3 : u[3 + j] = t[j])
    OBVIOUS
  <2> HIDE DEF s, t, u
  <2>3. /\ Len(u) = Len(s) + Len(t)
        /\ \A j \in 1 .. Len(s) : u[j] = s[j]
        /\ \A j \in 1 .. Len(t) : u[Len(s) + j] = t[j]
    BY <2>1, <2>2
  <2>4. s \o t = u
    BY <2>1, <2>3, Joined
  <2> QED
    BY <2>4 DEF s, t, u
<1>3. <<a, b, c, d, e>> \o <<f>> = <<a, b, c, d, e, f>>
  <2> DEFINE s == <<a, b, c, d, e>>  t == <<f>>  u == <<a, b, c, d, e, f>>
  <2>1. s \in Seq(S) /\ t \in Seq(S) /\ u \in Seq(S) /\ Len(s) = 5 /\ Len(t) = 1 /\ Len(u) = 6
    BY <1>1
  <2>2. (\A j \in 1 .. 5 : u[j] = s[j]) /\ (\A j \in 1 .. 1 : u[5 + j] = t[j])
    OBVIOUS
  <2> HIDE DEF s, t, u
  <2>3. /\ Len(u) = Len(s) + Len(t)
        /\ \A j \in 1 .. Len(s) : u[j] = s[j]
        /\ \A j \in 1 .. Len(t) : u[Len(s) + j] = t[j]
    BY <2>1, <2>2
  <2>4. s \o t = u
    BY <2>1, <2>3, Joined
  <2> QED
    BY <2>4 DEF s, t, u
<1> QED
  BY <1>2, <1>3

\* Of 7 elements.
LEMMA Join7 ==
  \A a, b, c, d, e, f, g :
    /\ <<a, b, c, d, e>> \o <<f, g>> = <<a, b, c, d, e, f, g>>
    /\ <<a, b, c, d, e, f>> \o <<g>> = <<a, b, c, d, e, f, g>>
<1> TAKE a, b, c, d, e, f, g
<1> DEFINE S == {a, b, c, d, e, f, g}
<1>1. a \in S /\ b \in S /\ c \in S /\ d \in S /\ e \in S /\ f \in S /\ g \in S
  OBVIOUS
<1> HIDE DEF S
<1>2. <<a, b, c, d, e>> \o <<f, g>> = <<a, b, c, d, e, f, g>>
  <2> DEFINE s == <<a, b, c, d, e>>  t == <<f, g>>  u == <<a, b, c, d, e, f, g>>
  <2>1. s \in Seq(S) /\ t \in Seq(S) /\ u \in Seq(S) /\ Len(s) = 5 /\ Len(t) = 2 /\ Len(u) = 7
    BY <1>1
  <2>2. (\A j \in 1 .. 5 : u[j] = s[j]) /\ (\A j \in 1 .. 2 : u[5 + j] = t[j])
    OBVIOUS
  <2> HIDE DEF s, t, u
  <2>3. /\ Len(u) = Len(s) + Len(t)
        /\ \A j \in 1 .. Len(s) : u[j] = s[j]
        /\ \A j \in 1 .. Len(t) : u[Len(s) + j] = t[j]
    BY <2>1, <2>2
  <2>4. s \o t = u
    BY <2>1, <2>3, Joined
  <2> QED
    BY <2>4 DEF s, t, u
<1>3. <<a, b, c, d, e, f>> \o <<g>> = <<a, b, c, d, e, f, g>>
  <2> DEFINE s == <<a, b, c, d, e, f>>  t == <<g>>  u == <<a, b, c, d, e, f, g>>
  <2>1. s \in Seq(S) /\ t \in Seq(S) /\ u \in Seq(S) /\ Len(s) = 6 /\ Len(t) = 1 /\ Len(u) = 7
    BY <1>1
  <2>2. (\A j \in 1 .. 6 : u[j] = s[j]) /\ (\A j \in 1 .. 1 : u[6 + j] = t[j])
    OBVIOUS
  <2> HIDE DEF s, t, u
  <2>3. /\ Len(u) = Len(s) + Len(t)
        /\ \A j \in 1 .. Len(s) : u[j] = s[j]
        /\ \A j \in 1 .. Len(t) : u[Len(s) + j] = t[j]
    BY <2>1, <2>2
  <2>4. s \o t = u
    BY <2>1, <2>3, Joined
  <2> QED
    BY <2>4 DEF s, t, u
<1> QED
  BY <1>2, <1>3

\* Of 8 elements.
LEMMA Join8 ==
  \A a, b, c, d, e, f, g, h :
    <<a, b, c, d, e, f>> \o <<g, h>> = <<a, b, c, d, e, f, g, h>>
<1> TAKE a, b, c, d, e, f, g, h
<1> DEFINE S == {a, b, c, d, e, f, g, h}
<1>1. a \in S /\ b \in S /\ c \in S /\ d \in S /\ e \in S /\ f \in S /\ g \in S /\ h \in S
  OBVIOUS
<1> HIDE DEF S
<1>2. <<a, b, c, d, e, f>> \o <<g, h>> = <<a, b, c, d, e, f, g, h>>
  <2> DEFINE s == <<a, b, c, d, e, f>>  t == <<g, h>>  u == <<a, b, c, d, e, f, g, h>>
  <2>1. s \in Seq(S) /\ t \in Seq(S) /\ u \in Seq(S) /\ Len(s) = 6 /\ Len(t) = 2 /\ Len(u) = 8
    BY <1>1
  <2>2. (\A j \in 1 .. 6 : u[j] = s[j]) /\ (\A j \in 1 .. 2 : u[6 + j] = t[j])
    OBVIOUS
  <2> HIDE DEF s, t, u
  <2>3. /\ Len(u) = Len(s) + Len(t)
        /\ \A j \in 1 .. Len(s) : u[j] = s[j]
        /\ \A j \in 1 .. Len(t) : u[Len(s) + j] = t[j]
    BY <2>1, <2>2
  <2>4. s \o t = u
    BY <2>1, <2>3, Joined
  <2> QED
    BY <2>4 DEF s, t, u
<1> QED
  BY <1>2

\* Of 9 elements.
LEMMA Join9 ==
  \A a, b, c, d, e, f, g, h, i :
    <<a, b, c, d, e, f, g>> \o <<h, i>> = <<a, b, c, d, e, f, g, h, i>>
<1> TAKE a, b, c, d, e, f, g, h, i
<1> DEFINE S == {a, b, c, d, e, f, g, h, i}
<1>1. a \in S /\ b \in S /\ c \in S /\ d \in S /\ e \in S /\ f \in S /\ g \in S /\ h \in S /\ i \in S
  OBVIOUS
<1> HIDE DEF S
<1>2. <<a, b, c, d, e, f, g>> \o <<h, i>> = <<a, b, c, d, e, f, g, h, i>>
  <2> DEFINE s == <<a, b, c, d, e, f, g>>  t == <<h, i>>  u == <<a, b, c, d, e, f, g, h, i>>
  <2>1. s \in Seq(S) /\ t \in Seq(S) /\ u \in Seq(S) /\ Len(s) = 7 /\ Len(t) = 2 /\ Len(u) = 9
    BY <1>1
  <2>2. (\A j \in 1 .. 7 : u[j] = s[j]) /\ (\A j \in 1 .. 2 : u[7 + j] = t[j])
    OBVIOUS
  <2> HIDE DEF s, t, u
  <2>3. /\ Len(u) = Len(s) + Len(t)
        /\ \A j \in 1 .. Len(s) : u[j] = s[j]
        /\ \A j \in 1 .. Len(t) : u[Len(s) + j] = t[j]
    BY <2>1, <2>2
  <2>4. s \o t = u
    BY <2>1, <2>3, Joined
  <2> QED
    BY <2>4 DEF s, t, u
<1> QED
  BY <1>2

-----------------------------------------------------------------------------
(* Power and references of the front camera, for any mode, blankings and   *)
(* exposures, and for any number of writes and supplies that fail.         *)

One(b) == IF b THEN 1 ELSE 0

RPM == [enabled : BOOLEAN, active : BOOLEAN, usage : Int]

Probing == {"power", "identify", "ctrls", "entity", "subdev", "async"}

\* From the stage that enables runtime PM on.
Managed == cam_probe \in {"async", "registered", "bound"}

\* What probe has set up when it comes to a stage.
HeldAt(held) ==
  /\ cam_probe \in {"unbound", "power"} => held = {}
  /\ cam_probe \in {"identify", "ctrls"} => held = {"power"}
  /\ cam_probe = "entity" => held = {"power", "ctrls"}
  /\ cam_probe = "subdev" => held = {"power", "ctrls", "entity"}
  /\ cam_probe = "async" => held = {"power", "ctrls", "entity", "subdev", "pm"}
  /\ cam_probe \in {"registered", "bound"} =>
       held = {"power", "ctrls", "entity", "subdev", "pm", "async"}

\* Every reference has its holder: a stream, a call, or probe from the moment
\* it enables runtime PM to its end; and while runtime PM is enabled the sensor
\* is off whenever it is suspended.
CamInv ==
  /\ cam_probe \in Probing \union {"unbound", "registered", "bound"}
  /\ cam_rpm \in RPM
  /\ cam_streaming \in BOOLEAN
  /\ cam_op = "none" => cam_todo = <<>>
  /\ cam_op \in {"configure", "start"} => ~cam_streaming
  /\ ~Registered => cam_op = "none" /\ ~cam_streaming
  /\ HeldAt(cam_held)
  /\ cam_rpm.enabled <=> Managed
  /\ cam_probe \in {"unbound", "power"} => cam_on = {}
  /\ Managed /\ ~cam_rpm.active => cam_on = {}
  /\ cam_rpm.usage = One(cam_streaming) + One(cam_op # "none")
                       + One(cam_probe \in {"async", "registered"})

\* What a change of a flag and the count leaves.
LEMMA Resumed ==
  ASSUME NEW r \in RPM, NEW n \in Int, NEW q, q = [r EXCEPT !.active = TRUE, !.usage = n]
  PROVE  q \in RPM /\ q.active /\ (q.enabled <=> r.enabled) /\ q.usage = n
BY DEF RPM

\* pm_runtime_disable() with the count put to n.
LEMMA Disabled ==
  ASSUME NEW r \in RPM, NEW n \in Int, NEW q, q = [r EXCEPT !.enabled = FALSE, !.usage = n]
  PROVE  q \in RPM /\ ~q.enabled /\ q.usage = n
BY DEF RPM

\* The stages in the order probe goes through them.
LEMMA StageOrder ==
  ASSUME NEW i \in 1 .. Len(Stages) - 1
  PROVE  \/ Stages[i] = "power" /\ Stages[i + 1] = "identify"
         \/ Stages[i] = "identify" /\ Stages[i + 1] = "ctrls"
         \/ Stages[i] = "ctrls" /\ Stages[i + 1] = "entity"
         \/ Stages[i] = "entity" /\ Stages[i + 1] = "subdev"
         \/ Stages[i] = "subdev" /\ Stages[i + 1] = "async"
         \/ Stages[i] = "async" /\ Stages[i + 1] = "registered"
<1>1. i \in {1, 2, 3, 4, 5, 6}
  BY DEF Stages
<1> QED BY <1>1 DEF Stages

\* The labels give back exactly what the stages before have set up.
LEMMA Unwinds ==
  /\ Unwound("power") = {}
  /\ Unwound("identify") = {"power"} /\ Unwound("ctrls") = {"power"}
  /\ Unwound("entity") = {"power", "ctrls"}
  /\ Unwound("subdev") = {"power", "ctrls", "entity"}
  /\ Unwound("async") = {"power", "ctrls", "entity", "subdev", "pm"}
BY Zenon DEF Unwound

\* A stage of probe that succeeds.
LEMMA CamProbeStep == ASSUME CamInv, cam_probe_step PROVE CamInv'
<1>1. \/ cam_probe = "power" /\ cam_probe' = "identify"
      \/ cam_probe = "identify" /\ cam_probe' = "ctrls"
      \/ cam_probe = "ctrls" /\ cam_probe' = "entity"
      \/ cam_probe = "entity" /\ cam_probe' = "subdev"
      \/ cam_probe = "subdev" /\ cam_probe' = "async"
      \/ cam_probe = "async" /\ cam_probe' = "registered"
  BY StageOrder DEF cam_probe_step
<1>2. HeldAt(cam_held)'
  BY <1>1 DEF CamInv, HeldAt, cam_probe_step
<1>3. cam_rpm' \in RPM
  BY DEF CamInv, RPM, cam_probe_step
<1>4. cam_rpm'.enabled <=> Managed'
  BY <1>1 DEF CamInv, Managed, cam_probe_step
<1>5. Managed' /\ ~cam_rpm'.active => cam_on' = {}
  BY <1>1 DEF CamInv, Managed, cam_probe_step
<1>6. cam_rpm'.usage = One(cam_streaming) + One(cam_op # "none")
                         + One(cam_probe' \in {"async", "registered"})
  BY <1>1 DEF CamInv, Registered, One, cam_probe_step
<1> QED BY <1>1, <1>2, <1>3, <1>4, <1>5, <1>6
        DEF CamInv, Managed, Registered, Probing, cam_probe_step, cam_call

\* A stage of probe that fails: all of it is unwound.
LEMMA CamProbeFails == ASSUME CamInv, cam_probe_fails PROVE CamInv'
<1>1. cam_probe \in Probing
  <2>1. PICK i \in 1 .. Len(Stages) - 1 : cam_probe = Stages[i]
    BY DEF cam_probe_fails
  <2> QED BY <2>1, StageOrder DEF Probing
<1>2. cam_held' = {}
  BY <1>1, Unwinds DEF CamInv, HeldAt, Probing, cam_probe_fails
<1>3. cam_on' = {}
  BY <1>1, Unwinds DEF CamInv, Probing, cam_probe_fails, imx132_power_off
<1>4. /\ cam_rpm' \in RPM
      /\ ~cam_rpm'.enabled /\ cam_rpm'.usage = 0
  <2>1. CASE cam_probe = "async"
    <3>1. cam_rpm' = [cam_rpm EXCEPT !.enabled = FALSE, !.usage = cam_rpm.usage - 1]
      BY <2>1, Unwinds DEF cam_probe_fails
    <3>2. cam_rpm.usage = 1
      BY <2>1 DEF CamInv, Registered, One
    <3>3. cam_rpm \in RPM /\ cam_rpm.usage - 1 \in Int /\ cam_rpm.usage - 1 = 0
      BY <3>2 DEF CamInv
    <3> DEFINE usage == cam_rpm.usage - 1
    <3>4. cam_rpm' \in RPM /\ ~cam_rpm'.enabled /\ cam_rpm'.usage = usage
      <4> usage \in Int /\ cam_rpm' = [cam_rpm EXCEPT !.enabled = FALSE, !.usage = usage]
        BY <3>1, <3>3
      <4> HIDE DEF usage
      <4> QED BY <3>3, Disabled
    <3> QED BY <3>3, <3>4
  <2>2. CASE cam_probe # "async"
    <3>1. cam_rpm' = cam_rpm
      BY <1>1, <2>2, Unwinds DEF Probing, cam_probe_fails
    <3>2. cam_rpm.usage = 0 /\ ~cam_rpm.enabled
      BY <1>1, <2>2 DEF CamInv, Managed, Registered, One, RPM, Probing
    <3> QED BY <3>1, <3>2 DEF CamInv
  <2> QED BY <2>1, <2>2
<1> QED BY <1>1, <1>2, <1>3, <1>4
        DEF CamInv, HeldAt, Managed, Registered, One, RPM, Probing, cam_probe_fails, cam_call

\* Probe begins, drops its own reference at its end, and is undone by remove.
LEMMA BindStep ==
  ASSUME CamInv, cam_probe_begins \/ cam_probe_ends \/ imx132_remove PROVE CamInv'
<1>1. CASE cam_probe_begins
  BY <1>1 DEF CamInv, HeldAt, Managed, Registered, One, RPM, Probing, cam_probe_begins, cam_call, Stages
<1>2. CASE cam_probe_ends
  BY <1>2 DEF CamInv, HeldAt, Managed, Registered, One, RPM, Probing, cam_probe_ends, cam_call
<1>3. CASE imx132_remove
  <2>1. cam_held' = {} /\ cam_on' = {}
    BY <1>3 DEF CamInv, HeldAt, Managed, imx132_remove, imx132_power_off
  <2> QED BY <1>3, <2>1
          DEF CamInv, HeldAt, Managed, Registered, One, RPM, Probing, imx132_remove, cam_call
<1> QED BY <1>1, <1>2, <1>3

\* A call takes its reference when it begins ...
LEMMA CallBegins ==
  ASSUME CamInv,
         imx132_enable_streams \/ enable_streams_no_power \/ imx132_disable_streams
           \/ set_ctrl_in_use \/ set_ctrl_idle \/ autosuspend
  PROVE  CamInv'
<1> USE DEF CamInv, HeldAt, Managed, Registered, One, RPM, Probing, cam_call
<1>1. CASE imx132_enable_streams
  <2>1. cam_rpm \in RPM /\ cam_rpm.usage + 1 \in Int
    BY DEF RPM
  <2>2. cam_rpm' = [cam_rpm EXCEPT !.active = TRUE, !.usage = cam_rpm.usage + 1]
    BY <1>1 DEF imx132_enable_streams
  <2>3. /\ cam_rpm' \in RPM /\ cam_rpm'.active /\ cam_rpm'.usage = cam_rpm.usage + 1
        /\ cam_rpm'.enabled <=> cam_rpm.enabled
    BY <2>1, <2>2, Resumed
  <2>4. cam_rpm'.usage = One(cam_streaming)' + One(cam_op # "none")'
                           + One(cam_probe \in {"async", "registered"})'
    BY <1>1, <2>3 DEF imx132_enable_streams
  <2> QED BY <1>1, <2>3, <2>4 DEF imx132_enable_streams
<1>2. CASE enable_streams_no_power
  BY <1>2 DEF enable_streams_no_power
<1>3. CASE imx132_disable_streams
  <2>1. cam_rpm.usage = 1 + 0 + One(cam_probe \in {"async", "registered"})
    BY <1>3 DEF imx132_disable_streams
  <2>2. cam_rpm'.usage = One(cam_streaming)' + One(cam_op # "none")'
                           + One(cam_probe \in {"async", "registered"})'
    BY <1>3, <2>1 DEF imx132_disable_streams
  <2>3. cam_streaming' \in BOOLEAN /\ ~cam_streaming' /\ cam_op' = "stop" /\ Registered
    BY <1>3 DEF imx132_disable_streams
  <2> QED BY <1>3, <2>2, <2>3 DEF imx132_disable_streams
<1>4. CASE set_ctrl_in_use
  BY <1>4 DEF set_ctrl_in_use, CtrlInput
<1>5. CASE set_ctrl_idle
  <2>1. UNCHANGED <<cam_probe, cam_held, cam_on, cam_rpm, cam_call, cam_streaming>>
    BY <1>5 DEF set_ctrl_idle
  <2> QED BY <2>1
<1>6. CASE autosuspend
  BY <1>6 DEF autosuspend, imx132_power_off
<1> QED BY <1>1, <1>2, <1>3, <1>4, <1>5, <1>6

\* ... and, but for a start, gives it back when it ends; a start hands it to the
\* stream.
LEMMA CallStep ==
  ASSUME CamInv, configured \/ cam_writes \/ cam_write_fails \/ call_returns PROVE CamInv'
<1> USE DEF CamInv, HeldAt, Managed, Registered, One, RPM, Probing
<1>1. CASE configured
  BY <1>1 DEF configured
<1>2. CASE cam_writes
  BY <1>2 DEF cam_writes
<1>3. CASE cam_write_fails
  BY <1>3 DEF cam_write_fails, call_fails
<1>4. CASE call_returns
  BY <1>4 DEF call_returns
<1> QED BY <1>1, <1>2, <1>3, <1>4

\* Init and each step keep the invariant.
\* No one holds a reference to begin with.
LEMMA CamInitInv == CamInit => CamInv
<1> SUFFICES ASSUME CamInit PROVE CamInv
  OBVIOUS
<1>1. /\ cam_rpm \in RPM
      /\ ~cam_rpm.enabled /\ cam_rpm.usage = 0
  BY DEF CamInit, RPM
<1>2. /\ cam_probe = "unbound" /\ cam_held = {} /\ cam_on = {}
      /\ cam_op = "none" /\ cam_todo = <<>> /\ cam_streaming \in BOOLEAN /\ ~cam_streaming
  BY DEF CamInit
<1> QED BY <1>1, <1>2 DEF CamInv, HeldAt, Managed, Registered, One, Probing

\* Every step keeps the references with their holders.
LEMMA CamStep == CamInv /\ [CamNext]_cam_vars => CamInv'
<1> SUFFICES ASSUME CamInv, [CamNext]_cam_vars PROVE CamInv'
  OBVIOUS
<1>1. CASE UNCHANGED cam_vars
  BY <1>1 DEF CamInv, HeldAt, Managed, Registered, cam_vars, cam_call
<1> QED BY <1>1, CamProbeStep, CamProbeFails, BindStep, CallBegins, CallStep DEF CamNext

\* However probe fails, and after remove, nothing is held, on or enabled; and
\* no path of a call keeps a reference or gives back one too many (CamReleased),
\* whatever fails and however often.
THEOREM CamReleasedAlways == CamSpec => []CamReleased
<1>1. CamInv => CamReleased
  BY DEF CamInv, HeldAt, Managed, Registered, One, CamReleased
<1> QED BY <1>1, CamInitInv, CamStep, PTL DEF CamSpec

-----------------------------------------------------------------------------
(* What a stream shows, for any mode, blankings and exposures, and for any *)
(* number of writes and supplies that fail.  A call is the list of writes  *)
(* it has still to make, so that the invariant says what holds before each *)
(* of them.                                                                *)

CtrlRecs == [vblank : CamBlankings, exposure : Int, flip : BOOLEAN]

RegRecs == [mode : {"standby", "streaming"}, vendor : BOOLEAN, sized : BOOLEAN,
            frame_length : Int, exposure : Int, flip : BOOLEAN]

CamTyped ==
  /\ cam_ctrl \in CtrlRecs /\ cam_regs \in RegRecs
  /\ cam_max \in Int /\ cam_failed \in BOOLEAN
  /\ cam_op \in {"none", "configure", "start", "stop", "ctrl"}

\* Somebody holds a reference.
Held == cam_op # "none" \/ cam_streaming \/ cam_probe \in {"async", "registered"}

\* A sensor that is held, or set up by probe, has its power; one without power
\* has forgotten that it streamed.
CamPowered ==
  /\ Held => cam_rpm.active
  /\ cam_probe \in {"identify", "ctrls", "entity", "subdev"} => cam_on = AllOn
  /\ cam_probe \in {"async", "registered", "bound"} /\ cam_rpm.active => cam_on = AllOn
  /\ cam_on = {} => cam_regs.mode = "standby"

\* The range of the exposure is that of the blanking, and is kept to.
FitsMax == cam_max = ExposureMax(cam_ctrl.vblank) /\ cam_ctrl.exposure <= cam_max

Standby == cam_regs.mode = "standby"
Sized   == Standby /\ cam_regs.vendor /\ cam_regs.sized

\* The sensor has what the controls say.
ShowsFrame    == cam_regs.frame_length = HEIGHT + cam_ctrl.vblank
ShowsExposure == cam_regs.exposure = cam_ctrl.exposure
ShowsFlip     == cam_regs.flip = cam_ctrl.flip

\* The writes the calls are made of.
Settle   == Write("mode", "standby")
Reset    == Write("reset", TRUE)
Vendor   == Write("vendor", TRUE)
Size     == Write("sized", TRUE)
Frame(v) == Write("frame_length", HEIGHT + v)
Clamp(v) == Attempt("exposure", ExposureMax(v))
Turn     == Write("flip", cam_ctrl.flip)
Stream   == Write("mode", "streaming")

AtConfigure ==
  cam_op = "configure" =>
    \/ cam_todo = <<Settle, Reset, Vendor, Size>>
    \/ cam_todo = <<Reset, Vendor, Size>>
    \/ cam_todo = <<Vendor, Size>> /\ Standby
    \/ cam_todo = <<Size>> /\ Standby /\ cam_regs.vendor
    \/ cam_todo = <<>> /\ Sized

\* The set up: the range is that of the blanking from the start, and the
\* exposure keeps to it from the clamp on.
AtStart ==
  cam_op = "start" =>
    /\ cam_regs.vendor /\ cam_regs.sized
    /\ ~cam_failed => cam_max = ExposureMax(cam_ctrl.vblank)
    /\ \E e \in Int :
         \/ /\ cam_todo = <<Clamp(cam_ctrl.vblank), Frame(cam_ctrl.vblank),
                            Write("exposure", e), Turn, Stream>>
            /\ Standby
         \/ /\ cam_todo = <<Frame(cam_ctrl.vblank), Write("exposure", e), Turn, Stream>>
            /\ Standby /\ (~cam_failed => FitsMax)
         \/ /\ cam_todo = <<Write("exposure", e), Turn, Stream>>
            /\ Standby /\ (~cam_failed => FitsMax /\ ShowsFrame)
         \/ /\ cam_todo = <<Turn, Stream>>
            /\ Standby /\ (~cam_failed => FitsMax /\ ShowsFrame /\ ShowsExposure)
         \/ /\ cam_todo = <<Stream>>
            /\ Standby /\ (~cam_failed => FitsMax /\ ShowsFrame /\ ShowsExposure /\ ShowsFlip)
         \/ /\ cam_todo = <<>>
            /\ ~cam_failed => FitsMax /\ ShowsFrame /\ ShowsExposure /\ ShowsFlip /\ ~Standby

\* A control: its range has moved before anything is written, and what is set
\* fits the old frame until the new one is.
AtCtrl ==
  cam_op = "ctrl" =>
    \E v \in CamBlankings, e \in Int, f \in BOOLEAN :
      \/ /\ cam_todo = <<Clamp(v), Frame(v)>>
         /\ ~cam_failed => /\ cam_max = ExposureMax(v) /\ cam_max < cam_ctrl.exposure
                           /\ cam_ctrl.exposure <= ExposureMax(cam_ctrl.vblank)
      \/ /\ cam_todo = <<Frame(v)>>
         /\ ~cam_failed => /\ cam_max = ExposureMax(v) /\ cam_ctrl.exposure <= cam_max
                           /\ cam_ctrl.exposure <= ExposureMax(cam_ctrl.vblank)
      \/ /\ cam_todo = <<Write("exposure", e)>>
         /\ ~cam_failed => FitsMax /\ e <= cam_max
      \/ cam_todo = <<Write("flip", f)>> /\ (~cam_failed => FitsMax)
      \/ cam_todo = <<>> /\ (~cam_failed => FitsMax)

\* A stop, whose write may fail.
AtStop ==
  cam_op = "stop" =>
    /\ ~cam_streaming
    /\ ~cam_failed => FitsMax
    /\ \/ cam_todo = <<Attempt("mode", "standby")>> /\ (~cam_failed => ShowsFrame /\ ShowsExposure)
       \/ cam_todo = <<>> /\ (~cam_failed => Standby)

AtRest == cam_op = "none" /\ ~cam_failed => FitsMax

\* A sensor that nobody starts, stops or streams from is in standby.
Quiet == cam_op \in {"none", "configure", "ctrl"} /\ ~cam_streaming /\ ~cam_failed => Standby

\* A stream shows every control, whatever is being written.
Showing ==
  cam_streaming /\ ~cam_failed =>
    /\ ~Standby /\ cam_regs.vendor /\ cam_regs.sized
    /\ ShowsFrame /\ ShowsExposure /\ ShowsFlip

ShowInv ==
  /\ CamTyped /\ CamPowered
  /\ AtRest /\ AtConfigure /\ AtStart /\ AtCtrl /\ AtStop
  /\ Quiet /\ Showing

\* What the constants are.
LEMMA CamConsts ==
  /\ HEIGHT \in Int /\ EXPOSURE_MARGIN \in Int /\ EXPOSURE_DEFAULT \in Int
  /\ VBlankDefault \in CamBlankings
  /\ \A v \in CamBlankings : v \in Int /\ ExposureMax(v) \in Int /\ 1 <= ExposureMax(v)
  /\ EXPOSURE_DEFAULT <= ExposureMax(VBlankDefault)
BY CamAssumption DEF CamAssumption, CamBlankings, ExposureMax

\* Registers after power-on.
LEMMA ResetTyped == ResetRegs \in RegRecs /\ ResetRegs.mode = "standby"
BY CamConsts DEF ResetRegs, RegRecs, CamBlankings

\* What each write that succeeds leaves in the registers and the controls.
LEMMA WroteFrame ==
  ASSUME CamTyped, cam_writes, NEW v \in CamBlankings, Head(cam_todo) = Frame(v)
  PROVE  /\ cam_ctrl' \in CtrlRecs /\ cam_regs' \in RegRecs
         /\ cam_ctrl'.vblank = v /\ cam_regs'.frame_length = HEIGHT + v
         /\ cam_ctrl'.exposure = cam_ctrl.exposure /\ cam_ctrl'.flip = cam_ctrl.flip
         /\ cam_regs'.mode = cam_regs.mode /\ cam_regs'.vendor = cam_regs.vendor
         /\ cam_regs'.sized = cam_regs.sized /\ cam_regs'.exposure = cam_regs.exposure
         /\ cam_regs'.flip = cam_regs.flip
<1> DEFINE n == HEIGHT + v
<1>1. n \in Int /\ n - HEIGHT = v
  BY CamConsts
<1>2. cam_ctrl' = [cam_ctrl EXCEPT !.vblank = n - HEIGHT]
  BY DEF cam_writes, Commits, Frame, Write
<1>3. cam_regs' = [cam_regs EXCEPT !.frame_length = n]
  BY DEF cam_writes, Value, Frame, Write
<1> HIDE DEF n
<1>4. cam_ctrl' = [cam_ctrl EXCEPT !.vblank = v]
  BY <1>1, <1>2
<1>5. cam_ctrl \in CtrlRecs /\ cam_regs \in RegRecs
  BY DEF CamTyped
<1>6. /\ cam_ctrl' \in CtrlRecs /\ cam_ctrl'.vblank = v
      /\ cam_ctrl'.exposure = cam_ctrl.exposure /\ cam_ctrl'.flip = cam_ctrl.flip
  BY <1>4, <1>5 DEF CtrlRecs
<1>7. /\ cam_regs' \in RegRecs /\ cam_regs'.frame_length = n
      /\ cam_regs'.mode = cam_regs.mode /\ cam_regs'.vendor = cam_regs.vendor
      /\ cam_regs'.sized = cam_regs.sized /\ cam_regs'.exposure = cam_regs.exposure
      /\ cam_regs'.flip = cam_regs.flip
  BY <1>1, <1>3, <1>5 DEF RegRecs
<1> QED
  BY <1>6, <1>7 DEF n

\* The exposure, as it is set or clamped.
LEMMA WroteExposure ==
  ASSUME CamTyped, cam_writes, NEW w, Head(cam_todo) = w, w.reg = "exposure",
         NEW n \in Int, Value(w) = n
  PROVE  /\ cam_ctrl' \in CtrlRecs /\ cam_regs' \in RegRecs
         /\ cam_ctrl'.exposure = n /\ cam_regs'.exposure = n
         /\ cam_ctrl'.vblank = cam_ctrl.vblank /\ cam_ctrl'.flip = cam_ctrl.flip
         /\ cam_regs'.mode = cam_regs.mode /\ cam_regs'.vendor = cam_regs.vendor
         /\ cam_regs'.sized = cam_regs.sized /\ cam_regs'.frame_length = cam_regs.frame_length
         /\ cam_regs'.flip = cam_regs.flip
<1>1. cam_ctrl' = [cam_ctrl EXCEPT !.exposure = n]
  BY DEF cam_writes, Commits
<1>2. cam_regs' = [cam_regs EXCEPT !.exposure = n]
  BY DEF cam_writes
<1>3. cam_ctrl \in CtrlRecs /\ cam_regs \in RegRecs
  BY DEF CamTyped
<1>4. /\ cam_ctrl' \in CtrlRecs /\ cam_ctrl'.exposure = n
      /\ cam_ctrl'.vblank = cam_ctrl.vblank /\ cam_ctrl'.flip = cam_ctrl.flip
  BY <1>1, <1>3 DEF CtrlRecs
<1>5. /\ cam_regs' \in RegRecs /\ cam_regs'.exposure = n
      /\ cam_regs'.mode = cam_regs.mode /\ cam_regs'.vendor = cam_regs.vendor
      /\ cam_regs'.sized = cam_regs.sized /\ cam_regs'.frame_length = cam_regs.frame_length
      /\ cam_regs'.flip = cam_regs.flip
  BY <1>2, <1>3 DEF RegRecs
<1> QED
  BY <1>4, <1>5

\* A flip.
LEMMA WroteFlip ==
  ASSUME CamTyped, cam_writes, NEW f \in BOOLEAN, Head(cam_todo) = Write("flip", f)
  PROVE  /\ cam_ctrl' \in CtrlRecs /\ cam_regs' \in RegRecs
         /\ cam_ctrl'.flip = f /\ cam_regs'.flip = f
         /\ cam_ctrl'.vblank = cam_ctrl.vblank /\ cam_ctrl'.exposure = cam_ctrl.exposure
         /\ cam_regs'.mode = cam_regs.mode /\ cam_regs'.vendor = cam_regs.vendor
         /\ cam_regs'.sized = cam_regs.sized /\ cam_regs'.frame_length = cam_regs.frame_length
         /\ cam_regs'.exposure = cam_regs.exposure
<1>1. cam_ctrl' = [cam_ctrl EXCEPT !.flip = f]
  BY DEF cam_writes, Commits, Write
<1>2. cam_regs' = [cam_regs EXCEPT !.flip = f]
  BY DEF cam_writes, Value, Write
<1>3. cam_ctrl \in CtrlRecs /\ cam_regs \in RegRecs
  BY DEF CamTyped
<1>4. /\ cam_ctrl' \in CtrlRecs /\ cam_ctrl'.flip = f
      /\ cam_ctrl'.vblank = cam_ctrl.vblank /\ cam_ctrl'.exposure = cam_ctrl.exposure
  BY <1>1, <1>3 DEF CtrlRecs
<1>5. /\ cam_regs' \in RegRecs /\ cam_regs'.flip = f
      /\ cam_regs'.mode = cam_regs.mode /\ cam_regs'.vendor = cam_regs.vendor
      /\ cam_regs'.sized = cam_regs.sized /\ cam_regs'.frame_length = cam_regs.frame_length
      /\ cam_regs'.exposure = cam_regs.exposure
  BY <1>2, <1>3 DEF RegRecs
<1> QED
  BY <1>4, <1>5

\* Standby, at the head of a configuration and in a stop, or streaming.
LEMMA WroteMode ==
  ASSUME CamTyped, cam_writes, NEW m \in {"standby", "streaming"}, NEW w,
         Head(cam_todo) = w, w.reg = "mode", w.val = m
  PROVE  /\ cam_ctrl' = cam_ctrl /\ cam_regs' \in RegRecs /\ cam_regs'.mode = m
         /\ cam_regs'.vendor = cam_regs.vendor /\ cam_regs'.sized = cam_regs.sized
         /\ cam_regs'.frame_length = cam_regs.frame_length
         /\ cam_regs'.exposure = cam_regs.exposure /\ cam_regs'.flip = cam_regs.flip
<1>1. cam_ctrl' = cam_ctrl
  BY DEF cam_writes, Commits
<1>2. cam_regs' = [cam_regs EXCEPT !.mode = m]
  BY DEF cam_writes, Value
<1>3. cam_regs \in RegRecs
  BY DEF CamTyped
<1> QED
  BY <1>1, <1>2, <1>3 DEF RegRecs

\* The software reset.
LEMMA WroteReset ==
  ASSUME CamTyped, cam_writes, Head(cam_todo) = Reset
  PROVE  cam_ctrl' = cam_ctrl /\ cam_regs' \in RegRecs /\ cam_regs'.mode = "standby"
<1>1. cam_ctrl' = cam_ctrl
  BY DEF cam_writes, Commits, Write, Reset
<1>2. cam_regs' = ResetRegs
  BY DEF cam_writes, Write, Reset
<1> QED
  BY <1>1, <1>2, ResetTyped

\* The manufacturer's settings.
LEMMA WroteVendor ==
  ASSUME CamTyped, cam_writes, Head(cam_todo) = Vendor
  PROVE  /\ cam_ctrl' = cam_ctrl /\ cam_regs' \in RegRecs
         /\ cam_regs'.mode = cam_regs.mode /\ cam_regs'.vendor
<1>1. Vendor.reg = "vendor" /\ Vendor.val = TRUE
  BY DEF Vendor, Write
<1>2. cam_ctrl' = cam_ctrl
  BY <1>1 DEF cam_writes, Commits
<1>3. cam_regs' = [cam_regs EXCEPT !.vendor = TRUE]
  <2>1. Value(Vendor) = TRUE
    BY <1>1, Zenon DEF Value
  <2> QED
    BY <1>1, <2>1 DEF cam_writes
<1>4. cam_regs \in RegRecs
  BY DEF CamTyped
<1> QED
  BY <1>2, <1>3, <1>4 DEF RegRecs

\* The size of the picture.
LEMMA WroteSize ==
  ASSUME CamTyped, cam_writes, Head(cam_todo) = Size
  PROVE  /\ cam_ctrl' = cam_ctrl /\ cam_regs' \in RegRecs /\ cam_regs'.mode = cam_regs.mode
         /\ cam_regs'.vendor = cam_regs.vendor /\ cam_regs'.sized
<1>1. Size.reg = "sized" /\ Size.val = TRUE
  BY DEF Size, Write
<1>2. cam_ctrl' = cam_ctrl
  BY <1>1 DEF cam_writes, Commits
<1>3. cam_regs' = [cam_regs EXCEPT !.sized = TRUE]
  <2>1. Value(Size) = TRUE
    BY <1>1, Zenon DEF Value
  <2> QED
    BY <1>1, <2>1 DEF cam_writes
<1>4. cam_regs \in RegRecs
  BY DEF CamTyped
<1> QED
  BY <1>2, <1>3, <1>4 DEF RegRecs

\* A write finds the sensor powered, and leaves it so.
LEMMA WritesPowered ==
  ASSUME CamInv, ShowInv, cam_writes
  PROVE  CamPowered'
<1>1. cam_todo # <<>> /\ cam_op # "none"
  BY DEF cam_writes, CamInv
<1>2. cam_probe \in {"registered", "bound"} /\ cam_rpm.active /\ cam_on = AllOn
  BY <1>1 DEF CamInv, ShowInv, CamPowered, Held, Registered
<1>3. cam_on # {}
  BY <1>2 DEF AllOn
<1> QED
  BY <1>2, <1>3 DEF cam_writes, CamPowered, Held

\* imx132_configure(): the sensor is in standby throughout.
LEMMA ConfigureWrites ==
  ASSUME CamInv, ShowInv, cam_op = "configure", cam_writes
  PROVE  ShowInv'
<1>1. /\ cam_todo # <<>> /\ cam_todo' = Tail(cam_todo)
      /\ UNCHANGED <<cam_op, cam_max, cam_streaming, cam_failed>>
  BY DEF cam_writes
<1>2. CamTyped /\ CamPowered' /\ ~cam_streaming /\ (~cam_failed => Standby)
  BY WritesPowered DEF CamInv, ShowInv, Quiet
<1>3. cam_ctrl' = cam_ctrl /\ cam_regs' \in RegRecs /\ (~cam_failed => Standby') /\ AtConfigure'
  <2>1. CASE cam_todo = <<Settle, Reset, Vendor, Size>>
    <3>1. Head(cam_todo) = Settle
          /\ cam_todo' = <<Reset, Vendor, Size>>
      BY <1>1, <2>1
    <3>2. cam_ctrl' = cam_ctrl /\ cam_regs' \in RegRecs /\ cam_regs'.mode = "standby"
      <4>1. Settle.reg = "mode" /\ Settle.val = "standby"
        BY DEF Write, Settle
      <4> QED
        BY <1>2, <3>1, <4>1, WroteMode
    <3> QED
      BY <3>1, <3>2 DEF AtConfigure, Standby
  <2>2. CASE cam_todo = <<Reset, Vendor, Size>>
    <3>1. Head(cam_todo) = Reset
          /\ cam_todo' = <<Vendor, Size>>
      BY <1>1, <2>2
    <3> QED
      BY <1>2, <3>1, WroteReset DEF AtConfigure, Standby
  <2>3. CASE cam_todo = <<Vendor, Size>> /\ Standby
    <3>1. Head(cam_todo) = Vendor /\ cam_todo' = <<Size>>
      BY <1>1, <2>3
    <3> QED
      BY <1>2, <2>3, <3>1, WroteVendor DEF AtConfigure, Standby
  <2>4. CASE cam_todo = <<Size>> /\ Standby /\ cam_regs.vendor
    <3>1. Head(cam_todo) = Size /\ cam_todo' = <<>>
      BY <1>1, <2>4
    <3> QED
      BY <1>2, <2>4, <3>1, WroteSize DEF AtConfigure, Standby, Sized
  <2> QED
    BY <1>1, <2>1, <2>2, <2>3, <2>4 DEF ShowInv, AtConfigure
<1>4. CamTyped'
  BY <1>1, <1>2, <1>3 DEF CamTyped
<1> QED
  BY <1>1, <1>2, <1>3, <1>4 DEF ShowInv, AtRest, AtStart, AtCtrl, AtStop, Quiet, Showing

\* The set up of the controls and the start: each control is shown from its write on,
\* and the frame is set before the exposure that has to fit it.
LEMMA StartWrites ==
  ASSUME CamInv, ShowInv, cam_op = "start", cam_writes
  PROVE  ShowInv'
<1>1. /\ cam_todo # <<>> /\ cam_todo' = Tail(cam_todo)
      /\ UNCHANGED <<cam_op, cam_max, cam_streaming, cam_failed>>
  BY DEF cam_writes
<1>2. /\ CamTyped /\ CamPowered' /\ ~cam_streaming
      /\ cam_regs.vendor /\ cam_regs.sized
      /\ ~cam_failed => cam_max = ExposureMax(cam_ctrl.vblank)
  BY WritesPowered DEF CamInv, ShowInv, AtStart
<1>3. /\ cam_ctrl.vblank \in CamBlankings /\ cam_ctrl.exposure \in Int /\ cam_ctrl.flip \in BOOLEAN
      /\ ExposureMax(cam_ctrl.vblank) \in Int
  BY <1>2, CamConsts DEF CamTyped, CtrlRecs
<1>4. /\ cam_ctrl' \in CtrlRecs /\ cam_regs' \in RegRecs
      /\ cam_ctrl'.vblank = cam_ctrl.vblank /\ cam_ctrl'.flip = cam_ctrl.flip
      /\ AtStart'
  <2>0. PICK e \in Int :
         \/ /\ cam_todo = <<Clamp(cam_ctrl.vblank), Frame(cam_ctrl.vblank),
                            Write("exposure", e), Turn, Stream>>
            /\ Standby
         \/ /\ cam_todo = <<Frame(cam_ctrl.vblank), Write("exposure", e), Turn, Stream>>
            /\ Standby /\ (~cam_failed => FitsMax)
         \/ /\ cam_todo = <<Write("exposure", e), Turn, Stream>>
            /\ Standby /\ (~cam_failed => FitsMax /\ ShowsFrame)
         \/ /\ cam_todo = <<Turn, Stream>>
            /\ Standby /\ (~cam_failed => FitsMax /\ ShowsFrame /\ ShowsExposure)
         \/ /\ cam_todo = <<Stream>>
            /\ Standby /\ (~cam_failed => FitsMax /\ ShowsFrame /\ ShowsExposure /\ ShowsFlip)
    BY <1>1 DEF ShowInv, AtStart
  <2>1. CASE /\ cam_todo = <<Clamp(cam_ctrl.vblank), Frame(cam_ctrl.vblank),
                             Write("exposure", e), Turn, Stream>>
             /\ Standby
    <3>1. Head(cam_todo) = Clamp(cam_ctrl.vblank)
          /\ cam_todo' = <<Frame(cam_ctrl.vblank), Write("exposure", e), Turn, Stream>>
      BY <1>1, <2>1
    <3>2. Clamp(cam_ctrl.vblank).reg = "exposure"
          /\ Value(Clamp(cam_ctrl.vblank)) = ExposureMax(cam_ctrl.vblank)
      BY DEF Clamp, Attempt, Value
    <3>3. /\ cam_ctrl' \in CtrlRecs /\ cam_regs' \in RegRecs
          /\ cam_ctrl'.exposure = ExposureMax(cam_ctrl.vblank)
          /\ cam_ctrl'.vblank = cam_ctrl.vblank /\ cam_ctrl'.flip = cam_ctrl.flip
          /\ cam_regs'.mode = cam_regs.mode /\ cam_regs'.vendor = cam_regs.vendor
          /\ cam_regs'.sized = cam_regs.sized
      BY <1>2, <1>3, <3>1, <3>2, WroteExposure
    <3>4. Turn' = Turn /\ Stream' = Stream /\ Standby'
      BY <2>1, <3>3 DEF Turn, Stream, Standby
    <3>5. ~cam_failed' => FitsMax'
      BY <1>1, <1>2, <1>3, <3>3 DEF FitsMax
    <3>6. cam_todo' = <<Frame(cam_ctrl'.vblank), Write("exposure", e), Turn', Stream'>>
      BY <3>1, <3>3, <3>4
    <3> QED
      BY <1>1, <1>2, <3>3, <3>4, <3>5, <3>6 DEF AtStart
  <2>2. CASE /\ cam_todo = <<Frame(cam_ctrl.vblank), Write("exposure", e), Turn, Stream>>
             /\ Standby /\ (~cam_failed => FitsMax)
    <3>1. Head(cam_todo) = Frame(cam_ctrl.vblank)
          /\ cam_todo' = <<Write("exposure", e), Turn, Stream>>
      BY <1>1, <2>2
    <3>2. /\ cam_ctrl' \in CtrlRecs /\ cam_regs' \in RegRecs
          /\ cam_ctrl'.vblank = cam_ctrl.vblank /\ cam_regs'.frame_length = HEIGHT + cam_ctrl.vblank
          /\ cam_ctrl'.exposure = cam_ctrl.exposure /\ cam_ctrl'.flip = cam_ctrl.flip
          /\ cam_regs'.mode = cam_regs.mode /\ cam_regs'.vendor = cam_regs.vendor
          /\ cam_regs'.sized = cam_regs.sized
      BY <1>2, <1>3, <3>1, WroteFrame
    <3>3. Turn' = Turn /\ Stream' = Stream /\ Standby' /\ ShowsFrame'
      BY <2>2, <3>2 DEF Turn, Stream, Standby, ShowsFrame
    <3>4. ~cam_failed' => FitsMax'
      BY <1>1, <2>2, <3>2 DEF FitsMax
    <3>5. cam_todo' = <<Write("exposure", e), Turn', Stream'>>
      BY <3>1, <3>3
    <3> QED
      BY <1>1, <1>2, <3>2, <3>3, <3>4, <3>5 DEF AtStart
  <2>3. CASE /\ cam_todo = <<Write("exposure", e), Turn, Stream>>
             /\ Standby /\ (~cam_failed => FitsMax /\ ShowsFrame)
    <3>1. Head(cam_todo) = Write("exposure", e) /\ cam_todo' = <<Turn, Stream>>
      BY <1>1, <2>3
    <3>2. Write("exposure", e).reg = "exposure" /\ Value(Write("exposure", e)) = cam_ctrl.exposure
      BY DEF Write, Value
    <3>3. /\ cam_ctrl' \in CtrlRecs /\ cam_regs' \in RegRecs
          /\ cam_ctrl'.exposure = cam_ctrl.exposure /\ cam_regs'.exposure = cam_ctrl.exposure
          /\ cam_ctrl'.vblank = cam_ctrl.vblank /\ cam_ctrl'.flip = cam_ctrl.flip
          /\ cam_regs'.mode = cam_regs.mode /\ cam_regs'.vendor = cam_regs.vendor
          /\ cam_regs'.sized = cam_regs.sized /\ cam_regs'.frame_length = cam_regs.frame_length
      BY <1>2, <1>3, <3>1, <3>2, WroteExposure
    <3>4. Turn' = Turn /\ Stream' = Stream /\ Standby' /\ ShowsExposure'
      BY <2>3, <3>3 DEF Turn, Stream, Standby, ShowsExposure
    <3>5. ~cam_failed' => FitsMax' /\ ShowsFrame'
      BY <1>1, <2>3, <3>3 DEF FitsMax, ShowsFrame
    <3>6. cam_todo' = <<Turn', Stream'>>
      BY <3>1, <3>4
    <3> QED
      BY <1>1, <1>2, <3>3, <3>4, <3>5, <3>6 DEF AtStart
  <2>4. CASE /\ cam_todo = <<Turn, Stream>>
             /\ Standby /\ (~cam_failed => FitsMax /\ ShowsFrame /\ ShowsExposure)
    <3>1. Head(cam_todo) = Write("flip", cam_ctrl.flip) /\ cam_todo' = <<Stream>>
      BY <1>1, <2>4 DEF Turn
    <3>2. /\ cam_ctrl' \in CtrlRecs /\ cam_regs' \in RegRecs
          /\ cam_ctrl'.flip = cam_ctrl.flip /\ cam_regs'.flip = cam_ctrl.flip
          /\ cam_ctrl'.vblank = cam_ctrl.vblank /\ cam_ctrl'.exposure = cam_ctrl.exposure
          /\ cam_regs'.mode = cam_regs.mode /\ cam_regs'.vendor = cam_regs.vendor
          /\ cam_regs'.sized = cam_regs.sized /\ cam_regs'.frame_length = cam_regs.frame_length
          /\ cam_regs'.exposure = cam_regs.exposure
      BY <1>2, <1>3, <3>1, WroteFlip
    <3>3. Stream' = Stream /\ Standby' /\ ShowsFlip'
      BY <2>4, <3>2 DEF Stream, Standby, ShowsFlip
    <3>4. ~cam_failed' => FitsMax' /\ ShowsFrame' /\ ShowsExposure'
      BY <1>1, <2>4, <3>2 DEF FitsMax, ShowsFrame, ShowsExposure
    <3>5. cam_todo' = <<Stream'>>
      BY <3>1, <3>3
    <3> QED
      BY <1>1, <1>2, <3>2, <3>3, <3>4, <3>5 DEF AtStart
  <2>5. CASE /\ cam_todo = <<Stream>>
             /\ Standby /\ (~cam_failed => FitsMax /\ ShowsFrame /\ ShowsExposure /\ ShowsFlip)
    <3>1. Head(cam_todo) = Stream /\ cam_todo' = <<>>
      BY <1>1, <2>5
    <3>2. Stream.reg = "mode" /\ Stream.val = "streaming"
      BY DEF Stream, Write
    <3>3. /\ cam_ctrl' = cam_ctrl /\ cam_regs' \in RegRecs /\ cam_regs'.mode = "streaming"
          /\ cam_regs'.vendor = cam_regs.vendor /\ cam_regs'.sized = cam_regs.sized
          /\ cam_regs'.frame_length = cam_regs.frame_length
          /\ cam_regs'.exposure = cam_regs.exposure /\ cam_regs'.flip = cam_regs.flip
      BY <1>2, <3>1, <3>2, WroteMode
    <3>4. ~cam_failed' => FitsMax' /\ ShowsFrame' /\ ShowsExposure' /\ ShowsFlip' /\ ~Standby'
      BY <1>1, <2>5, <3>3 DEF FitsMax, ShowsFrame, ShowsExposure, ShowsFlip, Standby
    <3>5. cam_ctrl' \in CtrlRecs
      BY <1>2, <3>3 DEF CamTyped
    <3> QED
      BY <1>1, <1>2, <3>1, <3>3, <3>4, <3>5 DEF AtStart
  <2> QED
    BY <2>0, <2>1, <2>2, <2>3, <2>4, <2>5
<1>5. CamTyped'
  BY <1>1, <1>2, <1>4 DEF CamTyped
<1> QED
  BY <1>1, <1>2, <1>4, <1>5 DEF ShowInv, AtRest, AtConfigure, AtCtrl, AtStop, Quiet, Showing

\* A control that is written to a sensor in use: the exposure is clamped before the
\* frame shrinks.
LEMMA CtrlWrites ==
  ASSUME CamInv, ShowInv, cam_op = "ctrl", cam_writes
  PROVE  ShowInv'
<1>1. /\ cam_todo # <<>> /\ cam_todo' = Tail(cam_todo)
      /\ UNCHANGED <<cam_op, cam_max, cam_streaming, cam_failed>>
  BY DEF cam_writes
<1>2. CamTyped /\ CamPowered' /\ Quiet /\ Showing
  BY WritesPowered DEF ShowInv
<1>3. /\ cam_ctrl.vblank \in CamBlankings /\ cam_ctrl.exposure \in Int /\ cam_ctrl.flip \in BOOLEAN
      /\ ExposureMax(cam_ctrl.vblank) \in Int /\ cam_max \in Int
  BY <1>2, CamConsts DEF CamTyped, CtrlRecs
<1>4. /\ cam_ctrl' \in CtrlRecs /\ cam_regs' \in RegRecs
      /\ cam_regs'.mode = cam_regs.mode /\ cam_regs'.vendor = cam_regs.vendor
      /\ cam_regs'.sized = cam_regs.sized
      /\ ShowsFrame => ShowsFrame'
      /\ ShowsExposure => ShowsExposure'
      /\ ShowsFlip => ShowsFlip'
      /\ AtCtrl'
  <2>0. PICK v \in CamBlankings, e \in Int, f \in BOOLEAN :
      \/ /\ cam_todo = <<Clamp(v), Frame(v)>>
         /\ ~cam_failed => /\ cam_max = ExposureMax(v) /\ cam_max < cam_ctrl.exposure
                           /\ cam_ctrl.exposure <= ExposureMax(cam_ctrl.vblank)
      \/ /\ cam_todo = <<Frame(v)>>
         /\ ~cam_failed => /\ cam_max = ExposureMax(v) /\ cam_ctrl.exposure <= cam_max
                           /\ cam_ctrl.exposure <= ExposureMax(cam_ctrl.vblank)
      \/ /\ cam_todo = <<Write("exposure", e)>>
         /\ ~cam_failed => FitsMax /\ e <= cam_max
      \/ cam_todo = <<Write("flip", f)>> /\ (~cam_failed => FitsMax)
    BY <1>1 DEF ShowInv, AtCtrl
  <2>1. CASE /\ cam_todo = <<Clamp(v), Frame(v)>>
             /\ ~cam_failed => /\ cam_max = ExposureMax(v) /\ cam_max < cam_ctrl.exposure
                               /\ cam_ctrl.exposure <= ExposureMax(cam_ctrl.vblank)
    <3>1. Head(cam_todo) = Clamp(v) /\ cam_todo' = <<Frame(v)>>
      BY <1>1, <2>1
    <3>2. Clamp(v).reg = "exposure" /\ Value(Clamp(v)) = ExposureMax(v) /\ ExposureMax(v) \in Int
      BY CamConsts DEF Clamp, Attempt, Value
    <3>3. /\ cam_ctrl' \in CtrlRecs /\ cam_regs' \in RegRecs
          /\ cam_ctrl'.exposure = ExposureMax(v) /\ cam_regs'.exposure = ExposureMax(v)
          /\ cam_ctrl'.vblank = cam_ctrl.vblank /\ cam_ctrl'.flip = cam_ctrl.flip
          /\ cam_regs'.mode = cam_regs.mode /\ cam_regs'.vendor = cam_regs.vendor
          /\ cam_regs'.sized = cam_regs.sized /\ cam_regs'.frame_length = cam_regs.frame_length
          /\ cam_regs'.flip = cam_regs.flip
      BY <1>2, <3>1, <3>2, WroteExposure
    <3>4. ~cam_failed' => /\ cam_max' = ExposureMax(v) /\ cam_ctrl'.exposure <= cam_max'
                          /\ cam_ctrl'.exposure <= ExposureMax(cam_ctrl'.vblank)
      BY <1>1, <1>3, <2>1, <3>2, <3>3
    <3>5. AtCtrl'
      BY <3>1, <3>4 DEF AtCtrl, Frame
    <3> QED
      BY <3>3, <3>5 DEF ShowsFrame, ShowsExposure, ShowsFlip
  <2>2. CASE /\ cam_todo = <<Frame(v)>>
             /\ ~cam_failed => /\ cam_max = ExposureMax(v) /\ cam_ctrl.exposure <= cam_max
                               /\ cam_ctrl.exposure <= ExposureMax(cam_ctrl.vblank)
    <3>1. Head(cam_todo) = Frame(v) /\ cam_todo' = <<>>
      BY <1>1, <2>2
    <3>2. /\ cam_ctrl' \in CtrlRecs /\ cam_regs' \in RegRecs
          /\ cam_ctrl'.vblank = v /\ cam_regs'.frame_length = HEIGHT + v
          /\ cam_ctrl'.exposure = cam_ctrl.exposure /\ cam_ctrl'.flip = cam_ctrl.flip
          /\ cam_regs'.mode = cam_regs.mode /\ cam_regs'.vendor = cam_regs.vendor
          /\ cam_regs'.sized = cam_regs.sized /\ cam_regs'.exposure = cam_regs.exposure
          /\ cam_regs'.flip = cam_regs.flip
      BY <1>2, <3>1, WroteFrame
    <3>3. ~cam_failed' => FitsMax'
      BY <1>1, <2>2, <3>2 DEF FitsMax
    <3> QED
      BY <3>1, <3>2, <3>3 DEF AtCtrl, ShowsFrame, ShowsExposure, ShowsFlip
  <2>3. CASE /\ cam_todo = <<Write("exposure", e)>>
             /\ ~cam_failed => FitsMax /\ e <= cam_max
    <3>1. Head(cam_todo) = Write("exposure", e) /\ cam_todo' = <<>>
      BY <1>1, <2>3
    <3>2. Write("exposure", e).reg = "exposure" /\ Value(Write("exposure", e)) = e
      BY DEF Write, Value
    <3>3. /\ cam_ctrl' \in CtrlRecs /\ cam_regs' \in RegRecs
          /\ cam_ctrl'.exposure = e /\ cam_regs'.exposure = e
          /\ cam_ctrl'.vblank = cam_ctrl.vblank /\ cam_ctrl'.flip = cam_ctrl.flip
          /\ cam_regs'.mode = cam_regs.mode /\ cam_regs'.vendor = cam_regs.vendor
          /\ cam_regs'.sized = cam_regs.sized /\ cam_regs'.frame_length = cam_regs.frame_length
          /\ cam_regs'.flip = cam_regs.flip
      BY <1>2, <3>1, <3>2, WroteExposure
    <3>4. ~cam_failed' => FitsMax'
      BY <1>1, <2>3, <3>3 DEF FitsMax
    <3> QED
      BY <3>1, <3>3, <3>4 DEF AtCtrl, ShowsFrame, ShowsExposure, ShowsFlip
  <2>4. CASE cam_todo = <<Write("flip", f)>> /\ (~cam_failed => FitsMax)
    <3>1. Head(cam_todo) = Write("flip", f) /\ cam_todo' = <<>>
      BY <1>1, <2>4
    <3>2. /\ cam_ctrl' \in CtrlRecs /\ cam_regs' \in RegRecs
          /\ cam_ctrl'.flip = f /\ cam_regs'.flip = f
          /\ cam_ctrl'.vblank = cam_ctrl.vblank /\ cam_ctrl'.exposure = cam_ctrl.exposure
          /\ cam_regs'.mode = cam_regs.mode /\ cam_regs'.vendor = cam_regs.vendor
          /\ cam_regs'.sized = cam_regs.sized /\ cam_regs'.frame_length = cam_regs.frame_length
          /\ cam_regs'.exposure = cam_regs.exposure
      BY <1>2, <3>1, WroteFlip
    <3>3. ~cam_failed' => FitsMax'
      BY <1>1, <2>4, <3>2 DEF FitsMax
    <3> QED
      BY <3>1, <3>2, <3>3 DEF AtCtrl, ShowsFrame, ShowsExposure, ShowsFlip
  <2> QED
    BY <2>0, <2>1, <2>2, <2>3, <2>4
<1>5. CamTyped'
  BY <1>1, <1>2, <1>4 DEF CamTyped
<1>6. Quiet'
  BY <1>1, <1>2, <1>4 DEF Quiet, Standby
<1>7. Showing'
  <2> SUFFICES ASSUME cam_streaming', ~cam_failed'
               PROVE  /\ ~Standby' /\ cam_regs'.vendor /\ cam_regs'.sized
                      /\ ShowsFrame' /\ ShowsExposure' /\ ShowsFlip'
    BY DEF Showing
  <2>1. ~Standby /\ cam_regs.vendor /\ cam_regs.sized /\ ShowsFrame /\ ShowsExposure /\ ShowsFlip
    BY <1>1, <1>2 DEF Showing
  <2>2. ~Standby' /\ cam_regs'.vendor /\ cam_regs'.sized
    BY <1>4, <2>1 DEF Standby
  <2> QED
    BY <1>4, <2>1, <2>2
<1> QED
  BY <1>1, <1>2, <1>4, <1>5, <1>6, <1>7 DEF ShowInv, AtRest, AtConfigure, AtStart, AtStop

\* imx132_disable_streams().
LEMMA StopWrites ==
  ASSUME CamInv, ShowInv, cam_op = "stop", cam_writes
  PROVE  ShowInv'
<1>1. /\ cam_todo # <<>> /\ cam_todo' = Tail(cam_todo)
      /\ UNCHANGED <<cam_op, cam_max, cam_streaming, cam_failed>>
  BY DEF cam_writes
<1>2. CamTyped /\ CamPowered' /\ ~cam_streaming
  BY WritesPowered DEF ShowInv, AtStop
<1>3. cam_todo = <<Attempt("mode", "standby")>> /\ (~cam_failed => FitsMax)
  BY <1>1 DEF ShowInv, AtStop
<1>4. Head(cam_todo) = Attempt("mode", "standby") /\ cam_todo' = <<>>
  BY <1>1, <1>3
<1>5. Attempt("mode", "standby").reg = "mode" /\ Attempt("mode", "standby").val = "standby"
  BY DEF Attempt
<1>6. cam_ctrl' = cam_ctrl /\ cam_regs' \in RegRecs /\ cam_regs'.mode = "standby"
  BY <1>2, <1>4, <1>5, WroteMode
<1>7. CamTyped' /\ AtStop'
  BY <1>1, <1>2, <1>3, <1>4, <1>6 DEF CamTyped, AtStop, FitsMax, Standby
<1> QED
  BY <1>1, <1>2, <1>7 DEF ShowInv, AtRest, AtConfigure, AtStart, AtCtrl, Quiet, Showing

\* A write that fails: a configuration or a start recovers to standby.
LEMMA WriteFails ==
  ASSUME CamInv, ShowInv, cam_write_fails
  PROVE  ShowInv'
<1>1. /\ cam_todo # <<>> /\ cam_failed' = TRUE /\ call_fails(Head(cam_todo).ignored)
      /\ UNCHANGED <<cam_probe, cam_on, cam_vals, cam_regs, cam_streaming>>
  BY DEF cam_write_fails
<1>2. CamTyped /\ CamPowered /\ cam_op # "none"
  BY <1>1 DEF ShowInv, CamInv
<1>3. cam_rpm'.active = cam_rpm.active
  BY <1>1 DEF CamInv, RPM, call_fails
<1>4. AtRest' /\ Quiet' /\ Showing'
  BY <1>1 DEF AtRest, Quiet, Showing
<1>5. CASE cam_op' = "none"
  BY <1>1, <1>2, <1>3, <1>4, <1>5
     DEF ShowInv, CamTyped, CamPowered, Held, Standby, AtConfigure, AtStart, AtCtrl, AtStop, cam_vals
<1>6. CASE cam_op' # "none"
  <2>1. Head(cam_todo).ignored /\ cam_todo' = Tail(cam_todo) /\ cam_op' = cam_op
    BY <1>1, <1>6 DEF call_fails
  <2>2. CamTyped' /\ CamPowered'
    BY <1>1, <1>2, <1>3, <2>1 DEF CamTyped, CamPowered, Held, Standby, cam_vals
  <2>3. AtConfigure'
    <3>1. ~Settle.ignored /\ ~Reset.ignored /\ ~Vendor.ignored /\ ~Size.ignored
      BY DEF Settle, Reset, Vendor, Size, Write
    <3> QED
      BY <1>1, <2>1, <3>1 DEF ShowInv, AtConfigure
  <2>4. AtStart'
    <3> SUFFICES ASSUME cam_op = "start" PROVE AtStart'
      BY <2>1 DEF AtStart
    <3>1. PICK e \in Int : /\ cam_todo = <<Clamp(cam_ctrl.vblank), Frame(cam_ctrl.vblank),
                                           Write("exposure", e), Turn, Stream>>
                           /\ Standby
      BY <1>1, <2>1 DEF ShowInv, AtStart, Frame, Write, Turn, Stream
    <3>2. cam_todo' = <<Frame(cam_ctrl'.vblank), Write("exposure", e), Turn', Stream'>> /\ Standby'
      BY <1>1, <2>1, <3>1 DEF Frame, Turn, Stream, Standby, cam_vals
    <3>3. cam_regs'.vendor /\ cam_regs'.sized
      BY <1>1 DEF ShowInv, AtStart
    <3> QED
      BY <1>1, <3>2, <3>3 DEF AtStart
  <2>5. AtCtrl'
    <3> SUFFICES ASSUME cam_op = "ctrl" PROVE AtCtrl'
      BY <2>1 DEF AtCtrl
    <3>1. PICK v \in CamBlankings : cam_todo = <<Clamp(v), Frame(v)>>
      BY <1>1, <2>1 DEF ShowInv, AtCtrl, Frame, Write
    <3>2. cam_todo' = <<Frame(v)>>
      BY <2>1, <3>1
    <3>3. 0 \in Int /\ TRUE \in BOOLEAN
      OBVIOUS
    <3> QED
      BY <1>1, <3>2, <3>3 DEF AtCtrl
  <2>6. AtStop'
    BY <1>1, <2>1 DEF ShowInv, AtStop
  <2> QED
    BY <1>4, <2>2, <2>3, <2>4, <2>5, <2>6 DEF ShowInv
<1> QED
  BY <1>5, <1>6

\* The writes of a call, spelled out.
LEMMA ConfigureScript == imx132_configure = <<Settle, Reset, Vendor, Size>>
<1>1. imx132_configure = (<<Settle, Reset>> \o <<Vendor>>) \o <<Size>>
  BY DEF imx132_configure, imx132_vendor_init, imx132_mode_1976x1144, Settle, Reset, Vendor, Size
<1>2. <<Settle, Reset>> \o <<Vendor>> = <<Settle, Reset, Vendor>>
  BY Join3
<1>3. <<Settle, Reset, Vendor>> \o <<Size>> = <<Settle, Reset, Vendor, Size>>
  BY Join4
<1> QED
  BY <1>1, <1>2, <1>3

\* The writes of a blanking.
LEMMA VblankScript ==
  ASSUME NEW v
  PROVE  vblank_writes(v) = IF Clamped(v) THEN <<Clamp(v), Frame(v)>> ELSE <<Frame(v)>>
<1>1. vblank_writes(v) = (IF Clamped(v) THEN <<Clamp(v)>> ELSE <<>>) \o <<Frame(v)>>
  BY DEF vblank_writes, Clamp, Frame
<1>2. <<Clamp(v)>> \o <<Frame(v)>> = <<Clamp(v), Frame(v)>>
  BY Join2
<1>3. <<>> \o <<Frame(v)>> = <<Frame(v)>>
  <2>1. <<Frame(v)>> \in Seq({Frame(v)})
    OBVIOUS
  <2> QED
    BY <2>1, ConcatEmptySeq
<1> QED
  BY <1>1, <1>2, <1>3

\* The writes of a start.
LEMMA StartScript ==
  handler_setup \o <<Write("mode", "streaming")>> =
    IF Clamped(cam_ctrl.vblank)
    THEN <<Clamp(cam_ctrl.vblank), Frame(cam_ctrl.vblank),
           Write("exposure", cam_ctrl.exposure), Turn, Stream>>
    ELSE <<Frame(cam_ctrl.vblank), Write("exposure", cam_ctrl.exposure), Turn, Stream>>
<1> DEFINE v == cam_ctrl.vblank  c == Clamp(v)  r == Frame(v)
           e == Write("exposure", cam_ctrl.exposure)
<1>1. handler_setup \o <<Write("mode", "streaming")>> = (vblank_writes(v) \o <<e, Turn>>) \o <<Stream>>
  BY DEF handler_setup, Turn, Stream
<1>2. vblank_writes(v) = IF Clamped(v) THEN <<c, r>> ELSE <<r>>
  BY VblankScript
<1> HIDE DEF c, r, e, v
<1>3. <<r>> \o <<e, Turn>> = <<r, e, Turn>> /\ <<c, r>> \o <<e, Turn>> = <<c, r, e, Turn>>
  BY Join3, Join4
<1>4. <<r, e, Turn>> \o <<Stream>> = <<r, e, Turn, Stream>>
  BY Join4
<1>5. <<c, r, e, Turn>> \o <<Stream>> = <<c, r, e, Turn, Stream>>
  BY Join5
<1>6. handler_setup \o <<Write("mode", "streaming")>> =
        IF Clamped(v) THEN <<c, r, e, Turn, Stream>> ELSE <<r, e, Turn, Stream>>
  BY <1>1, <1>2, <1>3, <1>4, <1>5
<1> QED
  BY <1>6 DEF v, c, r, e

\* A start of streams, and the set up that follows the configuration.
LEMMA StreamsBegin ==
  ASSUME CamInv, ShowInv, imx132_enable_streams
  PROVE  ShowInv'
<1>1. /\ cam_op = "none" /\ cam_op' = "configure" /\ ~cam_streaming /\ Registered
      /\ cam_todo' = <<Settle, Reset, Vendor, Size>>
      /\ UNCHANGED <<cam_probe, cam_ctrl, cam_max, cam_regs, cam_streaming, cam_failed>>
  BY ConfigureScript DEF imx132_enable_streams, cam_vals
<1>2. cam_rpm'.active
  BY DEF CamInv, RPM, imx132_enable_streams
<1>3. cam_on' = AllOn
  BY <1>1 DEF imx132_enable_streams, imx132_power_on, ShowInv, CamPowered, Registered
<1>4. AllOn # {}
  BY DEF AllOn
<1> QED
  BY <1>1, <1>2, <1>3, <1>4
     DEF ShowInv, CamTyped, CamPowered, Registered, AtRest, AtConfigure, AtStart, AtCtrl, AtStop,
         Quiet, Showing, Standby

\* The set up that follows the configuration.
LEMMA SetUpBegins ==
  ASSUME CamInv, ShowInv, configured
  PROVE  ShowInv'
<1> DEFINE v == cam_ctrl.vblank
<1>1. /\ cam_op = "configure" /\ cam_todo = <<>> /\ cam_op' = "start"
      /\ cam_max' = ExposureMax(v) /\ cam_failed' = FALSE
      /\ UNCHANGED <<cam_probe, cam_on, cam_rpm, cam_ctrl, cam_regs, cam_streaming>>
  BY DEF configured
<1>2. Sized
  BY <1>1 DEF ShowInv, AtConfigure
<1>3. /\ ExposureMax(v) \in Int /\ cam_ctrl.exposure \in Int
      /\ ~cam_streaming
  BY <1>1, CamConsts DEF ShowInv, CamTyped, CtrlRecs, CamInv
<1>4. CASE Clamped(v)
  <2>1. cam_todo' = <<Clamp(v), Frame(v), Write("exposure", cam_ctrl.exposure), Turn, Stream>>
    BY <1>4, StartScript DEF configured
  <2>2. AtStart'
    BY <1>1, <1>2, <1>3, <2>1 DEF AtStart, Sized, Standby, Clamp, Frame, Turn, Stream
  <2> QED
    BY <1>1, <1>3, <2>2
       DEF ShowInv, CamTyped, CamPowered, Held, AtRest, AtConfigure, AtCtrl, AtStop,
           Quiet, Showing, Standby
<1>5. CASE ~Clamped(v)
  <2>1. cam_todo' = <<Frame(v), Write("exposure", cam_ctrl.exposure), Turn, Stream>>
    BY <1>5, StartScript DEF configured
  <2>2. FitsMax'
    BY <1>1, <1>3, <1>5 DEF FitsMax, Clamped
  <2>3. AtStart'
    BY <1>1, <1>2, <1>3, <2>1, <2>2 DEF AtStart, Sized, Standby, Clamp, Frame, Turn, Stream
  <2> QED
    BY <1>1, <1>3, <2>3
       DEF ShowInv, CamTyped, CamPowered, Held, AtRest, AtConfigure, AtCtrl, AtStop,
           Quiet, Showing, Standby
<1> QED
  BY <1>4, <1>5

\* A stop, and the end of each call.
LEMMA StreamsEnd ==
  ASSUME CamInv, ShowInv, imx132_disable_streams
  PROVE  ShowInv'
<1>1. /\ cam_op = "none" /\ cam_op' = "stop" /\ cam_streaming /\ cam_streaming' = FALSE
      /\ cam_todo' = <<Attempt("mode", "standby")>>
      /\ UNCHANGED <<cam_probe, cam_on, cam_rpm, cam_ctrl, cam_max, cam_regs, cam_failed>>
  BY DEF imx132_disable_streams, cam_vals
<1>2. ~cam_failed => FitsMax /\ ShowsFrame /\ ShowsExposure
  BY <1>1 DEF ShowInv, AtRest, Showing
<1>3. AtStop'
  BY <1>1, <1>2 DEF AtStop, FitsMax, ShowsFrame, ShowsExposure
<1> QED
  BY <1>1, <1>3
     DEF ShowInv, CamTyped, CamPowered, Held, AtRest, AtConfigure, AtStart, AtCtrl,
         Quiet, Showing, Standby

\* The end of each call.
LEMMA CallReturns ==
  ASSUME CamInv, ShowInv, call_returns
  PROVE  ShowInv'
<1>1. /\ cam_op \in {"start", "stop", "ctrl"} /\ cam_todo = <<>> /\ cam_op' = "none"
      /\ cam_streaming' = (cam_streaming \/ cam_op = "start")
      /\ UNCHANGED <<cam_probe, cam_on, cam_ctrl, cam_max, cam_regs, cam_failed>>
  BY DEF call_returns, cam_vals
<1>2. cam_rpm'.active = cam_rpm.active /\ cam_rpm.active
  BY <1>1 DEF CamInv, RPM, call_returns, ShowInv, CamPowered, Held
<1>3. ~cam_failed => FitsMax
  BY <1>1 DEF ShowInv, AtStart, AtCtrl, AtStop
<1>4. CamTyped' /\ CamPowered' /\ AtRest'
  BY <1>1, <1>2, <1>3 DEF ShowInv, CamTyped, CamPowered, Standby, AtRest, FitsMax
<1>5. Quiet'
  BY <1>1 DEF ShowInv, Quiet, AtStop, Standby
<1>6. Showing'
  <2> SUFFICES ASSUME cam_streaming', ~cam_failed
               PROVE  /\ ~Standby /\ cam_regs.vendor /\ cam_regs.sized
                      /\ ShowsFrame /\ ShowsExposure /\ ShowsFlip
    BY <1>1 DEF Showing, Standby, ShowsFrame, ShowsExposure, ShowsFlip
  <2>1. CASE cam_op = "start"
    BY <1>1, <2>1 DEF ShowInv, AtStart
  <2>2. CASE cam_op # "start"
    BY <1>1, <2>2 DEF ShowInv, Showing
  <2> QED
    BY <2>1, <2>2
<1> QED
  BY <1>1, <1>4, <1>5, <1>6 DEF ShowInv, AtConfigure, AtStart, AtCtrl, AtStop

\* A control that is set: the range moves first, and with it what has to fit.
LEMMA CtrlBegins ==
  ASSUME CamInv, ShowInv, set_ctrl_in_use
  PROVE  ShowInv'
<1>1. PICK c \in DOMAIN cam_ctrl : \E v \in CtrlValues(c) :
         /\ CtrlInput(c, v) /\ InUse
         /\ cam_rpm' = [cam_rpm EXCEPT !.usage = @ + 1]
         /\ cam_op' = "ctrl" /\ cam_todo' = ctrl_writes(c, v)
         /\ UNCHANGED <<cam_probe, cam_on, cam_ctrl, cam_regs, cam_streaming, cam_failed>>
  BY DEF set_ctrl_in_use
<1>2. PICK v \in CtrlValues(c) :
         /\ CtrlInput(c, v) /\ InUse
         /\ cam_rpm' = [cam_rpm EXCEPT !.usage = @ + 1]
         /\ cam_op' = "ctrl" /\ cam_todo' = ctrl_writes(c, v)
         /\ UNCHANGED <<cam_probe, cam_on, cam_ctrl, cam_regs, cam_streaming, cam_failed>>
  BY <1>1
<1>3. /\ cam_op = "none" /\ (~cam_failed => FitsMax) /\ Registered
      /\ cam_max' = IF c = "vblank" THEN ExposureMax(v) ELSE cam_max
      /\ cam_rpm.active
  BY <1>2 DEF CtrlInput, ShowInv, AtRest, InUse
<1>4. /\ cam_ctrl.vblank \in CamBlankings /\ cam_ctrl.exposure \in Int /\ cam_ctrl.flip \in BOOLEAN
      /\ ExposureMax(cam_ctrl.vblank) \in Int /\ 1 <= ExposureMax(cam_ctrl.vblank) /\ cam_max \in Int
  BY CamConsts DEF ShowInv, CamTyped, CtrlRecs
<1>5. c \in {"vblank", "exposure", "flip"}
  BY DEF ShowInv, CamTyped, CtrlRecs
<1>6. cam_rpm'.active
  BY <1>2, <1>3 DEF CamInv, RPM
<1>7. AtCtrl' /\ cam_max' \in Int
  <2>0. 0 \in Int /\ TRUE \in BOOLEAN /\ VBlankDefault \in CamBlankings
    BY CamConsts
  <2>1. CASE c = "vblank"
    <3>1. v \in CamBlankings
      BY <1>2, <2>1 DEF CtrlValues, CamBlankings
    <3>2. ExposureMax(v) \in Int
      BY <3>1, CamConsts
    <3>3. cam_todo' = IF Clamped(v) THEN <<Clamp(v), Frame(v)>> ELSE <<Frame(v)>>
      BY <1>2, <2>1, VblankScript DEF ctrl_writes
    <3>4. CASE Clamped(v)
      <4>1. cam_todo' = <<Clamp(v), Frame(v)>>
        BY <3>3, <3>4
      <4>2. ~cam_failed' => /\ cam_max' = ExposureMax(v) /\ cam_max' < cam_ctrl'.exposure
                            /\ cam_ctrl'.exposure <= ExposureMax(cam_ctrl'.vblank)
        BY <1>2, <1>3, <1>4, <2>1, <3>2, <3>4 DEF Clamped, FitsMax
      <4> QED
        BY <1>3, <2>0, <2>1, <3>1, <3>2, <4>1, <4>2 DEF AtCtrl, Clamp, Frame
    <3>5. CASE ~Clamped(v)
      <4>1. cam_todo' = <<Frame(v)>>
        BY <3>3, <3>5
      <4>2. ~cam_failed' => /\ cam_max' = ExposureMax(v) /\ cam_ctrl'.exposure <= cam_max'
                            /\ cam_ctrl'.exposure <= ExposureMax(cam_ctrl'.vblank)
        BY <1>2, <1>3, <1>4, <2>1, <3>2, <3>5 DEF Clamped, FitsMax
      <4> QED
        BY <1>3, <2>0, <2>1, <3>1, <3>2, <4>1, <4>2 DEF AtCtrl, Clamp, Frame
    <3> QED
      BY <3>4, <3>5
  <2>2. CASE c = "exposure"
    <3>1. v \in {1, cam_max}
      BY <1>2, <2>2 DEF CtrlValues
    <3>2. v \in Int /\ (~cam_failed => v <= cam_max)
      BY <1>3, <1>4, <3>1 DEF FitsMax
    <3>3. cam_todo' = <<Write("exposure", v)>>
      BY <1>2, <2>2 DEF ctrl_writes
    <3>4. ~cam_failed' => FitsMax' /\ v <= cam_max'
      BY <1>2, <1>3, <2>2, <3>2 DEF FitsMax
    <3> QED
      BY <1>3, <1>4, <2>0, <2>2, <3>2, <3>3, <3>4 DEF AtCtrl
  <2>3. CASE c = "flip"
    <3>1. v \in BOOLEAN
      BY <1>2, <2>3 DEF CtrlValues
    <3>2. cam_todo' = <<Write("flip", v)>>
      BY <1>2, <2>3 DEF ctrl_writes
    <3>3. ~cam_failed' => FitsMax'
      BY <1>2, <1>3, <2>3 DEF FitsMax
    <3> QED
      BY <1>3, <1>4, <2>0, <2>3, <3>1, <3>2, <3>3 DEF AtCtrl
  <2> QED
    BY <1>5, <2>1, <2>2, <2>3
<1>8. CamTyped' /\ CamPowered' /\ Quiet' /\ Showing'
  BY <1>2, <1>3, <1>6, <1>7
     DEF ShowInv, CamTyped, CamPowered, Registered, Quiet, Showing, Standby, ShowsFrame, ShowsExposure,
         ShowsFlip
<1> QED
  BY <1>2, <1>7, <1>8 DEF ShowInv, AtRest, AtConfigure, AtStart, AtStop

\* A control that is set while the sensor is not in use is written by the next start.
LEMMA CtrlIdle ==
  ASSUME CamInv, ShowInv, set_ctrl_idle
  PROVE  ShowInv'
<1>1. PICK c \in DOMAIN cam_ctrl : \E v \in CtrlValues(c) :
         /\ CtrlInput(c, v) /\ ~InUse
         /\ cam_ctrl' = IF c = "vblank" /\ Clamped(v)
                        THEN [cam_ctrl EXCEPT !.vblank = v, !.exposure = ExposureMax(v)]
                        ELSE [cam_ctrl EXCEPT ![c] = v]
         /\ UNCHANGED <<cam_probe, cam_on, cam_rpm, cam_regs, cam_call, cam_streaming, cam_failed>>
  BY DEF set_ctrl_idle
<1>2. PICK v \in CtrlValues(c) :
         /\ CtrlInput(c, v) /\ ~InUse
         /\ cam_ctrl' = IF c = "vblank" /\ Clamped(v)
                        THEN [cam_ctrl EXCEPT !.vblank = v, !.exposure = ExposureMax(v)]
                        ELSE [cam_ctrl EXCEPT ![c] = v]
         /\ UNCHANGED <<cam_probe, cam_on, cam_rpm, cam_regs, cam_call, cam_streaming, cam_failed>>
  BY <1>1
<1>3. /\ cam_op = "none" /\ cam_op' = "none" /\ (~cam_failed => FitsMax) /\ Registered
      /\ cam_max' = IF c = "vblank" THEN ExposureMax(v) ELSE cam_max
  BY <1>2 DEF CtrlInput, ShowInv, AtRest, cam_call
<1>4. /\ cam_ctrl.vblank \in CamBlankings /\ cam_ctrl.exposure \in Int /\ cam_ctrl.flip \in BOOLEAN
      /\ ExposureMax(cam_ctrl.vblank) \in Int /\ 1 <= ExposureMax(cam_ctrl.vblank) /\ cam_max \in Int
      /\ cam_ctrl \in CtrlRecs
  BY CamConsts DEF ShowInv, CamTyped, CtrlRecs
<1>5. c \in {"vblank", "exposure", "flip"}
  BY DEF ShowInv, CamTyped, CtrlRecs
<1>6. ~cam_streaming
  <2> SUFFICES ASSUME cam_streaming PROVE FALSE
    OBVIOUS
  <2>1. cam_rpm.active /\ cam_rpm.enabled
    BY <1>3 DEF CamInv, ShowInv, CamPowered, Held, Registered, Managed
  <2>2. cam_rpm.usage > 0
    BY <1>3 DEF CamInv, One
  <2> QED
    BY <1>2, <2>1, <2>2 DEF InUse
<1>7. cam_ctrl' \in CtrlRecs /\ cam_max' \in Int /\ (~cam_failed => FitsMax')
  <2>1. CASE c = "vblank"
    <3>1. v \in CamBlankings /\ ExposureMax(v) \in Int
      BY <1>2, <2>1, CamConsts DEF CtrlValues, CamBlankings
    <3>2. CASE Clamped(v)
      <4> DEFINE m == ExposureMax(v)
      <4>1. cam_ctrl' = [cam_ctrl EXCEPT !.vblank = v, !.exposure = m] /\ m \in Int /\ cam_max' = m
        BY <1>2, <1>3, <2>1, <3>1, <3>2
      <4> HIDE DEF m
      <4>2. cam_ctrl' \in CtrlRecs /\ cam_ctrl'.vblank = v /\ cam_ctrl'.exposure = m
        BY <1>4, <3>1, <4>1 DEF CtrlRecs
      <4> QED
        BY <4>1, <4>2 DEF FitsMax, m
    <3>3. CASE ~Clamped(v)
      <4>1. cam_ctrl' = [cam_ctrl EXCEPT !.vblank = v]
        BY <1>2, <2>1, <3>3
      <4>2. cam_ctrl' \in CtrlRecs /\ cam_ctrl'.vblank = v /\ cam_ctrl'.exposure = cam_ctrl.exposure
        BY <1>4, <3>1, <4>1 DEF CtrlRecs
      <4> QED
        BY <1>3, <1>4, <2>1, <3>1, <3>3, <4>2 DEF FitsMax, Clamped
    <3> QED
      BY <3>2, <3>3
  <2>2. CASE c = "exposure"
    <3>1. v \in {1, cam_max}
      BY <1>2, <2>2 DEF CtrlValues
    <3>2. v \in Int /\ (~cam_failed => v <= cam_max)
      BY <1>3, <1>4, <3>1 DEF FitsMax
    <3>3. cam_ctrl' = [cam_ctrl EXCEPT !.exposure = v]
      BY <1>2, <2>2
    <3>4. cam_ctrl' \in CtrlRecs /\ cam_ctrl'.exposure = v /\ cam_ctrl'.vblank = cam_ctrl.vblank
      BY <1>4, <3>2, <3>3 DEF CtrlRecs
    <3> QED
      BY <1>3, <1>4, <2>2, <3>2, <3>4 DEF FitsMax
  <2>3. CASE c = "flip"
    <3>1. v \in BOOLEAN
      BY <1>2, <2>3 DEF CtrlValues
    <3>2. cam_ctrl' = [cam_ctrl EXCEPT !.flip = v]
      BY <1>2, <2>3
    <3>3. cam_ctrl' \in CtrlRecs /\ cam_ctrl'.exposure = cam_ctrl.exposure /\ cam_ctrl'.vblank = cam_ctrl.vblank
      BY <1>4, <3>1, <3>2 DEF CtrlRecs
    <3> QED
      BY <1>3, <1>4, <2>3, <3>3 DEF FitsMax
  <2> QED
    BY <1>5, <2>1, <2>2, <2>3
<1>8. CamTyped' /\ CamPowered' /\ Quiet' /\ Showing' /\ AtRest'
  BY <1>2, <1>3, <1>6, <1>7
     DEF ShowInv, CamTyped, CamPowered, Held, Quiet, Showing, Standby, AtRest, cam_call
<1> QED
  BY <1>3, <1>8 DEF ShowInv, AtConfigure, AtStart, AtCtrl, AtStop

\* Probe, remove and autosuspend: there is no call, and a sensor that is off is
\* in standby.
LEMMA CamBindShows ==
  ASSUME CamInv, ShowInv,
         cam_probe_begins \/ cam_probe_step \/ cam_probe_fails \/ cam_probe_ends \/ imx132_remove
           \/ autosuspend \/ enable_streams_no_power
  PROVE  ShowInv'
<1> USE DEF AtRest, AtConfigure, AtStart, AtCtrl, AtStop, Quiet, Showing, Standby, FitsMax,
            cam_vals, cam_call
<1>1. CASE cam_probe_begins
  <2>1. /\ cam_op = "none" /\ cam_op' = "none" /\ ~cam_streaming /\ ~cam_streaming' /\ cam_on = {}
        /\ cam_probe' = "power" /\ cam_on' = {} /\ cam_regs' = cam_regs
        /\ cam_ctrl' = CamDefaults /\ cam_max' = ExposureMax(VBlankDefault) /\ cam_failed' = FALSE
    BY <1>1 DEF cam_probe_begins, CamInv, Registered, Stages
  <2>2. /\ CamDefaults \in CtrlRecs /\ CamDefaults.vblank = VBlankDefault
        /\ CamDefaults.exposure = EXPOSURE_DEFAULT
    BY CamConsts DEF CamDefaults, CtrlRecs
  <2>3. CamTyped' /\ CamPowered' /\ AtRest'
    BY <2>1, <2>2, CamConsts DEF ShowInv, CamTyped, CamPowered, Held
  <2> QED
    BY <2>1, <2>3 DEF ShowInv, CamPowered
<1>2. CASE cam_probe_step
  <2>1. \/ cam_probe = "power" /\ cam_probe' = "identify"
        \/ cam_probe = "identify" /\ cam_probe' = "ctrls"
        \/ cam_probe = "ctrls" /\ cam_probe' = "entity"
        \/ cam_probe = "entity" /\ cam_probe' = "subdev"
        \/ cam_probe = "subdev" /\ cam_probe' = "async"
        \/ cam_probe = "async" /\ cam_probe' = "registered"
    BY <1>2, StageOrder DEF cam_probe_step
  <2>2. /\ cam_op = "none" /\ cam_op' = "none" /\ ~cam_streaming /\ ~cam_streaming'
        /\ UNCHANGED <<cam_ctrl, cam_max, cam_regs, cam_failed>>
    BY <1>2, <2>1 DEF cam_probe_step, CamInv, Registered
  <2>3. AllOn # {}
    BY DEF AllOn
  <2>4. CamPowered'
    <3>1. CASE cam_probe = "power"
      BY <1>2, <2>1, <2>2, <2>3, <3>1 DEF cam_probe_step, imx132_power_on, CamPowered, Held
    <3>2. CASE cam_probe = "subdev"
      BY <1>2, <2>1, <2>2, <2>3, <3>2 DEF cam_probe_step, CamPowered, Held, ShowInv
    <3>3. CASE cam_probe \notin {"power", "subdev"}
      BY <1>2, <2>1, <2>2, <2>3, <3>3 DEF cam_probe_step, CamPowered, Held, ShowInv
    <3> QED
      BY <3>1, <3>2, <3>3
  <2> QED
    BY <2>2, <2>4 DEF ShowInv, CamTyped
<1>3. CASE cam_probe_fails
  <2>1. cam_probe \in Probing
    <3>1. PICK i \in 1 .. Len(Stages) - 1 : cam_probe = Stages[i]
      BY <1>3 DEF cam_probe_fails
    <3> QED
      BY <3>1, StageOrder DEF Probing
  <2>2. /\ cam_op = "none" /\ cam_op' = "none" /\ ~cam_streaming /\ ~cam_streaming'
        /\ UNCHANGED <<cam_ctrl, cam_max, cam_failed>> /\ cam_probe' = "unbound"
    BY <1>3, <2>1 DEF cam_probe_fails, CamInv, Registered, Probing
  <2>3. cam_regs' \in RegRecs /\ cam_regs'.mode = "standby"
    <3>1. CASE cam_probe = "power"
      BY <1>3, <3>1, Unwinds DEF cam_probe_fails, CamInv, ShowInv, CamTyped, CamPowered
    <3>2. CASE cam_probe # "power"
      <4>1. cam_regs' = ResetRegs
        BY <1>3, <2>1, <3>2, Unwinds DEF cam_probe_fails, imx132_power_off, Probing
      <4> QED
        BY <4>1, ResetTyped
    <3> QED
      BY <3>1, <3>2
  <2> QED
    BY <2>2, <2>3 DEF ShowInv, CamTyped, CamPowered, Held
<1>4. CASE cam_probe_ends
  <2>1. cam_rpm'.active = cam_rpm.active
    BY <1>4 DEF cam_probe_ends, CamInv, RPM
  <2> QED
    BY <1>4, <2>1
       DEF cam_probe_ends, ShowInv, CamTyped, CamPowered, Held, ShowsFrame, ShowsExposure, ShowsFlip,
           Sized, Clamp, Frame, Turn, Stream
<1>5. CASE imx132_remove
  <2>1. /\ cam_op = "none" /\ cam_op' = "none" /\ ~cam_streaming /\ ~cam_streaming'
        /\ UNCHANGED <<cam_ctrl, cam_max, cam_failed>> /\ cam_probe' = "unbound"
    BY <1>5 DEF imx132_remove
  <2>2. cam_regs' \in RegRecs /\ cam_regs'.mode = "standby"
    <3>1. CASE cam_rpm.active
      BY <1>5, <3>1, ResetTyped DEF imx132_remove, imx132_power_off
    <3>2. CASE ~cam_rpm.active
      BY <1>5, <3>2 DEF imx132_remove, CamInv, Managed, ShowInv, CamTyped, CamPowered
    <3> QED
      BY <3>1, <3>2
  <2> QED
    BY <2>1, <2>2 DEF ShowInv, CamTyped, CamPowered, Held
<1>6. CASE autosuspend
  <2>1. /\ cam_op = "none" /\ ~cam_streaming /\ cam_probe = "bound"
    BY <1>6 DEF autosuspend, CamInv, Managed, One
  <2>2. cam_regs' = ResetRegs /\ cam_on' = {} /\ cam_rpm'.active = FALSE
        /\ UNCHANGED <<cam_ctrl, cam_max, cam_failed, cam_op, cam_streaming, cam_probe>>
    BY <1>6 DEF autosuspend, imx132_power_off, CamInv, RPM
  <2> QED
    BY <2>1, <2>2, ResetTyped DEF ShowInv, CamTyped, CamPowered, Held
<1>7. CASE enable_streams_no_power
  BY <1>7 DEF enable_streams_no_power, ShowInv, CamTyped, CamPowered, Held, ShowsFrame, ShowsExposure,
              ShowsFlip, Sized, Clamp, Frame, Turn, Stream
<1> QED
  BY <1>1, <1>2, <1>3, <1>4, <1>5, <1>6, <1>7

\* Init and each step keep both invariants.
LEMMA ShowInitInv == CamInit => ShowInv
<1> SUFFICES ASSUME CamInit PROVE ShowInv
  OBVIOUS
<1>1. /\ CamDefaults \in CtrlRecs /\ CamDefaults.vblank = VBlankDefault
      /\ CamDefaults.exposure = EXPOSURE_DEFAULT
  BY CamConsts DEF CamDefaults, CtrlRecs
<1>2. CamTyped /\ AtRest
  BY <1>1, ResetTyped, CamConsts DEF CamInit, CamTyped, AtRest, FitsMax
<1>3. CamPowered /\ Quiet
  BY ResetTyped DEF CamInit, CamPowered, Held, Quiet, Standby
<1> QED
  BY <1>2, <1>3 DEF CamInit, ShowInv, AtConfigure, AtStart, AtCtrl, AtStop, Showing

\* Every step keeps what the stream shows.
LEMMA ShowStep == CamInv /\ ShowInv /\ [CamNext]_cam_vars => ShowInv'
<1> SUFFICES ASSUME CamInv, ShowInv, [CamNext]_cam_vars PROVE ShowInv'
  OBVIOUS
<1>1. CASE cam_writes
  <2>1. cam_op \in {"configure", "start", "stop", "ctrl"}
    BY <1>1 DEF cam_writes, CamInv, ShowInv, CamTyped
  <2> QED
    BY <1>1, <2>1, ConfigureWrites, StartWrites, CtrlWrites, StopWrites
<1>2. CASE UNCHANGED cam_vars
  BY <1>2 DEF cam_vars, cam_vals, cam_call, ShowInv, CamTyped, CamPowered, Held, AtRest, AtConfigure,
              AtStart, AtCtrl, AtStop, Quiet, Showing, Standby, FitsMax, ShowsFrame, ShowsExposure,
              ShowsFlip, Sized, Clamp, Frame, Turn, Stream
<1> QED
  BY <1>1, <1>2, WriteFails, StreamsBegin, SetUpBegins, StreamsEnd, CallReturns, CtrlBegins,
     CtrlIdle, CamBindShows DEF CamNext

\* imx132_set_ctrl() and the calls of a stream: the sensor never streams with
\* an exposure longer than its frame, and a stream shows what the controls say.
THEOREM CamShowsAlways == CamSpec => []CamShows
<1>1. CamInv /\ ShowInv => CamExposureFits
  <2> SUFFICES ASSUME CamInv, ShowInv, ~Standby, ~cam_failed
               PROVE  cam_regs.exposure <= cam_regs.frame_length - EXPOSURE_MARGIN
    BY DEF CamExposureFits, Standby
  <2>1. ShowsFrame /\ ShowsExposure
    BY DEF ShowInv, CamTyped, AtConfigure, AtStart, AtStop, Quiet, Showing
  <2>2. /\ cam_ctrl.vblank \in CamBlankings /\ cam_ctrl.exposure \in Int /\ cam_max \in Int
        /\ cam_regs.frame_length \in Int
    BY DEF ShowInv, CamTyped, CtrlRecs, RegRecs
  <2>3. cam_ctrl.exposure <= ExposureMax(cam_ctrl.vblank)
    <3>1. CASE FitsMax
      BY <3>1 DEF FitsMax
    <3>2. CASE cam_op = "none"
      BY <3>1, <3>2 DEF ShowInv, AtRest
    <3>3. CASE cam_op = "start"
      BY <3>1, <3>3 DEF ShowInv, AtStart
    <3>4. CASE cam_op = "stop"
      BY <3>1, <3>4 DEF ShowInv, AtStop
    <3>5. CASE cam_op = "configure"
      BY <3>5 DEF CamInv, ShowInv, Quiet
    <3>6. CASE cam_op = "ctrl"
      <4>1. PICK v \in CamBlankings, e \in Int, f \in BOOLEAN :
              \/ /\ cam_max = ExposureMax(v) /\ cam_max < cam_ctrl.exposure
                 /\ cam_ctrl.exposure <= ExposureMax(cam_ctrl.vblank)
              \/ /\ cam_max = ExposureMax(v) /\ cam_ctrl.exposure <= cam_max
                 /\ cam_ctrl.exposure <= ExposureMax(cam_ctrl.vblank)
              \/ FitsMax
        BY <3>6 DEF ShowInv, AtCtrl
      <4> QED
        BY <3>1, <4>1
    <3> QED
      BY <3>2, <3>3, <3>4, <3>5, <3>6 DEF ShowInv, CamTyped
  <2> QED
    BY <2>1, <2>2, <2>3, CamConsts DEF ShowsFrame, ShowsExposure, ExposureMax
<1>2. CamInv /\ ShowInv => CamAsSet
  <2> SUFFICES ASSUME CamInv, ShowInv, cam_streaming, cam_op = "none", ~cam_failed
               PROVE  /\ cam_on = AllOn /\ cam_rpm.active /\ cam_rpm.usage > 0
                      /\ cam_regs = [mode |-> "streaming", vendor |-> TRUE, sized |-> TRUE,
                                     frame_length |-> HEIGHT + cam_ctrl.vblank,
                                     exposure |-> cam_ctrl.exposure, flip |-> cam_ctrl.flip]
    BY DEF CamAsSet
  <2>1. cam_on = AllOn /\ cam_rpm.active /\ cam_rpm.usage > 0
    BY DEF CamInv, Registered, One, ShowInv, CamPowered, Held
  <2>2. cam_regs \in RegRecs /\ ~Standby /\ cam_regs.vendor /\ cam_regs.sized
        /\ ShowsFrame /\ ShowsExposure /\ ShowsFlip
    BY DEF ShowInv, CamTyped, Showing
  <2>3. cam_regs = [mode |-> cam_regs.mode, vendor |-> cam_regs.vendor, sized |-> cam_regs.sized,
                    frame_length |-> cam_regs.frame_length, exposure |-> cam_regs.exposure,
                    flip |-> cam_regs.flip]
    BY <2>2 DEF RegRecs
  <2>4. cam_regs.mode = "streaming" /\ cam_regs.vendor = TRUE /\ cam_regs.sized = TRUE
    BY <2>2 DEF RegRecs, Standby
  <2> QED
    BY <2>1, <2>2, <2>3, <2>4 DEF ShowsFrame, ShowsExposure, ShowsFlip
<1>3. CamInv /\ ShowInv => CamShows
  BY <1>1, <1>2 DEF CamShows
<1> QED
  BY <1>3, CamInitInv, CamStep, ShowInitInv, ShowStep, PTL DEF CamSpec

-----------------------------------------------------------------------------
(* The clocks of the sound card's interfaces, for any set of links and any *)
(* number of refused requests.                                             *)

\* What the steps keep: the clocks of each interface are those two, a started
\* link is a back end of this card, and a link with a codec is one from the
\* start, so that its port drives word select.
CardInv ==
  /\ card_links \subseteq CardLinks /\ card_open \subseteq card_links
  /\ card_clks \in [0 .. 3 -> SUBSET {"osr", "bit"}]
  /\ card_ws \in [CardLinks -> {"unset", "internal", "external"}]
  /\ card_faults \in Nat
  /\ card_open \subseteq DOMAIN card_ops
  /\ \A l \in DOMAIN card_ops : l[2] => card_ops[l] = "be"
  /\ CardClocked

\* Every link has one of the four interfaces or none.
LEMMA IndexRange == ASSUME NEW l PROVE msm8974_mi2s_index(l) \in -1 .. 3
<1>1. msm8974_mi2s_index(l) \in {-1, 0, 1, 2, 3}
  BY Zenon DEF msm8974_mi2s_index
<1> QED BY <1>1

\* A refused request is counted, so none is outstanding when the count is 0.
LEMMA RefusedCounts ==
  ASSUME card_faults \in Nat, Refused
  PROVE  card_faults' \in Nat /\ card_faults' # 0
BY DEF Refused

\* The links are examined once, before any is started.
LEMMA CardProbeStep == ASSUME CardInv, msm8974_snd_platform_probe PROVE CardInv'
<1> USE DEF CardInv, msm8974_snd_platform_probe
<1>1. card_open = {} /\ card_open' = {}
  BY DEF CardInv, msm8974_snd_platform_probe
<1>2. ASSUME NEW l \in DOMAIN card_ops', l[2] PROVE card_ops'[l] = "be"
  BY <1>2, Zenon DEF msm8974_add_ops
<1>3. CardClocked'
  BY <1>1 DEF CardClocked
<1> QED BY <1>1, <1>2, <1>3

\* A stream starts both clocks of its interface, and its port's word select is
\* what its link calls for unless the format was refused.
LEMMA StartupStep == ASSUME CardInv, msm8974_snd_startup PROVE CardInv'
<1>1. PICK l \in card_links \ card_open :
        /\ BackEnd(l)
        /\ card_open' = card_open \union {l}
        /\ IF msm8974_mi2s_index(l) < 0
           THEN UNCHANGED <<card_clks, card_cut, card_ws, card_faults>>
           ELSE /\ card_clks' = [card_clks EXCEPT ![msm8974_mi2s_index(l)] = {"osr", "bit"}]
                /\ card_cut' = card_cut \ {msm8974_mi2s_index(l)}
                /\ \/ card_ws' = [card_ws EXCEPT ![l] = ws_of(l)] /\ UNCHANGED card_faults
                   \/ Refused /\ \E w \in ws_refused(l) : card_ws' = [card_ws EXCEPT ![l] = w]
        /\ UNCHANGED <<card_links, card_ops, codecless_ws_internal>>
  BY DEF msm8974_snd_startup
<1> DEFINE i == msm8974_mi2s_index(l)
<1>2. i \in -1 .. 3 /\ l \in CardLinks /\ l \in DOMAIN card_ops
  BY <1>1, IndexRange DEF CardInv, BackEnd
<1>3. /\ card_faults' \in Nat
      /\ card_ws' \in [CardLinks -> {"unset", "internal", "external"}]
  BY <1>1, <1>2, RefusedCounts DEF CardInv, ws_of, ws_refused
<1>4. card_clks' \in [0 .. 3 -> SUBSET {"osr", "bit"}]
  BY <1>1, <1>2 DEF CardInv
<1>5. ASSUME NEW j \in 0 .. 3,
             NEW users, users = {m \in card_open' : msm8974_mi2s_index(m) = j}
      PROVE  /\ users # {} /\ j \notin card_cut' => card_clks'[j] = {"osr", "bit"}
             /\ users = {} => card_clks'[j] = {}
  <2>1. CASE j = i
    BY <1>1, <1>2, <1>5, <2>1 DEF CardInv
  <2>2. CASE j # i
    <3>1. users = {m \in card_open : msm8974_mi2s_index(m) = j}
      BY <1>1, <1>5, <2>2
    <3>2. card_clks'[j] = card_clks[j] /\ (j \in card_cut' <=> j \in card_cut)
      BY <1>1, <1>2, <2>2 DEF CardInv
    <3> QED BY <3>1, <3>2 DEF CardInv, CardClocked
  <2> QED BY <2>1, <2>2
<1>6. ASSUME NEW m \in card_open', msm8974_mi2s_index(m) >= 0, m[2], card_faults' = 0
      PROVE  card_ws'[m] = "internal"
  <2>1. card_faults = 0 /\ (i >= 0 => card_ws' = [card_ws EXCEPT ![l] = ws_of(l)])
    BY <1>1, <1>2, <1>6, RefusedCounts DEF CardInv
  <2>2. CASE m = l
    <3>1. ws_of(l) = "internal"
      BY <1>2, <1>6, <2>2 DEF CardInv, ws_of
    <3> QED BY <1>2, <1>6, <2>1, <2>2, <3>1 DEF CardInv
  <2>3. CASE m # l
    <3>1. m \in card_open /\ card_ws[m] = "internal"
      BY <1>1, <1>6, <2>1, <2>3 DEF CardInv, CardClocked
    <3> QED BY <1>1, <1>2, <2>1, <2>3, <3>1 DEF CardInv
  <2> QED BY <2>2, <2>3
<1>7. CardClocked'
  BY <1>5, <1>6 DEF CardClocked
<1> QED BY <1>1, <1>2, <1>3, <1>4, <1>7 DEF CardInv

\* With no clock yet, nothing is left of a start that is refused.
LEMMA OsrRefusedStep == ASSUME CardInv, startup_osr_refused PROVE CardInv'
<1>1. card_faults' \in Nat /\ card_faults' # 0
  BY RefusedCounts DEF CardInv, startup_osr_refused
<1> QED BY <1>1 DEF CardInv, startup_osr_refused, CardClocked

\* The clock that was started is stopped; next to another stream, which it was
\* shared with, that stream has lost it.
LEMMA BitRefusedStep == ASSUME CardInv, startup_bit_refused PROVE CardInv'
<1>1. PICK l \in card_links \ card_open :
        /\ msm8974_mi2s_index(l) >= 0
        /\ Refused
        /\ card_clks' = [card_clks EXCEPT ![msm8974_mi2s_index(l)] =
                           bit_refused(card_clks[msm8974_mi2s_index(l)])]
        /\ card_cut' = IF Sharing(l) = {} THEN card_cut
                       ELSE card_cut \union {msm8974_mi2s_index(l)}
        /\ UNCHANGED <<card_links, card_ops, card_open, card_ws, codecless_ws_internal>>
  BY DEF startup_bit_refused
<1> DEFINE i == msm8974_mi2s_index(l)
<1>2. i \in 0 .. 3
  BY <1>1, IndexRange
<1>3. card_faults' \in Nat /\ card_faults' # 0
  BY <1>1, RefusedCounts DEF CardInv
<1>4. card_clks' \in [0 .. 3 -> SUBSET {"osr", "bit"}]
  BY <1>1, <1>2 DEF CardInv, bit_refused
<1>5. ASSUME NEW j \in 0 .. 3,
             NEW users, users = {m \in card_open' : msm8974_mi2s_index(m) = j}
      PROVE  /\ users # {} /\ j \notin card_cut' => card_clks'[j] = {"osr", "bit"}
             /\ users = {} => card_clks'[j] = {}
  <2>1. users = {m \in card_open : msm8974_mi2s_index(m) = j}
    BY <1>1, <1>5
  <2>2. CASE j = i
    <3>1. users = Sharing(l)
      BY <2>1, <2>2 DEF Sharing
    <3>2. users = {} => card_clks[i] = {}
      BY <1>2, <2>1, <2>2 DEF CardInv, CardClocked
    <3>3. card_clks'[i] = card_clks[i] \ {"osr"}
      BY <1>1, <1>2 DEF CardInv, bit_refused
    <3> QED BY <1>1, <2>2, <3>1, <3>2, <3>3
  <2>3. CASE j # i
    <3>1. card_clks'[j] = card_clks[j] /\ (j \in card_cut' <=> j \in card_cut)
      BY <1>1, <1>2, <2>3 DEF CardInv
    <3> QED BY <2>1, <3>1 DEF CardInv, CardClocked
  <2> QED BY <2>2, <2>3
<1>6. CardClocked'
  BY <1>3, <1>5 DEF CardClocked
<1> QED BY <1>1, <1>3, <1>4, <1>6 DEF CardInv

\* The clocks stop with the stream; one that shared them is left without.
LEMMA ShutdownStep == ASSUME CardInv, msm8974_snd_shutdown PROVE CardInv'
<1>1. PICK l \in card_open :
        /\ card_open' = card_open \ {l}
        /\ IF msm8974_mi2s_index(l) < 0 THEN UNCHANGED <<card_clks, card_cut>>
           ELSE /\ card_clks' = [card_clks EXCEPT ![msm8974_mi2s_index(l)] = {}]
                /\ card_cut' = IF Sharing(l) = {l} THEN card_cut \ {msm8974_mi2s_index(l)}
                               ELSE card_cut \union {msm8974_mi2s_index(l)}
        /\ UNCHANGED <<card_links, card_ops, card_ws, codecless_ws_internal, card_faults>>
  BY DEF msm8974_snd_shutdown
<1> DEFINE i == msm8974_mi2s_index(l)
<1>2. i \in -1 .. 3
  BY IndexRange
<1>3. card_clks' \in [0 .. 3 -> SUBSET {"osr", "bit"}]
  BY <1>1, <1>2 DEF CardInv
<1>4. ASSUME NEW j \in 0 .. 3,
             NEW users, users = {m \in card_open' : msm8974_mi2s_index(m) = j}
      PROVE  /\ users # {} /\ j \notin card_cut' => card_clks'[j] = {"osr", "bit"}
             /\ users = {} => card_clks'[j] = {}
  <2>1. CASE j = i
    <3>1. card_clks'[j] = {}
      BY <1>1, <1>2, <2>1 DEF CardInv
    <3>2. users = Sharing(l) \ {l}
      BY <1>1, <1>4, <2>1 DEF Sharing
    <3>3. users # {} => j \in card_cut'
      BY <1>1, <1>2, <2>1, <3>2
    <3> QED BY <3>1, <3>3
  <2>2. CASE j # i
    <3>1. users = {m \in card_open : msm8974_mi2s_index(m) = j}
      BY <1>1, <1>4, <2>2
    <3>2. card_clks'[j] = card_clks[j] /\ (j \in card_cut' <=> j \in card_cut)
      BY <1>1, <1>2, <2>2 DEF CardInv
    <3> QED BY <3>1, <3>2 DEF CardInv, CardClocked
  <2> QED BY <2>1, <2>2
<1>5. ASSUME NEW m \in card_open', msm8974_mi2s_index(m) >= 0, m[2], card_faults' = 0
      PROVE  card_ws'[m] = "internal"
  BY <1>1, <1>5 DEF CardInv, CardClocked
<1>6. CardClocked'
  BY <1>4, <1>5 DEF CardClocked
<1> QED BY <1>1, <1>3, <1>6 DEF CardInv

\* Started streams have their clocks and their word select (CardClocked), for
\* every board, over any startups, shutdowns, refused requests and writes of
\* the parameter.
THEOREM CardClockedAlways == CardSpec => []CardClocked
<1>1. CardInit => CardInv
  BY DEF CardInit, CardInv, CardClocked
<1>2. CardInv /\ [CardNext]_card_vars => CardInv'
  <2> SUFFICES ASSUME CardInv, [CardNext]_card_vars PROVE CardInv'
    OBVIOUS
  <2>1. CASE ws_parameter_written \/ UNCHANGED card_vars
    BY <2>1 DEF CardInv, CardClocked, ws_parameter_written, card_vars
  <2> QED BY <2>1, CardProbeStep, StartupStep, OsrRefusedStep, BitRefusedStep, ShutdownStep
          DEF CardNext
<1>3. CardInv => CardClocked
  BY DEF CardInv
<1> QED BY <1>1, <1>2, <1>3, PTL DEF CardSpec

-----------------------------------------------------------------------------
(* The rate of the L2 cache, for any cores, table, changes and refusals.   *)

\* A set of numbers has a least, and one that is bounded a greatest.
LEMMA LeastOf ==
  ASSUME NEW T \in SUBSET Nat, T # {}
  PROVE  \E x \in T : \A y \in T : x <= y
<1>1. IsWellFoundedOn(OpToRel(<, Nat), Nat)
  BY NatLessThanWellFounded
<1> DEFINE R == OpToRel(<, Nat)
<1>2. \A x, y \in Nat : x < y => <<x, y>> \in R
  BY DEF OpToRel
<1> HIDE DEF R
<1>3. \E x \in T : \A y \in T : ~ (<<y, x>> \in R)
  BY <1>1, WFMin DEF R
<1>4. PICK x \in T : \A y \in T : ~ (<<y, x>> \in R)
  BY <1>3
<1>5. ASSUME NEW y \in T PROVE x <= y
  <2>1. x \in Nat /\ y \in Nat
    OBVIOUS
  <2>2. ~(y < x)
    BY <1>2, <1>4, <2>1
  <2> QED BY <2>1, <2>2
<1> QED BY <1>5

\* The same from the other end.
LEMMA GreatestOf ==
  ASSUME NEW n \in Nat, NEW T \in SUBSET (1 .. n), T # {}
  PROVE  \E x \in T : \A y \in T : y <= x
<1> DEFINE F == {n - x : x \in T}
<1>1. F \in SUBSET Nat /\ F # {}
  <2>1. \A x \in T : n - x \in Nat
    OBVIOUS
  <2> QED BY <2>1
<1>2. PICK f \in F : \A g \in F : f <= g
  BY <1>1, LeastOf
<1>3. PICK x \in T : f = n - x
  BY <1>2
<1>4. ASSUME NEW y \in T PROVE y <= x
  <2>1. n - y \in F
    BY <1>4
  <2>2. n - x <= n - y
    BY <1>2, <1>3, <2>1
  <2>3. x \in 1 .. n /\ y \in 1 .. n
    OBVIOUS
  <2> QED BY <2>2, <2>3
<1> QED BY <1>4

\* The entry krait_l2_target_hz() ends with is the one the documentation names.
LEMMA RateEntry ==
  ASSUME NEW m \in Nat
  PROVE  \E i \in 1 .. Len(L2Map) : l2_rate(m) = L2Map[i][2] /\ EntryFor(i, m)
<1> DEFINE n == Len(L2Map)
           below == {i \in 1 .. n : L2Map[i][1] <= m}
<1>1. n \in Nat /\ 1 \in 1 .. n /\ \A i \in 1 .. n : L2Map[i][1] \in Nat
  BY L2Assumption
<1>2. CASE below = {}
  <2>1. l2_rate(m) = L2Map[1][2]
    BY <1>2 DEF l2_rate
  <2>2. EntryFor(1, m)
    <3>1. ASSUME NEW j \in 2 .. n PROVE L2Map[j][1] > m
      <4>1. j \in 1 .. n /\ j \notin below
        BY <1>1, <1>2, <3>1
      <4> QED BY <1>1, <4>1
    <3> QED BY <3>1 DEF EntryFor
  <2> QED BY <1>1, <2>1, <2>2
<1>3. CASE below # {}
  <2> DEFINE i == CHOOSE i \in below : \A j \in below : j <= i
  <2>1. i \in below /\ \A j \in below : j <= i
    <3>1. below \in SUBSET (1 .. n)
      OBVIOUS
    <3> HIDE DEF below
    <3>2. \E x \in below : \A j \in below : j <= x
      BY <1>1, <1>3, <3>1, GreatestOf
    <3> QED BY <3>2
  <2>2. l2_rate(m) = L2Map[i][2]
    BY <1>3 DEF l2_rate
  <2> HIDE DEF i
  <2>3. i \in 1 .. n /\ L2Map[i][1] <= m
    BY <2>1
  <2>4. ASSUME NEW j \in i + 1 .. n PROVE L2Map[j][1] > m
    <3>1. j \in 1 .. n /\ ~(j <= i)
      BY <1>1, <2>3, <2>4
    <3>2. j \notin below
      BY <2>1, <3>1
    <3> QED BY <1>1, <3>1, <3>2
  <2>5. EntryFor(i, m)
    BY <2>3, <2>4 DEF EntryFor
  <2> QED BY <2>2, <2>3, <2>5
<1> QED BY <1>2, <1>3

-----------------------------------------------------------------------------

L2Typed ==
  /\ l2_pc \in {"unbound", "read", "update", "register", "bound", "cancel"}
  /\ l2_unread \subseteq CPUs /\ l2_scan \subseteq CPUs /\ l2_seen \subseteq CPUs
  /\ l2_khz \in [CPUs -> Nat] /\ cpu_rate \in [CPUs -> Nat] /\ cpu_cur \in [CPUs -> Nat]
  /\ cpu_change \in [CPUs -> {"none", "changed", "notified"}]
  /\ l2_max \in Nat
  /\ cpu_online \subseteq CPUs /\ cpu_online # {}

\* The work item belongs to a driver that is bound, or is waited for.
L2Placed ==
  /\ l2_running => l2_pc \in {"update", "bound", "cancel"}
  /\ l2_queued => l2_pc \in {"bound", "cancel"}

\* A core that was notified since is known by its present rate.
L2Known ==
  /\ l2_pc \in {"read", "update", "register"} => l2_seen = {}
  /\ l2_pc = "bound" =>
       \A c \in l2_seen : cpu_change[c] # "changed" => l2_khz[c] = cpu_rate[c]

\* Unless the cores have moved since the look at them began, max_khz is the
\* fastest of those looked at ...
L2Scanned ==
  l2_running /\ ~l2_queued /\ ~l2_stale =>
    /\ \A c \in cpu_online \ l2_scan : l2_khz[c] <= l2_max
    /\ l2_max = 0 \/ \E c \in cpu_online \ l2_scan : l2_khz[c] = l2_max

\* ... and the clock has the rate for it when the look is over.
FastestIs(m) ==
  (\A c \in cpu_online : l2_khz[c] <= m) /\ (\E c \in cpu_online : l2_khz[c] = m)
L2Rated == \E m \in Nat, i \in DOMAIN L2Map :
             FastestIs(m) /\ EntryFor(i, m) /\ l2_clk = L2Map[i][2]
L2Settled ==
  /\ l2_cur_hz = 0 \/ l2_clk = l2_cur_hz
  /\ ~l2_running /\ ~l2_queued /\ ~l2_stale /\ l2_pc \in {"register", "bound", "cancel"} => L2Rated

L2Inv == L2Typed /\ L2Placed /\ L2Known /\ L2Scanned /\ L2Settled

\* Nothing is bound, and nothing runs.
LEMMA L2InitInv == L2Init => L2Inv
<1> SUFFICES ASSUME L2Init PROVE L2Inv
  OBVIOUS
<1>1. L2Map[1][1] \in Nat
  BY L2Assumption
<1>2. L2Typed
  BY <1>1, L2Assumption DEF L2Init, L2Typed
<1> QED BY <1>2 DEF L2Init, L2Inv, L2Placed, L2Known, L2Scanned, L2Settled

\* The rates and readings stay such.
LEMMA L2TypedStep == ASSUME L2Inv, [L2Next]_l2_vars PROVE L2Typed'
<1> USE DEF L2Inv, L2Typed
<1>1. CASE cpu_changes_rate
  <2>1. PICK c \in cpu_online, r \in CpuRates :
          /\ cpu_rate' = [cpu_rate EXCEPT ![c] = r]
          /\ cpu_change' = [cpu_change EXCEPT ![c] = "changed"]
    BY <1>1 DEF cpu_changes_rate
  <2>2. r \in Nat
    BY L2Assumption
  <2>3. UNCHANGED <<cpu_cur, cpu_online, l2_driver, l2_work, l2_history>>
    BY <1>1 DEF cpu_changes_rate
  <2> QED BY <2>1, <2>2, <2>3 DEF l2_driver, l2_work, l2_history
<1>2. CASE krait_l2_cpufreq_notifier
  BY <1>2 DEF krait_l2_cpufreq_notifier
<1>3. CASE unheard \/ policy_updated
  BY <1>3 DEF unheard, policy_updated, l2_driver, l2_work, l2_history
<1>4. CASE cpu_hotplug
  BY <1>4 DEF cpu_hotplug, l2_driver, l2_work
<1>5. CASE work_begins \/ probe_updates
  BY <1>5 DEF work_begins, probe_updates, Begins, l2_driver, l2_cores
<1>6. CASE target_reads
  BY <1>6 DEF target_reads, l2_driver, l2_cores, l2_history
<1>7. CASE update_sets \/ update_refused
  BY <1>7 DEF update_sets, update_refused, UpdateEnds, l2_cores
<1>8. CASE l2_probe_begins
  BY <1>8 DEF l2_probe_begins, l2_work, l2_cores
<1>9. CASE l2_probe_reads
  <2>1. UNCHANGED <<l2_work, l2_cores, l2_history>>
    BY <1>9 DEF l2_probe_reads
  <2>2. CASE l2_unread = {}
    BY <1>9, <2>1, <2>2 DEF l2_probe_reads, l2_work, l2_cores, l2_history
  <2>3. CASE l2_unread # {}
    <3>1. l2_unread \in SUBSET Nat
      BY L2Assumption
    <3>2. PICK c : /\ c \in l2_unread
                   /\ l2_unread' = l2_unread \ {c} /\ l2_khz' = [l2_khz EXCEPT ![c] = cpu_cur[c]]
                   /\ l2_pc' = l2_pc
      BY <1>9, <2>3, <3>1, LeastOf DEF l2_probe_reads
    <3> QED BY <2>1, <3>2 DEF l2_work, l2_cores, l2_history
  <2> QED BY <2>2, <2>3
<1>10. CASE l2_probe_registers \/ l2_remove_unregisters \/ l2_remove_cancels
  BY <1>10 DEF l2_probe_registers, l2_remove_unregisters, l2_remove_cancels, l2_work, l2_cores,
     l2_history
<1>11. CASE UNCHANGED l2_vars
  BY <1>11 DEF l2_vars, l2_driver, l2_work, l2_cores, l2_history
<1> QED BY <1>1, <1>2, <1>3, <1>4, <1>5, <1>6, <1>7, <1>8, <1>9, <1>10, <1>11 DEF L2Next

\* Changes of the cores, and what the driver hears of them.
LEMMA L2CoresStep ==
  ASSUME L2Inv, cpu_changes_rate \/ krait_l2_cpufreq_notifier \/ unheard \/ policy_updated
                  \/ cpu_hotplug
  PROVE  L2Placed' /\ L2Known' /\ L2Scanned' /\ L2Settled'
<1> USE DEF L2Inv
<1>1. CASE cpu_changes_rate \/ unheard \/ policy_updated
  <2>1. UNCHANGED <<l2_driver, l2_work, cpu_online, l2_history>>
    BY <1>1 DEF cpu_changes_rate, unheard, policy_updated
  <2>2. UNCHANGED <<l2_pc, l2_khz, l2_clk, l2_cur_hz, l2_queued, l2_scan, l2_max, l2_running,
                    l2_seen, l2_stale>>
    BY <2>1 DEF l2_driver, l2_work, l2_history
  <2>3. L2Placed' /\ L2Scanned'
    BY <2>1, <2>2 DEF L2Placed, L2Scanned
  <2>4. L2Settled'
    BY <2>1, <2>2 DEF L2Settled, L2Rated, FastestIs, EntryFor
  <2>5. ASSUME NEW c \in l2_seen, l2_pc = "bound", cpu_change'[c] # "changed"
        PROVE  cpu_change[c] # "changed" /\ cpu_rate'[c] = cpu_rate[c]
    BY <1>1, <2>5 DEF L2Typed, cpu_changes_rate, unheard, policy_updated
  <2>6. L2Known'
    BY <2>2, <2>5 DEF L2Known
  <2> QED BY <2>3, <2>4, <2>6
<1>2. CASE krait_l2_cpufreq_notifier
  <2>1. PICK c \in CPUs :
          /\ l2_pc = "bound"
          /\ l2_khz' = [l2_khz EXCEPT ![c] = cpu_rate[c]]
          /\ l2_queued'
          /\ cpu_change' = [cpu_change EXCEPT ![c] = "notified"]
          /\ l2_seen' = l2_seen \union {c}
          /\ UNCHANGED <<l2_pc, l2_cur_hz, l2_clk, l2_running, cpu_rate>>
    BY <1>2 DEF krait_l2_cpufreq_notifier, Schedules
  <2>2. L2Known'
    BY <2>1 DEF L2Known, L2Typed
  <2> QED BY <2>1, <2>2 DEF L2Placed, L2Scanned, L2Settled
<1>3. CASE cpu_hotplug
  <2>1. /\ UNCHANGED <<l2_pc, l2_khz, l2_clk, l2_cur_hz, l2_queued, l2_running, l2_seen>>
        /\ UNCHANGED <<cpu_rate, cpu_change>> /\ l2_stale'
    BY <1>3 DEF cpu_hotplug, l2_driver, l2_work
  <2> QED BY <2>1 DEF L2Placed, L2Known, L2Scanned, L2Settled
<1> QED BY <1>1, <1>2, <1>3

\* krait_l2_update().
LEMMA L2UpdateStep ==
  ASSUME L2Inv, work_begins \/ probe_updates \/ target_reads \/ update_sets \/ update_refused
  PROVE  L2Placed' /\ L2Known' /\ L2Scanned' /\ L2Settled'
<1> USE DEF L2Inv
<1>0. UNCHANGED <<l2_khz, l2_seen, cpu_rate, cpu_change, cpu_online>>
  BY DEF work_begins, probe_updates, target_reads, update_sets, update_refused, UpdateEnds,
     l2_driver, l2_work, l2_cores, l2_history
<1>1. CASE work_begins \/ probe_updates
  <2>1. /\ ~l2_running /\ l2_running' /\ l2_scan' = CPUs /\ l2_max' = 0
        /\ UNCHANGED <<l2_pc, l2_clk, l2_cur_hz>>
        /\ \/ l2_queued /\ ~l2_queued'
           \/ l2_pc = "update" /\ l2_queued' = l2_queued
    BY <1>1 DEF work_begins, probe_updates, Begins, l2_driver
  <2>2. cpu_online' \ l2_scan' = {}
    BY <1>0, <2>1 DEF L2Typed
  <2> QED BY <1>0, <2>1, <2>2 DEF L2Placed, L2Known, L2Scanned, L2Settled
<1>2. CASE target_reads
  <2>1. l2_scan \in SUBSET Nat /\ l2_scan # {} /\ l2_running
    BY <1>2, L2Assumption DEF target_reads, L2Typed
  <2>2. PICK c \in l2_scan :
          /\ l2_scan' = l2_scan \ {c}
          /\ l2_max' = IF c \in cpu_online /\ l2_khz[c] > l2_max THEN l2_khz[c] ELSE l2_max
    BY <1>2, <2>1, LeastOf DEF target_reads
  <2>3. UNCHANGED <<l2_pc, l2_clk, l2_cur_hz, l2_queued, l2_running, l2_stale>>
    BY <1>2 DEF target_reads, l2_driver, l2_history
  <2>4. L2Scanned'
    <3> SUFFICES ASSUME ~l2_queued, ~l2_stale PROVE L2Scanned'
      BY <2>3 DEF L2Scanned
    <3>1. /\ \A d \in cpu_online \ l2_scan : l2_khz[d] <= l2_max
          /\ l2_max = 0 \/ \E d \in cpu_online \ l2_scan : l2_khz[d] = l2_max
      BY <2>1 DEF L2Scanned
    <3>2. l2_max \in Nat /\ \A d \in CPUs : l2_khz[d] \in Nat
      BY DEF L2Typed
    <3>3. c \in CPUs /\ cpu_online \subseteq CPUs
      BY DEF L2Typed
    <3>4. \A d \in cpu_online \ l2_scan' : d = c \/ d \in cpu_online \ l2_scan
      BY <2>2
    <3>5. \A d \in cpu_online \ l2_scan' : l2_khz[d] <= l2_max'
      BY <2>2, <3>1, <3>2, <3>3, <3>4
    <3>6. l2_max' = 0 \/ \E d \in cpu_online \ l2_scan' : l2_khz[d] = l2_max'
      BY <2>2, <3>1, <3>2, <3>3
    <3> QED BY <1>0, <3>5, <3>6 DEF L2Scanned
  <2> QED BY <1>0, <2>1, <2>3, <2>4 DEF L2Placed, L2Known, L2Settled
<1>3. CASE update_sets \/ update_refused
  <2>1. /\ l2_running /\ l2_scan = {} /\ ~l2_running'
        /\ l2_pc' = IF l2_pc = "update" THEN "register" ELSE l2_pc
        /\ UNCHANGED <<l2_queued, l2_max>>
    BY <1>3 DEF update_sets, update_refused, UpdateEnds
  <2>2. L2Placed' /\ L2Known' /\ L2Scanned'
    BY <1>0, <2>1 DEF L2Placed, L2Known, L2Scanned
  <2>3. CASE update_refused
    <3>1. l2_stale' /\ UNCHANGED <<l2_cur_hz, l2_clk>>
      BY <2>3 DEF update_refused
    <3> QED BY <2>2, <3>1 DEF L2Settled
  <2>4. CASE update_sets
    <3>1. PICK i \in 1 .. Len(L2Map) : l2_rate(l2_max) = L2Map[i][2] /\ EntryFor(i, l2_max)
      BY RateEntry DEF L2Typed
    <3>2. L2Map[i][2] # 0 /\ i \in DOMAIN L2Map
      BY L2Assumption
    <3>3. l2_cur_hz' = L2Map[i][2] /\ l2_clk' = L2Map[i][2] /\ l2_stale' = l2_stale
      BY <2>4, <3>1, <3>2 DEF update_sets, L2Settled
    <3>4. ASSUME ~l2_queued, ~l2_stale PROVE FastestIs(l2_max)
      <4>1. /\ \A c \in cpu_online : l2_khz[c] <= l2_max
            /\ l2_max = 0 \/ \E c \in cpu_online : l2_khz[c] = l2_max
        BY <2>1, <3>4 DEF L2Scanned
      <4>2. CASE l2_max = 0
        <5>1. PICK c \in cpu_online : TRUE
          BY DEF L2Typed
        <5>2. l2_khz[c] = 0
          BY <4>1, <4>2, <5>1 DEF L2Typed
        <5> QED BY <4>1, <4>2, <5>2 DEF FastestIs
      <4> QED BY <4>1, <4>2 DEF FastestIs
    <3>5. ~l2_queued /\ ~l2_stale => L2Rated'
      <4> SUFFICES ASSUME ~l2_queued, ~l2_stale PROVE L2Rated'
        OBVIOUS
      <4>1. PICK m \in Nat : m = l2_max
        BY DEF L2Typed
      <4>2. FastestIs(m)'
        BY <1>0, <3>4, <4>1 DEF FastestIs
      <4>3. EntryFor(i, m)'
        BY <3>1, <4>1 DEF EntryFor
      <4> QED BY <3>2, <3>3, <4>2, <4>3 DEF L2Rated
    <3> QED BY <2>1, <2>2, <3>3, <3>5 DEF L2Settled
  <2> QED BY <1>3, <2>3, <2>4
<1> QED BY <1>1, <1>2, <1>3

\* Binding and unbinding.
LEMMA L2BindStep ==
  ASSUME L2Inv, l2_probe_begins \/ l2_probe_reads \/ l2_probe_registers
                  \/ l2_remove_unregisters \/ l2_remove_cancels
  PROVE  L2Placed' /\ L2Known' /\ L2Scanned' /\ L2Settled'
<1> USE DEF L2Inv
<1>1. CASE l2_probe_begins
  BY <1>1 DEF l2_probe_begins, l2_work, L2Placed, L2Known, L2Scanned, L2Settled
<1>2. CASE l2_probe_reads
  <2>1. /\ l2_pc = "read" /\ l2_pc' \in {"read", "update"}
        /\ UNCHANGED <<l2_cur_hz, l2_clk, l2_work, l2_history>>
    BY <1>2 DEF l2_probe_reads
  <2> QED BY <2>1 DEF l2_work, l2_history, L2Placed, L2Known, L2Scanned, L2Settled
<1>3. CASE l2_probe_registers \/ l2_remove_unregisters
  <2>1. /\ \/ l2_pc = "register" /\ l2_pc' \in {"bound", "unbound"}
           \/ l2_pc = "bound" /\ l2_pc' = "cancel"
        /\ UNCHANGED <<l2_khz, l2_cur_hz, l2_clk, l2_work, l2_cores, l2_history>>
    BY <1>3 DEF l2_probe_registers, l2_remove_unregisters
  <2>2. UNCHANGED <<l2_queued, l2_scan, l2_max, l2_running, cpu_online, l2_stale, l2_seen>>
    BY <2>1 DEF l2_work, l2_cores, l2_history
  <2>3. L2Placed' /\ L2Known' /\ L2Scanned'
    BY <2>1, <2>2 DEF L2Placed, L2Known, L2Scanned
  <2>4. L2Settled'
    BY <2>1, <2>2 DEF L2Settled, L2Rated, FastestIs, EntryFor
  <2> QED BY <2>3, <2>4
<1>4. CASE l2_remove_cancels
  BY <1>4 DEF l2_remove_cancels, L2Placed, L2Known, L2Scanned, L2Settled
<1> QED BY <1>1, <1>2, <1>3, <1>4

\* The cache follows the cores, and nothing of the driver runs once it is
\* unbound (L2Serves), for any cores, any table and any number of changes.
THEOREM L2ServesAlways == L2Spec => []L2Serves
<1>1. L2Inv /\ [L2Next]_l2_vars => L2Inv'
  <2> SUFFICES ASSUME L2Inv, [L2Next]_l2_vars PROVE L2Inv'
    OBVIOUS
  <2>1. CASE UNCHANGED l2_vars
    <3>1. UNCHANGED <<l2_pc, l2_khz, l2_clk, l2_cur_hz, l2_queued, l2_scan, l2_max, l2_running,
                      l2_seen, l2_stale, cpu_online, cpu_rate, cpu_change>>
      BY <2>1 DEF l2_vars, l2_driver, l2_work, l2_cores, l2_history
    <3>2. L2Placed' /\ L2Known' /\ L2Scanned'
      BY <3>1 DEF L2Inv, L2Placed, L2Known, L2Scanned
    <3>3. L2Settled'
      BY <3>1 DEF L2Inv, L2Settled, L2Rated, FastestIs, EntryFor
    <3> QED BY <3>2, <3>3, L2TypedStep DEF L2Inv
  <2> QED BY <2>1, L2TypedStep, L2CoresStep, L2UpdateStep, L2BindStep DEF L2Inv, L2Next
<1>2. L2Inv => L2Serves
  <2> SUFFICES ASSUME L2Inv PROVE L2Serves
    OBVIOUS
  <2>1. L2Gone
    BY DEF L2Inv, L2Placed, L2Gone
  <2>2. ASSUME l2_pc = "bound", ~l2_queued, ~l2_running, ~l2_stale,
               \A c \in CPUs : cpu_change[c] # "changed"
        PROVE  \E i \in DOMAIN L2Map :
                 /\ l2_clk = L2Map[i][2]
                 /\ EntryFor(i, Fastest([c \in CPUs |-> IF c \in l2_seen THEN cpu_rate[c]
                                                                       ELSE l2_khz[c]]))
    <3>1. PICK m \in Nat, i \in DOMAIN L2Map :
            FastestIs(m) /\ EntryFor(i, m) /\ l2_clk = L2Map[i][2]
      BY <2>2 DEF L2Inv, L2Settled, L2Rated
    <3> DEFINE khz == [c \in CPUs |-> IF c \in l2_seen THEN cpu_rate[c] ELSE l2_khz[c]]
    <3>2. khz = l2_khz
      BY <2>2 DEF L2Inv, L2Known, L2Typed
    <3>3. Fastest(khz) = m
      <4>1. cpu_online \subseteq CPUs /\ \A c \in CPUs : khz[c] \in Nat
        BY <3>2 DEF L2Inv, L2Typed
      <4>2. m \in {khz[c] : c \in cpu_online} /\ \A c \in cpu_online : khz[c] <= m
        BY <3>1, <3>2 DEF FastestIs
      <4> HIDE DEF khz
      <4>3. \A n \in {khz[c] : c \in cpu_online} :
              (\A c \in cpu_online : khz[c] <= n) => n = m
        BY <4>1, <4>2
      <4> QED BY <4>2, <4>3 DEF Fastest
    <3> QED BY <3>1, <3>3
  <2> QED BY <2>1, <2>2 DEF L2Serves, L2Follows
<1> QED BY L2InitInv, <1>1, <1>2, PTL DEF L2Spec

-----------------------------------------------------------------------------
(* The clock dividers, for any number of clocks and users, any parent that *)
(* is fast enough, all rates and any number of accesses that fail.         *)

\* The powers of two that are dividers, ...
LEMMA Dividers ==
  /\ 2^0 = 1 /\ 2^1 = 2 /\ 2^2 = 4 /\ 2^3 = 8 /\ 2^4 = 16 /\ 2^5 = 32 /\ 2^6 = 64 /\ 2^7 = 128
  /\ \A k \in Nat : 2^k \in Int
  BY SMT

\* ... and those that are greater, as far as an int has room for them.
LEMMA Greater == \A k \in 7 .. 30 : 2^k >= 128
<1> DEFINE Great(k) == 2^k >= 128
<1>1. Great(7) /\ Great(8) /\ Great(9) /\ Great(10) /\ Great(11) /\ Great(12)
  BY SMT
<1>2. Great(13) /\ Great(14) /\ Great(15) /\ Great(16) /\ Great(17) /\ Great(18)
  BY SMT
<1>3. Great(19) /\ Great(20) /\ Great(21) /\ Great(22) /\ Great(23) /\ Great(24)
  BY SMT
<1>4. Great(25) /\ Great(26) /\ Great(27) /\ Great(28) /\ Great(29) /\ Great(30)
  BY SMT
<1> HIDE DEF Great
<1>5. \A k \in 7 .. 30 : Great(k)
  BY <1>1, <1>2, <1>3, <1>4
<1> QED BY <1>5 DEF Great

\* Log2() finds what it looks for.
LEMMA Log2Is ==
  ASSUME NEW n \in Nat, 1 <= n, n < 2^31
  PROVE  Log2(n) \in 0 .. 30 /\ 2^Log2(n) <= n /\ n < 2^(Log2(n) + 1)
<1> DEFINE T == {m \in Nat : n < 2^(m + 1)}
<1>1. 30 \in T
  <2>1. 30 + 1 = 31
    BY SMT
  <2> QED BY <2>1
<1>2. PICK x \in T : \A y \in T : x <= y
  <2>1. T \in SUBSET Nat /\ T # {}
    BY <1>1
  <2> HIDE DEF T
  <2> QED BY <2>1, LeastOf
<1>3. x \in 0 .. 30 /\ n < 2^(x + 1)
  <2>1. x <= 30
    BY <1>1, <1>2
  <2>2. x \in Nat /\ n < 2^(x + 1)
    OBVIOUS
  <2> QED BY <2>1, <2>2
<1>4. 2^x <= n
  <2>1. CASE x = 0
    BY <2>1, Dividers, SMT
  <2>2. CASE x # 0
    <3>1. x - 1 \in Nat /\ (x - 1) + 1 = x /\ ~(x <= x - 1)
      BY <1>3, <2>2, SMT
    <3>2. ~(n < 2^x)
      BY <1>2, <3>1, SMT
    <3> QED BY <1>3, <3>2, Dividers, SMT
  <2> QED BY <2>1, <2>2
<1> DEFINE L == CHOOSE k \in 0 .. 31 : 2^k <= n /\ n < 2^(k + 1)
<1>5. L \in 0 .. 31 /\ 2^L <= n /\ n < 2^(L + 1)
  <2>1. x \in 0 .. 31 /\ 2^x <= n /\ n < 2^(x + 1)
    BY <1>3, <1>4, SMT
  <2> QED BY <2>1
<1> HIDE DEF L
<1>6. L # 31
  <2> SUFFICES ASSUME L = 31 PROVE FALSE
    OBVIOUS
  <2>1. 2^31 <= n
    BY <1>5
  <2> QED BY <2>1, Dividers, SMT
<1>7. Log2(n) = L
  BY DEF Log2, L
<1> QED BY <1>5, <1>6, <1>7, SMT

\* Between two powers of two lies one logarithm.
LEMMA Log2Only ==
  ASSUME NEW n \in Nat, 1 <= n, n < 2^31, NEW k \in 0 .. 6
  PROVE  /\ 2^k <= n /\ n < 2^(k + 1) => Log2(n) = k
         /\ 64 <= n => Log2(n) >= 6
<1> DEFINE L == Log2(n)
<1>1. L \in 0 .. 30 /\ 2^L <= n /\ n < 2^(L + 1)
  BY Log2Is
<1> HIDE DEF L
<1> DEFINE Bracket(i) ==
      \/ i = 0 /\ 2^i = 1 /\ 2^(i + 1) = 2
      \/ i = 1 /\ 2^i = 2 /\ 2^(i + 1) = 4
      \/ i = 2 /\ 2^i = 4 /\ 2^(i + 1) = 8
      \/ i = 3 /\ 2^i = 8 /\ 2^(i + 1) = 16
      \/ i = 4 /\ 2^i = 16 /\ 2^(i + 1) = 32
      \/ i = 5 /\ 2^i = 32 /\ 2^(i + 1) = 64
      \/ i = 6 /\ 2^i = 64 /\ 2^(i + 1) = 128
<1>2. ASSUME NEW i \in 0 .. 6 PROVE Bracket(i)
  <2>1. Bracket(0) /\ Bracket(1) /\ Bracket(2) /\ Bracket(3)
    BY Dividers, SMT
  <2>2. Bracket(4) /\ Bracket(5) /\ Bracket(6)
    BY Dividers, SMT
  <2> HIDE DEF Bracket
  <2> QED BY <2>1, <2>2
<1>3. Bracket(k)
  BY <1>2
<1>4. CASE L \in 0 .. 6
  <2>1. Bracket(L)
    BY <1>2, <1>4
  <2> QED BY <1>1, <1>3, <2>1, SMT DEF L
<1>5. CASE L \in 7 .. 30
  <2>1. 2^L >= 128 /\ 2^L \in Int
    <3>1. L \in Nat
      BY <1>5
    <3>2. 2^L >= 128
      BY <1>5, Greater, Zenon
    <3> QED BY <3>1, <3>2, Dividers, Zenon
  <2>2. 128 <= n
    BY <1>1, <2>1
  <2> QED BY <1>3, <1>5, <2>2, SMT DEF L
<1> QED BY <1>1, <1>4, <1>5, SMT

\* Rounding up and then down: a rate of the form CXO \div p is asked for again
\* with a divider between p and 2 * p.
LEMMA Quotients ==
  ASSUME NEW c \in Nat, c >= 64, NEW p \in {1, 2, 4, 8, 16, 32, 64}
  PROVE  LET a == c \div p
         IN  a \in Nat /\ a >= 1 /\ p <= c \div a /\ c \div a < 2 * p /\ c \div a \in Nat
<1> DEFINE a == c \div p
<1>1. a \in Nat /\ a >= 1 /\ a * p <= c /\ c < (a + 1) * p
  BY SMT
<1> HIDE DEF a
<1> DEFINE q == c \div a
<1>2. q \in Nat /\ q * a <= c /\ c < (q + 1) * a
  BY <1>1, SMT
<1> HIDE DEF q
<1>3. p <= q
  BY <1>1, <1>2, SMT
<1>4. q < 2 * p
  BY <1>1, <1>2, SMT
<1> QED BY <1>1, <1>2, <1>3, <1>4 DEF a, q

\* The divider of a rate asked for is a number Log2() is defined for.
LEMMA Divisor ==
  ASSUME NEW c \in Nat, c >= 1, NEW r \in Nat, r >= 1
  PROVE  LET d == (c + r - 1) \div r IN d \in Nat /\ 1 <= d /\ d <= c
<1> DEFINE d == (c + r - 1) \div r
<1>1. d \in Nat /\ r * d <= c + r - 1 /\ c + r - 1 < r * (d + 1)
  BY SMT
<1> HIDE DEF d
<1>2. 1 <= d
  BY <1>1, SMT
<1>3. d <= c
  <2> SUFFICES ASSUME d >= c + 1 PROVE FALSE
    BY <1>1
  <2>1. r * d >= r * (c + 1) /\ r * (c + 1) = r * c + r /\ r * c >= c
    BY <1>1, SMT
  <2> QED BY <1>1, <2>1, SMT
<1> QED BY <1>1, <1>2, <1>3 DEF d

\* set_rate() computes the factor round_rate() has rounded to.
LEMMA Rounded ==
  ASSUME NEW r \in Nat, r >= 1
  PROVE  LET a == clk_spmi_pmic_div_round_rate(r)
             f == div_to_div_factor(CXO \div a)
         IN  a \in Nat /\ f \in 0 .. 7 /\ clk_spmi_pmic_div_recalc_rate(f) = a
<1>1. CXO \in Nat /\ CXO >= 64 /\ CXO < 2^31
  <2>1. 2^30 + 2^30 = 2^31
    BY SMT
  <2>2. CXO \in Nat /\ CXO >= 64 /\ CXO - 2^30 < 2^30
    BY DivAssumption
  <2>3. 2^30 \in Int /\ 2^31 \in Int
    BY Dividers
  <2> QED BY <2>1, <2>2, <2>3
<1> DEFINE d == (CXO + r - 1) \div r
           k == div_to_div_factor(d) - 1
           p == 2^k
           a == CXO \div p
<1>2. d \in Nat /\ 1 <= d /\ d < 2^31
  <2>1. d \in Nat /\ 1 <= d /\ d <= CXO
    BY <1>1, Divisor
  <2>2. 2^31 \in Int
    BY Dividers
  <2> HIDE DEF d
  <2> QED BY <1>1, <2>1, <2>2
<1> HIDE DEF d
<1>3. k \in 0 .. 6 /\ div_to_div_factor(d) = k + 1
  <2>1. Log2(d) \in 0 .. 30
    BY <1>2, Log2Is
  <2> QED BY <2>1 DEF div_to_div_factor
<1> HIDE DEF k
<1>4. p \in {1, 2, 4, 8, 16, 32, 64} /\ 2^(k + 1) = 2 * p
  <2> DEFINE Power(i) == 2^i \in {1, 2, 4, 8, 16, 32, 64} /\ 2^(i + 1) = 2 * 2^i
  <2>1. Power(0) /\ Power(1) /\ Power(2) /\ Power(3) /\ Power(4) /\ Power(5) /\ Power(6)
    BY Dividers
  <2> HIDE DEF Power
  <2>2. Power(k)
    BY <1>3, <2>1
  <2> QED BY <2>2 DEF Power
<1>5. \A i \in 0 .. 6 : div_factor_to_div(i + 1) = 2^i
  BY DEF div_factor_to_div
<1>6. clk_spmi_pmic_div_round_rate(r) = a
  BY <1>3, <1>5 DEF clk_spmi_pmic_div_round_rate, d
<1>7. a \in Nat /\ a >= 1 /\ p <= CXO \div a /\ CXO \div a < 2 * p /\ CXO \div a \in Nat
  <2> HIDE DEF p
  <2> QED BY <1>1, <1>4, Quotients
<1> DEFINE q == CXO \div a
<1>8. q < 2^31 /\ 1 <= q
  <2>1. 2 * p <= 128 /\ 128 < 2^31 /\ 2^31 \in Int /\ 1 <= p /\ p \in Nat
    <3>1. 128 < 2^31 /\ 2^31 \in Int
      BY SMT
    <3> HIDE DEF p
    <3> QED BY <1>4, <3>1
  <2> HIDE DEF p, a
  <2> QED BY <1>7, <2>1
<1>9. Log2(q) = k
  <2>1. 2^k <= q /\ q < 2^(k + 1) /\ q \in Nat
    BY <1>4, <1>7
  <2> HIDE DEF q
  <2> QED BY <1>3, <1>8, <2>1, Log2Only
<1>10. div_to_div_factor(q) = k + 1
  <2> HIDE DEF q
  <2> QED BY <1>3, <1>9 DEF div_to_div_factor
<1>11. clk_spmi_pmic_div_recalc_rate(k + 1) = a
  BY <1>3, <1>5 DEF clk_spmi_pmic_div_recalc_rate
<1> HIDE DEF a
<1>12. clk_spmi_pmic_div_round_rate(r) \in Nat
  BY <1>6, <1>7
<1>13. div_to_div_factor(CXO \div clk_spmi_pmic_div_round_rate(r)) = k + 1
  BY <1>6, <1>10
<1>14. k + 1 \in 0 .. 7
  BY <1>3
<1> QED BY <1>6, <1>11, <1>12, <1>13, <1>14, Zenon

-----------------------------------------------------------------------------

DivTyped ==
  /\ div_registered \in 0 .. NCLKS /\ div_provider \in BOOLEAN
  /\ div_got \subseteq DivClks /\ div_unsure \subseteq DivClks
  /\ div_en \in [DivClks -> BOOLEAN] /\ div_factor \in [DivClks -> 0 .. 7]
  /\ div_users \in [DivClks -> Nat]
  /\ \/ div_op = NoDivOp
     \/ div_op \in [pc : {"gate", "write", "ungate", "recalc"}, clk : DivClks, factor : 0 .. 7,
                    enabled : BOOLEAN, asked : Nat, fault : BOOLEAN]

\* Consumers have clocks once the provider is there, with all of them.
DivHanded ==
  /\ div_provider => div_registered = NCLKS
  /\ div_got # {} => div_provider

\* A clock whose gate no failed access has left wrong runs for its users, but
\* for the time set_rate() has it gated.
DivGated(c) == div_op.clk = c /\ div_op.enabled /\ div_op.pc \in {"write", "ungate"}
DivGates ==
  \A c \in DivClks \ div_unsure :
    /\ DivGated(c) => div_users[c] > 0 /\ ~div_en[c]
    /\ ~DivGated(c) => (div_en[c] <=> div_users[c] > 0)

\* How far set_rate() is, with the factor round_rate() has rounded to.
DivUnderWay ==
  div_op # NoDivOp =>
    /\ clk_spmi_pmic_div_recalc_rate(div_op.factor) = div_op.asked
    /\ div_op.pc \in {"gate", "ungate"} => div_op.enabled
    /\ div_op.pc = "gate" => div_en[div_op.clk]
    /\ div_op.pc = "write" /\ ~div_op.fault => ~div_en[div_op.clk]
    /\ div_op.pc = "ungate" \/ (div_op.pc = "recalc" /\ ~div_op.fault)
         => div_factor[div_op.clk] = div_op.factor

DivInv == DivTyped /\ DivHanded /\ DivGates /\ DivUnderWay

\* Nothing is registered, and the clocks are gated.
LEMMA DivInitInv == DivInit => DivInv
<1> SUFFICES ASSUME DivInit PROVE DivInv
  OBVIOUS
<1>1. NCLKS \in Nat
  BY DivAssumption
<1>2. DivTyped
  <2>1. div_registered \in 0 .. NCLKS
    BY <1>1 DEF DivInit
  <2>2. div_provider \in BOOLEAN
    BY DEF DivInit
  <2>3. div_got \subseteq DivClks /\ div_unsure \subseteq DivClks /\ div_op = NoDivOp
    BY DEF DivInit
  <2>4. div_en \in [DivClks -> BOOLEAN] /\ div_factor \in [DivClks -> 0 .. 7]
    BY DEF DivInit
  <2>5. div_users \in [DivClks -> Nat]
    BY DEF DivInit
  <2> QED BY <2>1, <2>2, <2>3, <2>4, <2>5 DEF DivTyped
<1>3. DivGates
  BY DEF DivInit, DivGates, DivGated, NoDivOp
<1> QED BY <1>2, <1>3 DEF DivInit, DivInv, DivHanded, DivUnderWay

\* Probe and the look-up.
LEMMA DivProbeStep ==
  ASSUME DivInv, spmi_pmic_clkdiv_probe \/ spmi_pmic_div_clk_hw_get PROVE DivInv'
<1>1. NCLKS \in Nat
  BY DivAssumption
<1>2. UNCHANGED <<div_en, div_factor, div_users, div_op, div_unsure>>
  BY DEF spmi_pmic_clkdiv_probe, spmi_pmic_div_clk_hw_get, div_regs, div_core
<1>3. DivGates' /\ DivUnderWay'
  BY <1>2 DEF DivInv, DivGates, DivGated, DivUnderWay, NoDivOp, clk_spmi_pmic_div_recalc_rate,
     div_factor_to_div
<1>4. CASE spmi_pmic_clkdiv_probe
  BY <1>1, <1>2, <1>3, <1>4 DEF spmi_pmic_clkdiv_probe, DivInv, DivTyped, DivHanded
<1>5. CASE spmi_pmic_div_clk_hw_get
  BY <1>1, <1>2, <1>3, <1>5 DEF spmi_pmic_div_clk_hw_get, DivInv, DivTyped, DivHanded, InRange,
     DivClks
<1> QED BY <1>4, <1>5

\* The first user and the last.
LEMMA DivUserStep ==
  ASSUME DivInv, clk_spmi_pmic_div_enable \/ clk_spmi_pmic_div_disable PROVE DivInv'
<1> USE DEF DivInv, DivTyped
<1>1. UNCHANGED <<div_registered, div_provider, div_got, div_factor, div_op>>
  BY DEF clk_spmi_pmic_div_enable, clk_spmi_pmic_div_disable
<1>2. PICK c \in DivClks :
        /\ div_op.clk # c
        /\ \E n \in Nat : div_users' = [div_users EXCEPT ![c] = n]
        /\ div_en' = div_en \/ \E b \in BOOLEAN : div_en' = [div_en EXCEPT ![c] = b]
        /\ div_unsure' \subseteq div_unsure \union {c} /\ div_unsure \ {c} \subseteq div_unsure'
        /\ c \in div_unsure' \/ (div_en'[c] <=> div_users'[c] > 0)
  <2>1. CASE clk_spmi_pmic_div_enable
    <3>1. PICK c \in div_got \intersect DivClks :
            /\ div_op.clk # c
            /\ \/ /\ div_users[c] > 0
                  /\ div_users' = [div_users EXCEPT ![c] = @ + 1]
                  /\ div_en' = div_en /\ div_unsure' = div_unsure
               \/ /\ div_users[c] = 0
                  /\ div_en' = [div_en EXCEPT ![c] = TRUE]
                  /\ div_users' = [div_users EXCEPT ![c] = 1]
                  /\ div_unsure' = div_unsure \ {c}
               \/ /\ div_users[c] = 0
                  /\ div_en' = div_en /\ div_users' = div_users /\ div_unsure' = div_unsure
      BY <2>1, Zenon DEF clk_spmi_pmic_div_enable, Free, DivFine
    <3>2. c \in div_unsure \/ (div_en[c] <=> div_users[c] > 0)
      BY <3>1 DEF DivGates, DivGated
    <3>3. \E n \in Nat : div_users' = [div_users EXCEPT ![c] = n]
      <4>1. div_users[c] \in Nat /\ div_users = [div_users EXCEPT ![c] = div_users[c]]
        OBVIOUS
      <4> QED BY <3>1, <4>1
    <3>4. div_en' = div_en \/ \E b \in BOOLEAN : div_en' = [div_en EXCEPT ![c] = b]
      BY <3>1
    <3>5. c \in div_unsure' \/ (div_en'[c] <=> div_users'[c] > 0)
      BY <3>1, <3>2
    <3> QED BY <3>1, <3>3, <3>4, <3>5
  <2>2. CASE clk_spmi_pmic_div_disable
    <3>1. PICK c \in div_got \intersect DivClks :
            /\ div_op.clk # c /\ div_users[c] > 0
            /\ div_users' = [div_users EXCEPT ![c] = @ - 1]
            /\ \/ div_users[c] > 1 /\ div_en' = div_en /\ div_unsure' = div_unsure
               \/ /\ div_users[c] = 1 /\ div_en' = [div_en EXCEPT ![c] = FALSE]
                  /\ div_unsure' = div_unsure \ {c}
               \/ /\ div_users[c] = 1 /\ div_en' = div_en
                  /\ div_unsure' = IF div_en[c] THEN div_unsure \union {c} ELSE div_unsure
      BY <2>2, Zenon DEF clk_spmi_pmic_div_disable, Free, DivFine
    <3>2. c \in div_unsure \/ (div_en[c] <=> div_users[c] > 0)
      BY <3>1 DEF DivGates, DivGated
    <3>3. \E n \in Nat : div_users' = [div_users EXCEPT ![c] = n]
      <4>1. div_users[c] - 1 \in Nat
        BY <3>1
      <4> QED BY <3>1, <4>1
    <3>4. div_en' = div_en \/ \E b \in BOOLEAN : div_en' = [div_en EXCEPT ![c] = b]
      BY <3>1
    <3>5. c \in div_unsure' \/ (div_en'[c] <=> div_users'[c] > 0)
      BY <3>1, <3>2
    <3> QED BY <3>1, <3>3, <3>4, <3>5
  <2> QED BY <2>1, <2>2
<1>3. DivTyped' /\ DivHanded'
  BY <1>1, <1>2 DEF DivHanded
<1>4. DivGates'
  BY <1>1, <1>2 DEF DivGates, DivGated
<1>5. DivUnderWay'
  BY <1>1, <1>2 DEF DivUnderWay, NoDivOp, clk_spmi_pmic_div_recalc_rate, div_factor_to_div
<1> QED BY <1>3, <1>4, <1>5

\* set_rate(), access by access.
LEMMA DivRateStep ==
  ASSUME DivInv,
         set_rate_begins \/ set_rate_gates \/ set_rate_writes \/ set_rate_ungates
           \/ set_rate_fails \/ set_rate_ends
  PROVE  DivInv'
<1> USE DEF DivInv, DivTyped
<1>1. UNCHANGED <<div_registered, div_provider, div_got, div_users>>
  BY DEF set_rate_begins, set_rate_gates, set_rate_writes, set_rate_ungates, set_rate_fails,
     set_rate_ends, div_core
<1>2. DivHanded'
  BY <1>1 DEF DivHanded
<1>3. CASE set_rate_begins
  <2>1. PICK c \in DivClks, r \in DivRates, on \in BOOLEAN, failed \in BOOLEAN :
          /\ div_op = NoDivOp
          /\ on = div_en[c] \/ (~on /\ failed)
          /\ div_op' = [pc |-> IF on THEN "gate" ELSE "write", clk |-> c, enabled |-> on,
                        factor |-> div_to_div_factor(CXO \div clk_spmi_pmic_div_round_rate(r)),
                        asked |-> clk_spmi_pmic_div_round_rate(r), fault |-> failed]
    BY <1>3, Zenon DEF set_rate_begins
  <2> DEFINE a == clk_spmi_pmic_div_round_rate(r)
             f == div_to_div_factor(CXO \div a)
  <2>2. a \in Nat /\ f \in 0 .. 7 /\ clk_spmi_pmic_div_recalc_rate(f) = a
    <3>1. r \in Nat /\ r >= 1
      BY DivAssumption
    <3> QED BY <3>1, Rounded, Zenon
  <2>3. div_op' = [pc |-> IF on THEN "gate" ELSE "write", clk |-> c, enabled |-> on,
                   factor |-> f, asked |-> a, fault |-> failed]
    BY <2>1, Zenon
  <2> HIDE DEF a, f
  <2>4. UNCHANGED <<div_en, div_factor, div_unsure>>
    BY <1>3 DEF set_rate_begins, div_regs
  <2>5. DivTyped'
    BY <1>1, <2>2, <2>3, <2>4
  <2>6. DivGates'
    BY <1>1, <2>1, <2>3, <2>4 DEF DivGates, DivGated, NoDivOp
  <2>7. DivUnderWay'
    BY <2>1, <2>2, <2>3, <2>4 DEF DivUnderWay
  <2> QED BY <1>2, <2>5, <2>6, <2>7
<1>5. CASE set_rate_gates
  <2>1. /\ div_op.pc = "gate" /\ div_op # NoDivOp
        /\ div_en' = [div_en EXCEPT ![div_op.clk] = FALSE]
        /\ div_op' = [div_op EXCEPT !.pc = "write"]
        /\ UNCHANGED <<div_factor, div_unsure>>
    BY <1>5 DEF set_rate_gates, DivFine, NoDivOp
  <2>2. DivTyped'
    BY <1>1, <2>1
  <2>3. DivGates'
    <3>1. div_op.enabled /\ div_op.clk \in DivClks /\ div_en[div_op.clk]
      BY <2>1 DEF DivUnderWay
    <3>2. div_op.clk \in div_unsure \/ (div_en[div_op.clk] <=> div_users[div_op.clk] > 0)
      BY <2>1, <3>1 DEF DivGates, DivGated
    <3>3. \A c \in DivClks \ div_unsure : c # div_op.clk => (div_en[c] <=> div_users[c] > 0)
      BY DEF DivGates, DivGated
    <3>4. \A c : DivGated(c)' <=> c = div_op.clk
      BY <2>1, <3>1 DEF DivGated
    <3> QED BY <1>1, <2>1, <3>1, <3>2, <3>3, <3>4 DEF DivGates
  <2>4. DivUnderWay'
    BY <2>1 DEF DivUnderWay, clk_spmi_pmic_div_recalc_rate, div_factor_to_div
  <2> QED BY <1>2, <2>2, <2>3, <2>4
<1>6. CASE set_rate_writes
  <2>1. /\ div_op.pc = "write" /\ div_op # NoDivOp
        /\ div_factor' = [div_factor EXCEPT ![div_op.clk] = div_op.factor]
        /\ div_op' = [div_op EXCEPT !.pc = IF div_op.enabled THEN "ungate" ELSE "recalc"]
        /\ UNCHANGED <<div_en, div_unsure>>
    BY <1>6 DEF set_rate_writes, DivFine, NoDivOp
  <2>2. DivTyped'
    BY <1>1, <2>1
  <2>3. DivGates'
    BY <1>1, <2>1 DEF DivGates, DivGated
  <2>4. DivUnderWay'
    BY <2>1 DEF DivUnderWay, clk_spmi_pmic_div_recalc_rate, div_factor_to_div
  <2> QED BY <1>2, <2>2, <2>3, <2>4
<1>7. CASE set_rate_ungates
  <2>1. /\ div_op.pc = "ungate" /\ div_op # NoDivOp
        /\ div_en' = [div_en EXCEPT ![div_op.clk] = TRUE]
        /\ div_op' = [div_op EXCEPT !.pc = "recalc"]
        /\ UNCHANGED <<div_factor, div_unsure>>
    BY <1>7 DEF set_rate_ungates, DivFine, NoDivOp
  <2>2. DivTyped'
    BY <1>1, <2>1
  <2>3. DivGates'
    <3>1. div_op.enabled /\ div_op.clk \in DivClks
      BY <2>1 DEF DivUnderWay
    <3>2. div_op.clk \in div_unsure \/ div_users[div_op.clk] > 0
      BY <2>1, <3>1 DEF DivGates, DivGated
    <3>3. \A c \in DivClks \ div_unsure : c # div_op.clk => (div_en[c] <=> div_users[c] > 0)
      BY DEF DivGates, DivGated
    <3>4. div_op'.pc = "recalc" /\ \A c : ~DivGated(c)'
      BY <2>1 DEF DivGated
    <3> QED BY <1>1, <2>1, <3>1, <3>2, <3>3, <3>4 DEF DivGates
  <2>4. DivUnderWay'
    BY <2>1 DEF DivUnderWay, clk_spmi_pmic_div_recalc_rate, div_factor_to_div
  <2> QED BY <1>2, <2>2, <2>3, <2>4
<1>8. CASE set_rate_fails
  <2>1. /\ div_op.pc \in {"gate", "write", "ungate"} /\ div_op # NoDivOp
        /\ div_op' = [div_op EXCEPT !.pc = "recalc", !.fault = TRUE]
        /\ div_unsure' = IF div_op.enabled /\ div_op.pc # "gate" THEN div_unsure \union {div_op.clk}
                         ELSE div_unsure
        /\ UNCHANGED <<div_en, div_factor>>
    BY <1>8 DEF set_rate_fails, div_regs, NoDivOp
  <2>2. DivTyped'
    BY <1>1, <2>1
  <2>3. DivGates'
    BY <1>1, <2>1 DEF DivGates, DivGated
  <2>4. DivUnderWay'
    BY <2>1 DEF DivUnderWay, clk_spmi_pmic_div_recalc_rate, div_factor_to_div
  <2> QED BY <1>2, <2>2, <2>3, <2>4
<1>9. CASE set_rate_ends
  <2>1. /\ div_op.pc = "recalc" /\ div_op' = NoDivOp
        /\ UNCHANGED <<div_en, div_factor, div_unsure>>
    BY <1>9 DEF set_rate_ends, div_regs
  <2> QED BY <1>1, <1>2, <2>1 DEF DivGates, DivGated, DivUnderWay, NoDivOp
<1> QED BY <1>3, <1>5, <1>6, <1>7, <1>8, <1>9

\* A clock runs for its users, its factor is written while it is gated, and it
\* gets the rate round_rate() has promised, for any number of clocks and users,
\* any parent that is fast enough and all rates.
THEOREM DivServesAlways == DivSpec => []DivServes
<1>1. DivInv /\ [DivNext]_div_vars => DivInv'
  <2> SUFFICES ASSUME DivInv, [DivNext]_div_vars PROVE DivInv'
    OBVIOUS
  <2>1. CASE UNCHANGED div_vars
    BY <2>1 DEF div_vars, div_regs, div_core, DivInv, DivTyped, DivHanded, DivGates, DivGated,
       DivUnderWay, NoDivOp, clk_spmi_pmic_div_recalc_rate, div_factor_to_div
  <2> QED BY <2>1, DivProbeStep, DivUserStep, DivRateStep DEF DivNext
<1>2. DivInv => DivServes
  <2> SUFFICES ASSUME DivInv PROVE DivServes
    OBVIOUS
  <2>1. DivRunsForUsers
    BY DEF DivInv, DivTyped, DivHanded, DivGates, DivGated, DivRunsForUsers, Free, DivClks
  <2>2. DivWritesGated
    BY DEF DivInv, DivUnderWay, DivWritesGated, NoDivOp
  <2>3. DivRateAsPromised
    BY DEF DivInv, DivUnderWay, DivRateAsPromised, NoDivOp
  <2> QED BY <2>1, <2>2, <2>3 DEF DivServes
<1> QED BY DivInitInv, <1>1, <1>2, PTL DEF DivSpec

-----------------------------------------------------------------------------
(* The FM repair, for every setting of its constants that keeps to         *)
(* ConstAssumption and a stream of any length: an accepted burst, and a    *)
(* prediction that failed in time, is blanked before its first frame is    *)
(* played, and an interpolation finds both of its ends in the ring.        *)

\* The constants, and how they are ordered.
LEMMA Consts ==
  /\ RING \in Nat /\ DELAY \in Nat /\ HALF \in Nat /\ CLUSTER \in Nat
  /\ MIN_OUTLIERS \in Nat /\ STRONG \in Nat /\ MAX_BURST \in Nat /\ MARGIN \in Nat
  /\ P_INIT \in Nat /\ P_MIN \in Nat /\ P_MAX \in Nat /\ PHASE_TOL \in Nat
  /\ PRED_HALF \in Nat /\ MAX_BLANKS \in Nat /\ MaxFrames \in Nat
  /\ MAX_BURST + MARGIN + HALF + 2 <= DELAY
  /\ PHASE_TOL + PRED_HALF + HALF + 2 <= DELAY
  /\ MARGIN <= HALF
  /\ PRED_HALF <= PHASE_TOL
  /\ DELAY + MAX_BURST + 2 * MARGIN + 3 <= RING
  /\ DELAY + 2 * PRED_HALF + 2 <= RING
  /\ 0 < P_MIN /\ P_MIN <= P_INIT /\ P_INIT <= P_MAX
  /\ 0 < MAX_BLANKS /\ 0 < MIN_OUTLIERS
BY ConstAssumption DEF ConstAssumption

-----------------------------------------------------------------------------
(* The inductive invariant.                                                *)

\* The counters go in step: the classifier is HALF + 1 frames behind the
\* newest frame, the output DELAY frames.
Position ==
  /\ step \in {"frame", "emit"} => n_in <= n_cls + HALF + 1
  /\ step \in {"classify", "close", "predict"} => n_in = n_cls + HALF + 2
  /\ step = "frame" => n_out = IF n_in <= DELAY THEN 0 ELSE n_in - DELAY
  /\ step # "frame" => n_out = IF n_in <= DELAY + 1 THEN 0 ELSE n_in - DELAY - 1

\* A burst is closed after MAX_BURST frames.
Young ==
  open =>
    /\ first <= last /\ last <= n_cls
    /\ n_cls - first <= MAX_BURST + 1
    /\ step = "predict" => n_cls - first <= MAX_BURST

\* What may be blanked at once.
Length == IF MAX_BURST + 1 + 2 * MARGIN < 2 * PRED_HALF
          THEN 2 * PRED_HALF ELSE MAX_BURST + 1 + 2 * MARGIN
Windows == {w \in [a : Nat, b : Int] : w.b - w.a <= Length}

ListTyped == blanks \in Seq(Windows) /\ Len(blanks) <= MAX_BLANKS

Typed ==
  /\ step \in {"frame", "classify", "close", "predict", "emit"}
  /\ n_in \in Nat /\ n_out \in Nat /\ n_cls \in Nat
  /\ open \in BOOLEAN /\ first \in Nat /\ last \in Nat /\ count \in Nat
  /\ locked \in BOOLEAN /\ period \in Nat /\ c_last \in Nat /\ misses \in Nat
  /\ ListTyped
  /\ due \subseteq Windows

IInv == Typed /\ Position /\ Young

\* A window is shorter than the delay, and fits the ring with it.
LEMMA LengthFits ==
  /\ Length \in Nat
  /\ Length < DELAY
  /\ DELAY + Length + 2 <= RING
BY Consts DEF Length

\* A step of the algorithm makes windows of at most that length.
LEMMA WindowShape ==
  ASSUME NEW a \in Int, NEW b \in Int, b - a <= Length
  PROVE  /\ Window(a, b) \in Windows
         /\ a <= Window(a, b).a
         /\ 0 <= Window(a, b).a
BY LengthFits DEF Window, Windows, Max

\* A window is put on the list, in the place of the oldest when it is full.
LEMMA AddBlank ==
  ASSUME ListTyped,
         NEW w \in Windows, add_blank(w)
  PROVE  ListTyped'
<1> USE DEF ListTyped
<1>1. CASE Len(blanks) = MAX_BLANKS
  <2>1. blanks # <<>>
    BY <1>1, Consts, EmptySeq
  <2>2. Tail(blanks) \in Seq(Windows) /\ Len(Tail(blanks)) = Len(blanks) - 1
    BY <2>1, HeadTailProperties
  <2>3. blanks' = Append(Tail(blanks), w)
    BY <1>1 DEF add_blank
  <2> QED
    BY <1>1, <2>2, <2>3, Consts
<1>2. CASE Len(blanks) # MAX_BLANKS
  <2>1. blanks' = Append(blanks, w)
    BY <1>2 DEF add_blank
  <2> QED
    BY <1>2, <2>1, Consts
<1> QED
  BY <1>1, <1>2

\* Windows that have been played leave the list.
LEMMA Dropped ==
  ASSUME ListTyped, DropBehind
  PROVE  ListTyped'
<1> USE DEF ListTyped
<1>1. PICK k \in 0 .. Len(blanks) : blanks' = SubSeq(blanks, k + 1, Len(blanks))
  BY DEF DropBehind
<1>2. Len(blanks) \in Nat /\ k \in Nat /\ k <= Len(blanks)
  BY LenProperties
<1>3. \A i \in k + 1 .. Len(blanks) : blanks[i] \in Windows
  BY <1>2, ElementOfSeq
<1>4. /\ SubSeq(blanks, k + 1, Len(blanks)) \in Seq(Windows)
      /\ Len(SubSeq(blanks, k + 1, Len(blanks)))
           = IF k + 1 <= Len(blanks) THEN Len(blanks) - (k + 1) + 1 ELSE 0
  <2>1. k + 1 \in Int /\ Len(blanks) \in Int
    BY <1>2
  <2> QED
    BY <1>3, <2>1, SubSeqProperties
<1> QED
  BY <1>1, <1>2, <1>4, Consts

\* The period stays a number of frames, however it is adapted.
LEMMA AdaptType ==
  ASSUME period \in Nat, NEW d \in Int, Adapt(d)
  PROVE  period' \in Nat
<1> USE Consts
<1>1. CASE P_MIN < d /\ d < P_MAX
  <2>1. period' \in Towards(d, d)
    BY <1>1 DEF Adapt
  <2> QED
    BY <1>1, <2>1 DEF Towards, Min, Max
<1>2. CASE ~(P_MIN < d /\ d < P_MAX) /\ ~OnPhase /\ 2 * d > 3 * P_MIN
  <2>1. PICK k \in Periods(d) : k > 0 /\ period' \in Towards(d \div k, (d + k - 1) \div k)
    BY <1>2 DEF Adapt
  <2>2. k \in Int
    BY <2>1 DEF Periods
  <2>3. k \in Nat \ {0} /\ d \in Nat
    BY <1>2, <2>1, <2>2
  <2>4. d \div k \in Nat /\ (d + k - 1) \div k \in Int
    BY <2>3
  <2> QED
    BY <2>1, <2>4 DEF Towards, Min, Max
<1>3. CASE ~(P_MIN < d /\ d < P_MAX) /\ ~(~OnPhase /\ 2 * d > 3 * P_MIN)
  BY <1>3 DEF Adapt
<1> QED
  BY <1>1, <1>2, <1>3

-----------------------------------------------------------------------------
(* The two ways to blank a window: each is of a permitted length, and is   *)
(* added before the output has got there.                                  *)

BurstWindow == Window(first - MARGIN, last + MARGIN)
PredictedWindow == Window(pred - PRED_HALF, pred + PRED_HALF)

\* A burst that ends now begins at or ahead of the frame to be played.
LEMMA BurstInTime ==
  ASSUME IInv, EndOfBurst
  PROVE  BurstWindow \in Windows /\ n_out <= BurstWindow.a
<1> USE Consts
<1>1. /\ step = "close" /\ open
      /\ n_in \in Nat /\ n_out \in Nat /\ n_cls \in Nat /\ first \in Nat /\ last \in Nat
      /\ n_in = n_cls + HALF + 2
      /\ n_out = IF n_in <= DELAY + 1 THEN 0 ELSE n_in - DELAY - 1
      /\ first <= last /\ last <= n_cls /\ n_cls - first <= MAX_BURST + 1
  BY DEF IInv, Typed, Position, Young, EndOfBurst
<1>2. (last + MARGIN) - (first - MARGIN) <= Length
  BY <1>1 DEF Length
<1>3. BurstWindow \in Windows /\ first - MARGIN <= BurstWindow.a /\ 0 <= BurstWindow.a
  BY <1>1, <1>2, WindowShape DEF BurstWindow
<1>4. BurstWindow.a \in Nat
  BY <1>3 DEF Windows
<1>5. n_out = 0 \/ n_out <= first - MARGIN
  BY <1>1
<1> QED
  BY <1>1, <1>3, <1>4, <1>5

\* The window of a prediction lies around the predicted frame.
LEMMA PredictionShape ==
  ASSUME IInv
  PROVE  /\ PredictedWindow \in Windows
         /\ pred - PRED_HALF <= PredictedWindow.a
         /\ 0 <= PredictedWindow.a
<1>1. pred \in Nat /\ PRED_HALF \in Nat
  BY Consts DEF IInv, Typed, pred
<1>2. (pred + PRED_HALF) - (pred - PRED_HALF) <= Length
  BY <1>1, Consts DEF Length
<1> QED
  BY <1>1, <1>2, WindowShape DEF PredictedWindow

\* At the start of a stream.
LEMMA InitIInv == Init => IInv
<1> SUFFICES ASSUME Init PROVE IInv
  OBVIOUS
<1>1. Typed
  <2>1. <<>> \in Seq(Windows) /\ Len(<<>>) = 0
    BY EmptySeq
  <2>2. blanks \in Seq(Windows) /\ Len(blanks) = 0
    BY <2>1, Zenon DEF Init
  <2>3. ListTyped
    BY <2>2, Consts DEF ListTyped
  <2> QED
    BY <2>3, Consts DEF Init, Typed
<1>2. Position /\ Young
  BY Consts DEF Init, Position, Young
<1> QED
  BY <1>1, <1>2 DEF IInv

\* What an accepted burst leaves in the list and in the tracker.
LEMMA AcceptKeeps ==
  ASSUME IInv, EndOfBurst, Accept
  PROVE  /\ ListTyped'
         /\ due' \subseteq Windows
         /\ c_last' \in Nat /\ misses' \in Nat
<1>1. BurstWindow \in Windows
  BY BurstInTime
<1>2. add_blank(BurstWindow) /\ due' = due \union {BurstWindow}
  BY DEF Accept, BurstWindow
<1>3. ListTyped /\ due \subseteq Windows
      /\ first \in Nat /\ last \in Nat
  BY DEF IInv, Typed
<1>4. ListTyped'
  BY <1>1, <1>2, <1>3, AddBlank
<1>5. c_last' \in Nat /\ misses' \in Nat
  BY <1>3 DEF Accept, centre
<1> QED
  BY <1>1, <1>2, <1>3, <1>4, <1>5

\* Where the end of a burst leaves the counters and the burst.
LEMMA EndKeeps ==
  ASSUME IInv, EndOfBurst
  PROVE  Position' /\ Young'
BY DEF IInv, Typed, Position, Young, EndOfBurst, counters

\* Every step of the repair keeps the invariant.
LEMMA NextIInv == IInv /\ [Next]_vars => IInv'
<1> SUFFICES ASSUME IInv, [Next]_vars PROVE IInv'
  OBVIOUS
<1> USE Consts
<1>1. CASE receive
  <2>1. Typed'
    BY <1>1 DEF receive, IInv, Typed, ListTyped, burst, tracker
  <2>2. Position' /\ Young'
    BY <1>1 DEF receive, IInv, Typed, ListTyped, Position, Young, Complete, burst
  <2> QED
    BY <2>1, <2>2 DEF IInv
<1>2. CASE classify
  <2>1. Typed'
    <3>1. CASE open' = TRUE /\ first' = (IF open THEN first ELSE n_cls) /\ last' = n_cls
               /\ count' = (IF open THEN count + 1 ELSE 1)
      BY <1>2, <3>1 DEF classify, IInv, Typed, ListTyped, counters, tracker
    <3>2. CASE UNCHANGED burst
      BY <1>2, <3>2 DEF classify, IInv, Typed, ListTyped, counters, burst, tracker
    <3> QED
      BY <1>2, <3>1, <3>2 DEF classify
  <2>2. Position' /\ Young'
    BY <1>2 DEF classify, IInv, Typed, ListTyped, Position, Young, counters, burst
  <2> QED
    BY <2>1, <2>2 DEF IInv
<1>3. CASE stay_open
  <2>1. Typed'
    BY <1>3 DEF stay_open, IInv, Typed, ListTyped, counters, tracker
  <2>2. Position'
    BY <1>3 DEF stay_open, IInv, Typed, ListTyped, Position, counters
  <2>3. Young'
    <3>1. CASE Over
      BY <1>3, <3>1 DEF stay_open, Young
    <3>2. CASE ~Over
      BY <1>3, <3>2 DEF stay_open, IInv, Typed, ListTyped, Young, Over, counters
    <3> QED
      BY <3>1, <3>2
  <2> QED
    BY <2>1, <2>2, <2>3 DEF IInv
<1>4. CASE close_locked
  <2>1. EndOfBurst /\ Accept /\ Adapt(centre - c_last) /\ locked' = locked
    BY <1>4 DEF close_locked
  <2>2. centre - c_last \in Int
    BY DEF IInv, Typed, centre
  <2>3. period' \in Nat
    BY <2>1, <2>2, AdaptType DEF IInv, Typed
  <2>4. Typed'
    BY <2>1, <2>3, AcceptKeeps DEF IInv, Typed, EndOfBurst, counters
  <2> QED
    BY <2>1, <2>4, EndKeeps DEF IInv
<1>5. CASE close_ignored
  <2>1. EndOfBurst
    BY <1>5 DEF close_ignored
  <2>2. Typed'
    BY <1>5 DEF close_ignored, IInv, Typed, ListTyped, EndOfBurst, counters, tracker
  <2> QED
    BY <2>1, <2>2, EndKeeps DEF IInv
<1>6. CASE close_unlocked
  <2>1. EndOfBurst /\ Accept
    BY <1>6 DEF close_unlocked
  <2>2. locked' \in BOOLEAN /\ period' \in Nat
    <3>1. centre - c_last \in Int
      BY DEF IInv, Typed, centre
    <3>2. CASE c_last # 0 /\ P_MIN < centre - c_last /\ centre - c_last < P_MAX
      BY <1>6, <3>1, <3>2 DEF close_unlocked
    <3>3. CASE ~(c_last # 0 /\ P_MIN < centre - c_last /\ centre - c_last < P_MAX)
      BY <1>6, <3>3 DEF close_unlocked, IInv, Typed
    <3> QED
      BY <3>2, <3>3
  <2>3. Typed'
    BY <2>1, <2>2, AcceptKeeps DEF IInv, Typed, EndOfBurst, counters
  <2> QED
    BY <2>1, <2>3, EndKeeps DEF IInv
<1>7. CASE predict_missed
  <2>1. PredictedWindow \in Windows /\ add_blank(PredictedWindow)
    BY <1>7, PredictionShape DEF predict_missed, PredictedWindow
  <2>2. ListTyped'
    BY <2>1, AddBlank DEF IInv, Typed
  <2>3. Typed'
    BY <1>7, <2>2 DEF predict_missed, IInv, Typed, AfterClassified, Complete, pred, burst
  <2>4. Position' /\ Young'
    BY <1>7 DEF predict_missed, IInv, Typed, Position, Young, Missed,
                AfterClassified, Complete, burst
  <2> QED
    BY <2>3, <2>4 DEF IInv
<1>8. CASE predict_none
  <2>1. Typed'
    BY <1>8 DEF predict_none, IInv, Typed, ListTyped, AfterClassified, Complete, burst, tracker
  <2>2. Position' /\ Young'
    BY <1>8 DEF predict_none, IInv, Typed, ListTyped, Position, Young, AfterClassified, Complete, burst
  <2> QED
    BY <2>1, <2>2 DEF IInv
<1>9. CASE emit
  <2>1. ListTyped'
    BY <1>9, Dropped DEF emit, IInv, Typed
  <2>2. Typed'
    BY <1>9, <2>1 DEF emit, IInv, Typed, burst, tracker
  <2>3. Position' /\ Young'
    BY <1>9 DEF emit, IInv, Typed, Position, Young, burst
  <2> QED
    BY <2>2, <2>3 DEF IInv
<1>10. CASE emit_silence
  <2>1. Typed'
    BY <1>10 DEF emit_silence, IInv, Typed, ListTyped, counters, burst, tracker
  <2>2. Position' /\ Young'
    BY <1>10 DEF emit_silence, IInv, Typed, ListTyped, Position, Young, counters, burst
  <2> QED
    BY <2>1, <2>2 DEF IInv
<1>11. CASE fm_init
  <2>1. <<>> \in Seq(Windows) /\ Len(<<>>) = 0
    BY EmptySeq
  <2>2. blanks' \in Seq(Windows) /\ Len(blanks') = 0
    BY <1>11, <2>1, Zenon DEF fm_init
  <2>3. ListTyped'
    BY <2>2 DEF ListTyped
  <2>4. Typed'
    BY <1>11, <2>3 DEF fm_init, IInv, Typed
  <2>5. Position' /\ Young'
    BY <1>11 DEF fm_init, IInv, Typed, Position, Young
  <2> QED
    BY <2>4, <2>5 DEF IInv
<1>12. CASE UNCHANGED vars
  BY <1>12 DEF vars, counters, burst, tracker, IInv, Typed, ListTyped, Position, Young
<1> QED
  BY <1>1, <1>2, <1>3, <1>4, <1>5, <1>6, <1>7, <1>8, <1>9, <1>10, <1>11, <1>12 DEF Next

\* The invariant holds in every state of the plugin, for a stream of any
\* length: pcm_fmrepair.c's counters, burst and windows keep their relation.
THEOREM Inductive == Spec => []IInv
BY InitIInv, NextIInv, PTL DEF Spec

\* Types and the capacity of the list of windows: add_blank() never writes
\* beyond blanks[MAX_BLANKS - 1].
THEOREM TypeCorrect == Spec => []TypeOK
<1>1. IInv => TypeOK
  <2> SUFFICES ASSUME IInv PROVE TypeOK
    OBVIOUS
  <2>1. Windows \subseteq [a : Nat, b : Int]
    BY DEF Windows
  <2>2. blanks \in Seq([a : Nat, b : Int])
    BY <2>1, SeqMonotonic DEF IInv, Typed, ListTyped
  <2> QED
    BY <2>1, <2>2 DEF IInv, Typed, ListTyped, TypeOK
<1> QED
  BY <1>1, Inductive, PTL

-----------------------------------------------------------------------------

\* close_burst(): the window of an accepted burst is in the list before any of
\* its frames is played.
THEOREM BurstsInTime == Spec => InTime
<1>1. IInv /\ [Next]_vars => [\A w \in due' \ due : n_out <= w.a]_vars
  <2> SUFFICES ASSUME IInv, [Next]_vars, NEW w \in due' \ due
               PROVE  n_out <= w.a
    OBVIOUS
  <2>1. CASE close_locked \/ close_unlocked
    <3>1. EndOfBurst /\ Accept
      BY <2>1 DEF close_locked, close_unlocked
    <3>2. w = BurstWindow
      BY <3>1 DEF Accept, BurstWindow
    <3> QED
      BY <3>1, <3>2, BurstInTime
  <2>2. CASE ~(close_locked \/ close_unlocked)
    <3>1. due' \subseteq due
      BY <2>2 DEF Next, receive, classify, stay_open, close_ignored, predict_missed,
                  predict_none, emit, emit_silence, fm_init, vars
    <3> QED
      BY <3>1
  <2> QED
    BY <2>1, <2>2
<1> QED
  BY <1>1, Inductive, PTL DEF Spec, InTime

\* track(): so is the window of a prediction that failed, if no burst under
\* construction put it off.
THEOREM PredictionsInTime == Spec => PredictedInTime
<1>1. IInv /\ [Next]_vars =>
        [misses' > misses /\ n_cls = pred + PHASE_TOL + 1 =>
           n_out <= Window(pred - PRED_HALF, pred + PRED_HALF).a]_vars
  <2> SUFFICES ASSUME IInv, [Next]_vars, misses' > misses, n_cls = pred + PHASE_TOL + 1
               PROVE  n_out <= PredictedWindow.a
    BY DEF PredictedWindow
  <2>1. misses \in Nat /\ pred \in Nat /\ n_in \in Nat /\ n_out \in Nat
    BY DEF IInv, Typed, pred
  <2>2. predict_missed
    <3>1. misses' # misses /\ misses' # 0
      BY <2>1
    <3> QED
      BY <3>1 DEF Next, receive, classify, stay_open, close_locked, close_ignored,
                  close_unlocked, Accept, predict_none, emit, emit_silence, fm_init,
                  vars, tracker
  <2>3. n_in = n_cls + HALF + 2
        /\ n_out = IF n_in <= DELAY + 1 THEN 0 ELSE n_in - DELAY - 1
    BY <2>2 DEF predict_missed, IInv, Position
  <2>4. n_out = 0 \/ n_out <= pred - PRED_HALF
    BY <2>1, <2>3, Consts
  <2>5. PredictedWindow.a \in Nat /\ pred - PRED_HALF <= PredictedWindow.a
    BY PredictionShape DEF Windows
  <2> QED
    BY <2>1, <2>4, <2>5, Consts
<1> QED
  BY <1>1, Inductive, PTL DEF Spec, PredictedInTime

\* emit(): frames a - 1 and b + 1 of a window that is being played are in the
\* ring, received and not overwritten.
THEOREM EndsInTheRing == Spec => []Anchored
<1>1. IInv => Anchored
  <2> SUFFICES ASSUME IInv, Played(n_out), NEW i \in DOMAIN blanks, In(n_out, blanks[i])
               PROVE  blanks[i].b + 1 < n_in /\ n_in - RING <= blanks[i].a - 1
    BY DEF Anchored
  <2>1. blanks[i] \in Windows
    BY ElementOfSeq, LenProperties DEF IInv, Typed, ListTyped
  <2>2. PICK a \in Nat, b \in Int : blanks[i].a = a /\ blanks[i].b = b /\ b - a <= Length
    BY <2>1 DEF Windows
  <2>3. a <= n_out /\ n_out <= b
    BY <2>2 DEF In
  <2>4. n_in \in Nat /\ n_out \in Nat /\ n_in = n_out + DELAY + 1
    BY Consts DEF IInv, Typed, Position, Played
  <2> QED
    BY <2>2, <2>3, <2>4, LengthFits, Consts
<1> QED
  BY <1>1, Inductive, PTL

-----------------------------------------------------------------------------
(* That an accepted burst keeps its window for as long as it is due.  Only *)
(* a full list gives one up, so what has to be bounded is how many windows *)
(* come in after it: a burst takes Gap frames at least, up to three        *)
(* predictions come between two bursts, and a window is due for Life       *)
(* frames after the last outlier of its burst.                             *)

\* Frames the classifier goes through from one burst to the end of the next:
\* its outliers and the quiet ones after them, or so many that it is closed.
Gap == 1 + Min(CLUSTER + MIN_OUTLIERS, MAX_BURST + 1)

\* How far the classifier is ahead of the output, and a margin.
Life == MARGIN + DELAY - HALF - 1

\* As many windows as may come in meanwhile have room.
Room == 4 * (Life \div Gap) + 4 <= MAX_BLANKS

\* The #defines are such constants, and leave no slot to spare: 16.
LEMMA RoomInTheFile ==
  ASSUME RING = 4096, DELAY = 192, HALF = 7, CLUSTER = 48, MIN_OUTLIERS = 3, STRONG = 6,
         MAX_BURST = 120, MARGIN = 6, P_INIT = 1152, P_MIN = 1050, P_MAX = 1260, PHASE_TOL = 150,
         PRED_HALF = 30, MAX_BLANKS = 16, MaxFrames \in Nat
  PROVE  ConstAssumption /\ Room
<1>1. ConstAssumption
  BY DEF ConstAssumption
<1>2. Room
  BY DEF Room, Life, Gap, Min
<1> QED
  BY <1>1, <1>2

\* A burst has as many frames as outliers, or more; and the frame that is
\* classified next is not one of them.
Counted ==
  open =>
    /\ 1 <= count /\ count <= last - first + 1
    /\ step \notin {"close", "predict"} => last < n_cls

\* Three misses, and the tracker has let go.
Losing == misses <= 3 /\ (locked => misses <= 2)

\* The last frame that cannot be one of the next burst.
Mark == (IF open THEN first ELSE n_cls) - (IF open \/ step # "predict" THEN 1 ELSE 0)

\* k bursts after that of w, w is the i-th window of the list.
KeptAt(w, k, i) ==
  /\ blanks[i] = w
  /\ Len(blanks) - i <= 4 * k + misses
  /\ w.b - MARGIN + k * Gap <= Mark

InPlace(w) == n_out <= w.b /\ MARGIN <= w.b /\ \E k \in Nat, i \in 1 .. Len(blanks) : KeptAt(w, k, i)

Kept == \A w \in due : InPlace(w)

RepairInv == IInv /\ Counted /\ Losing /\ Kept

\* Both are counts of frames.
LEMMA Sizes == Gap \in Nat /\ Gap > 0 /\ Life \in Nat
BY Consts DEF Gap, Life, Min

\* Products grow with their first factor.
LEMMA Grows ==
  ASSUME NEW g \in Nat, NEW a \in Nat, NEW b \in Nat, a <= b
  PROVE  a * g <= b * g
<1> DEFINE d == b - a
<1>1. d \in Nat /\ b = a + d
  OBVIOUS
<1> HIDE DEF d
<1>2. d * g \in Nat /\ a * g \in Nat
  BY <1>1
<1>3. (a + d) * g = a * g + d * g
  BY <1>1
<1> QED
  BY <1>1, <1>2, <1>3

\* As many bursts as end while a window is due.
LEMMA FewBursts ==
  ASSUME Room, NEW k \in Nat, k * Gap <= Life
  PROVE  4 * k + 4 <= MAX_BLANKS
<1> DEFINE K == Life \div Gap
<1>1. K \in Nat /\ Life < (K + 1) * Gap
  BY Sizes
<1>2. 4 * K + 4 <= MAX_BLANKS
  BY DEF Room
<1> HIDE DEF K
<1>3. CASE K + 1 <= k
  <2>1. (K + 1) * Gap <= k * Gap
    BY <1>1, <1>3, Sizes, Grows
  <2>2. (K + 1) * Gap \in Nat /\ k * Gap \in Nat
    BY <1>1, Sizes
  <2> QED
    BY <1>1, <2>1, <2>2, Sizes
<1>4. CASE ~(K + 1 <= k)
  BY <1>1, <1>2, <1>4, Consts
<1> QED
  BY <1>3, <1>4

\* The window of a burst is played within Life frames of its last outlier.
LEMMA StillDue ==
  ASSUME IInv, step \in {"close", "predict"}, NEW t \in Int, 0 <= t, n_out <= t + MARGIN
  PROVE  n_cls <= t + Life
BY Consts DEF IInv, Typed, Position, Life

\* A window that comes in takes the last place.
LEMMA AddedLast ==
  ASSUME ListTyped, NEW v \in Windows, add_blank(v)
  PROVE  Len(blanks') \in 1 .. MAX_BLANKS /\ blanks'[Len(blanks')] = v
<1> USE DEF ListTyped
<1>0. blanks \in Seq(Windows) /\ Len(blanks) \in Nat /\ Len(blanks) <= MAX_BLANKS
  BY LenProperties
<1>1. CASE Len(blanks) = MAX_BLANKS
  <2>1. blanks # <<>>
    BY <1>1, Consts, EmptySeq
  <2>2. Tail(blanks) \in Seq(Windows) /\ Len(Tail(blanks)) = Len(blanks) - 1
    BY <2>1, HeadTailProperties
  <2>3. blanks' = Append(Tail(blanks), v)
    BY <1>1 DEF add_blank
  <2>4. Len(blanks') = Len(Tail(blanks)) + 1 /\ blanks'[Len(Tail(blanks)) + 1] = v
    BY <2>2, <2>3, AppendProperties
  <2> QED
    BY <1>0, <1>1, <2>2, <2>4, Consts
<1>2. CASE Len(blanks) # MAX_BLANKS
  <2>1. blanks' = Append(blanks, v)
    BY <1>2 DEF add_blank
  <2>2. Len(blanks') = Len(blanks) + 1 /\ blanks'[Len(blanks) + 1] = v
    BY <2>1, AppendProperties
  <2> QED
    BY <1>0, <1>2, <2>2, Consts
<1> QED
  BY <1>1, <1>2

\* And one that is not the oldest of a full list stays.
LEMMA StaysListed ==
  ASSUME ListTyped, NEW v \in Windows, add_blank(v),
         NEW i \in 1 .. Len(blanks), NEW n \in Nat, Len(blanks) - i <= n, n + 2 <= MAX_BLANKS
  PROVE  \E j \in 1 .. Len(blanks') : blanks'[j] = blanks[i] /\ Len(blanks') - j <= n + 1
<1> USE DEF ListTyped
<1>0. blanks \in Seq(Windows) /\ Len(blanks) \in Nat /\ i \in Nat /\ 1 <= i /\ i <= Len(blanks)
  BY LenProperties
<1>1. CASE Len(blanks) = MAX_BLANKS
  <2>1. blanks # <<>>
    BY <1>1, Consts, EmptySeq
  <2>2. /\ Tail(blanks) \in Seq(Windows) /\ Len(Tail(blanks)) = Len(blanks) - 1
        /\ \A m \in 1 .. Len(blanks) - 1 : Tail(blanks)[m] = blanks[m + 1]
    BY <2>1, HeadTailProperties
  <2>3. i - 1 \in 1 .. Len(blanks) - 1
    BY <1>0, <1>1, Consts
  <2>4. Tail(blanks)[i - 1] = blanks[i]
    BY <1>0, <2>2, <2>3
  <2>5. blanks' = Append(Tail(blanks), v)
    BY <1>1 DEF add_blank
  <2>6. /\ Len(blanks') = Len(Tail(blanks)) + 1
        /\ \A m \in 1 .. Len(Tail(blanks)) : blanks'[m] = Tail(blanks)[m]
    BY <2>2, <2>5, AppendProperties
  <2>7. blanks'[i - 1] = blanks[i] /\ i - 1 \in 1 .. Len(blanks')
    BY <1>0, <2>2, <2>3, <2>4, <2>6
  <2>8. Len(blanks') - (i - 1) <= n + 1
    BY <1>0, <2>2, <2>6
  <2> QED
    BY <2>7, <2>8
<1>2. CASE Len(blanks) # MAX_BLANKS
  <2>1. blanks' = Append(blanks, v)
    BY <1>2 DEF add_blank
  <2>2. Len(blanks') = Len(blanks) + 1 /\ \A m \in 1 .. Len(blanks) : blanks'[m] = blanks[m]
    BY <2>1, AppendProperties
  <2>3. blanks'[i] = blanks[i] /\ i \in 1 .. Len(blanks') /\ Len(blanks') - i <= n + 1
    BY <1>0, <2>2
  <2> QED
    BY <2>3
<1> QED
  BY <1>1, <1>2

\* A window that is not behind keeps its distance to the end.
LEMMA NotDropped ==
  ASSUME ListTyped, DropBehind, NEW i \in 1 .. Len(blanks), n_out <= blanks[i].b,
         n_out \in Nat
  PROVE  \E j \in 1 .. Len(blanks') : blanks'[j] = blanks[i]
                                      /\ Len(blanks') - j = Len(blanks) - i
<1> USE DEF ListTyped
<1>1. PICK k \in 0 .. Len(blanks) : /\ \A m \in 1 .. k : blanks[m].b < n_out
                                    /\ blanks' = SubSeq(blanks, k + 1, Len(blanks))
  BY DEF DropBehind
<1>2. Len(blanks) \in Nat /\ k \in Nat /\ k <= Len(blanks) /\ i \in Nat /\ 1 <= i /\ i <= Len(blanks)
  BY LenProperties
<1>3. blanks[i].b \in Int
  BY ElementOfSeq DEF Windows
<1>4. ~(i <= k)
  <2> SUFFICES ASSUME i <= k PROVE FALSE
    OBVIOUS
  <2>1. blanks[i].b < n_out
    BY <1>1, <1>2
  <2> QED
    BY <1>3, <2>1
<1>5. \A m \in k + 1 .. Len(blanks) : blanks[m] \in Windows
  BY <1>2, ElementOfSeq
<1>6. k + 1 \in Int /\ Len(blanks) \in Int /\ k + 1 <= Len(blanks)
  BY <1>2, <1>4
<1>7. /\ Len(blanks') = Len(blanks) - k
      /\ \A m \in 1 .. Len(blanks) - k : blanks'[m] = blanks[k + m]
  <2>1. /\ Len(SubSeq(blanks, k + 1, Len(blanks))) = Len(blanks) - (k + 1) + 1
        /\ \A m \in 1 .. Len(blanks) - (k + 1) + 1 :
             SubSeq(blanks, k + 1, Len(blanks))[m] = blanks[k + 1 + m - 1]
    BY <1>5, <1>6, SubSeqProperties
  <2>2. \A m \in 1 .. Len(blanks) - k : k + 1 + m - 1 = k + m
    BY <1>2
  <2>3. Len(blanks) - (k + 1) + 1 = Len(blanks) - k
    BY <1>2
  <2> QED
    BY <1>1, <2>1, <2>2, <2>3
<1>8. i - k \in 1 .. Len(blanks') /\ blanks'[i - k] = blanks[i]
  BY <1>2, <1>4, <1>7
<1>9. Len(blanks') - (i - k) = Len(blanks) - i
  BY <1>2, <1>7
<1> QED
  BY <1>8, <1>9

\* What the parts of the invariant say of their variables.
LEMMA MarkType ==
  ASSUME IInv
  PROVE  Mark \in Int /\ \A w \in due : w.b \in Int /\ w \in Windows
BY DEF IInv, Typed, Mark, Windows

\* A step that leaves the list, the output and the misses alone and does not
\* move the mark back keeps every window in its place.
LEMMA StaysInPlace ==
  ASSUME IInv, IInv', Kept, UNCHANGED <<blanks, due, misses, n_out>>, Mark <= Mark'
  PROVE  Kept'
<1> SUFFICES ASSUME NEW w \in due PROVE InPlace(w)'
  BY DEF Kept
<1>1. PICK k \in Nat, i \in 1 .. Len(blanks) : KeptAt(w, k, i)
  BY DEF Kept, InPlace
<1>2. w.b \in Int /\ Mark \in Int /\ Mark' \in Int /\ k * Gap \in Nat
  BY MarkType, Sizes DEF IInv, Typed, Mark
<1>3. w.b - MARGIN + k * Gap <= Mark'
  <2> DEFINE g == k * Gap
  <2>1. w.b - MARGIN + g <= Mark /\ g \in Nat
    BY <1>1, <1>2 DEF KeptAt
  <2> HIDE DEF g
  <2>2. w.b - MARGIN + g <= Mark'
    BY <1>2, <2>1, Consts
  <2> QED
    BY <2>2 DEF g
<1>4. KeptAt(w, k, i)'
  BY <1>1, <1>3 DEF KeptAt
<1> QED
  BY <1>4 DEF Kept, InPlace

\* An accepted burst takes a place at the end, and leaves the others theirs.
LEMMA AcceptInPlace ==
  ASSUME Room, RepairInv, EndOfBurst, Accept, n_out' = n_out
  PROVE  Kept'
<1> SUFFICES ASSUME NEW w \in due' PROVE InPlace(w)'
  BY DEF Kept
<1>1. /\ BurstWindow \in Windows /\ add_blank(BurstWindow) /\ due' = due \union {BurstWindow}
      /\ misses' = 0
  BY BurstInTime DEF Accept, BurstWindow, RepairInv
<1>2. /\ step = "close" /\ open /\ Over /\ count >= MIN_OUTLIERS
      /\ step' = "predict" /\ ~open' /\ n_cls' = n_cls
  BY DEF EndOfBurst, counters
<1>3. /\ first \in Nat /\ last \in Nat /\ n_cls \in Nat /\ n_out \in Nat /\ count \in Nat
      /\ misses \in Nat /\ ListTyped
  BY DEF RepairInv, IInv, Typed
<1>4. first + Gap <= n_cls + 1 /\ Mark = first - 1 /\ Mark' = n_cls
  <2>1. 1 <= count /\ count <= last - first + 1 /\ first <= last /\ last <= n_cls
    BY <1>2 DEF RepairInv, IInv, Young, Counted
  <2>2. n_cls - last > CLUSTER \/ n_cls - first > MAX_BURST
    BY <1>2 DEF Over
  <2>3. n_cls - first >= Gap - 1
    BY <1>2, <1>3, <2>1, <2>2, Consts DEF Gap, Min
  <2>4. Gap \in Nat
    BY Sizes
  <2> QED
    BY <1>2, <1>3, <2>3, <2>4 DEF Mark
<1>5. CASE w = BurstWindow
  <2>1. w.b = last + MARGIN
    BY <1>5 DEF BurstWindow, Window
  <2>2. n_out <= w.b
    <3>1. n_out = 0 \/ n_out <= first - MARGIN
      BY <1>2, <1>3, Consts DEF RepairInv, IInv, Typed, Position, Young
    <3>2. first <= last
      BY <1>2 DEF RepairInv, IInv, Young
    <3> QED
      BY <1>3, <2>1, <3>1, <3>2, Consts
  <2>3. Len(blanks') \in 1 .. MAX_BLANKS /\ blanks'[Len(blanks')] = w
    BY <1>1, <1>3, <1>5, AddedLast
  <2>4. last <= n_cls
    BY <1>2 DEF RepairInv, IInv, Young
  <2>5. w.b - MARGIN + 0 * Gap <= Mark'
    BY <1>3, <1>4, <2>1, <2>4, Sizes, Consts
  <2>6. KeptAt(w, 0, Len(blanks))'
    BY <1>1, <2>3, <2>5, Consts DEF KeptAt
  <2>7. Len(blanks)' \in 1 .. Len(blanks)' /\ 0 \in Nat
    BY <2>3, Consts
  <2>8. n_out' <= w.b /\ MARGIN <= w.b
    BY <1>3, <2>1, <2>2, Consts
  <2> QED
    BY <2>6, <2>7, <2>8 DEF InPlace
<1>6. CASE w \in due
  <2>1. PICK k \in Nat, i \in 1 .. Len(blanks) : KeptAt(w, k, i)
    BY <1>6 DEF RepairInv, Kept, InPlace
  <2>2. w.b \in Int /\ n_out <= w.b /\ MARGIN <= w.b
    BY <1>6, MarkType DEF RepairInv, Kept, InPlace
  <2>3. k * Gap \in Nat /\ (k + 1) * Gap = k * Gap + Gap
    BY Sizes
  <2>4. w.b - MARGIN + (k + 1) * Gap <= n_cls
    <3>1. w.b - MARGIN + k * Gap <= first - 1
      BY <1>4, <2>1 DEF KeptAt
    <3> QED
      BY <1>3, <1>4, <2>2, <2>3, <3>1, Sizes, Consts
  <2>5. (k + 1) * Gap <= Life
    <3>1. n_cls <= w.b - MARGIN + Life
      BY <1>2, <2>2, Consts, StillDue DEF RepairInv
    <3>2. (k + 1) * Gap \in Nat
      BY Sizes
    <3> QED
      BY <1>3, <2>2, <2>4, <3>1, <3>2, Sizes, Consts
  <2>6. 4 * (k + 1) + 4 <= MAX_BLANKS
    BY <2>5, FewBursts
  <2>7. 4 * k + misses \in Nat /\ misses <= 3 /\ Len(blanks) - i <= 4 * k + misses
    BY <1>3, <2>1 DEF RepairInv, Losing, KeptAt
  <2>8. PICK j \in 1 .. Len(blanks') : blanks'[j] = blanks[i] /\ Len(blanks') - j <= 4 * k + misses + 1
    <3>1. 4 * k + misses + 2 <= MAX_BLANKS
      BY <1>3, <2>6, <2>7, Consts
    <3> QED
      BY <1>1, <1>3, <2>7, <3>1, StaysListed
  <2>9. KeptAt(w, k + 1, j)'
    <3>1. blanks'[j] = w
      BY <2>1, <2>8 DEF KeptAt
    <3>2. Len(blanks') - j <= 4 * (k + 1) + misses'
      <4>1. Len(blanks') \in Nat
        BY <1>1, <1>3, AddedLast, Consts
      <4> QED
        BY <1>1, <1>3, <2>7, <2>8, <4>1
    <3> QED
      BY <1>4, <2>4, <3>1, <3>2 DEF KeptAt
  <2> QED
    BY <2>2, <2>9 DEF InPlace
<1> QED
  BY <1>1, <1>5, <1>6

\* A prediction that failed comes in behind the others, and is one more miss.
LEMMA PredictInPlace ==
  ASSUME Room, RepairInv, predict_missed
  PROVE  Kept'
<1> SUFFICES ASSUME NEW w \in due PROVE InPlace(w)'
  BY DEF Kept, predict_missed
<1>1. PredictedWindow \in Windows /\ add_blank(PredictedWindow)
  BY PredictionShape DEF RepairInv, predict_missed, PredictedWindow
<1>2. /\ step = "predict" /\ locked /\ ~open /\ ~open'
      /\ misses' = misses + 1 /\ n_cls' = n_cls + 1 /\ n_out' = n_out
      /\ step' \in {"classify", "emit"}
  BY DEF predict_missed, Missed, AfterClassified, burst
<1>3. n_cls \in Nat /\ misses \in Nat /\ misses <= 2 /\ n_out \in Nat /\ ListTyped
  BY <1>2 DEF RepairInv, IInv, Typed, Losing
<1>4. Mark = n_cls /\ Mark' = n_cls
  BY <1>2, <1>3 DEF Mark
<1>5. PICK k \in Nat, i \in 1 .. Len(blanks) : KeptAt(w, k, i)
  BY DEF RepairInv, Kept, InPlace
<1>6. w.b \in Int /\ n_out <= w.b /\ MARGIN <= w.b
  BY MarkType DEF RepairInv, Kept, InPlace
<1>7. k * Gap <= Life
  <2>1. n_cls <= w.b - MARGIN + Life
    BY <1>2, <1>6, Consts, StillDue DEF RepairInv
  <2>2. w.b - MARGIN + k * Gap <= n_cls /\ k * Gap \in Nat
    BY <1>4, <1>5, Sizes DEF KeptAt
  <2> QED
    BY <1>3, <1>6, <2>1, <2>2, Sizes, Consts
<1>8. 4 * k + 4 <= MAX_BLANKS
  BY <1>7, FewBursts
<1>9. 4 * k + misses \in Nat /\ Len(blanks) - i <= 4 * k + misses
  BY <1>3, <1>5 DEF KeptAt
<1>10. PICK j \in 1 .. Len(blanks') : blanks'[j] = blanks[i] /\ Len(blanks') - j <= 4 * k + misses + 1
  <2>1. 4 * k + misses + 2 <= MAX_BLANKS
    BY <1>3, <1>8, Consts
  <2> QED
    BY <1>1, <1>3, <1>9, <2>1, StaysListed
<1>11. KeptAt(w, k, j)'
  <2>1. blanks'[j] = w
    BY <1>5, <1>10 DEF KeptAt
  <2>2. Len(blanks') - j <= 4 * k + misses'
    BY <1>2, <1>3, <1>10
  <2> QED
    BY <1>4, <1>5, <2>1, <2>2 DEF KeptAt
<1> QED
  BY <1>2, <1>6, <1>11 DEF InPlace

\* The windows that are played go, the others stay.
LEMMA EmitInPlace ==
  ASSUME RepairInv, emit
  PROVE  Kept'
<1> SUFFICES ASSUME NEW w \in due' PROVE InPlace(w)'
  BY DEF Kept
<1>1. w \in due /\ w.b > n_out /\ n_out' = n_out + 1 /\ DropBehind
  BY DEF emit
<1>2. w.b \in Int /\ n_out <= w.b /\ MARGIN <= w.b /\ n_out \in Nat /\ ListTyped
  BY <1>1, MarkType DEF RepairInv, Kept, InPlace, IInv, Typed
<1>3. PICK k \in Nat, i \in 1 .. Len(blanks) : KeptAt(w, k, i)
  BY <1>1 DEF RepairInv, Kept, InPlace
<1>4. PICK j \in 1 .. Len(blanks') : blanks'[j] = blanks[i] /\ Len(blanks') - j = Len(blanks) - i
  BY <1>1, <1>2, <1>3, NotDropped DEF KeptAt
<1>5. Mark' = Mark /\ misses' = misses
  BY DEF emit, Mark, burst, tracker
<1>6. KeptAt(w, k, j)'
  BY <1>3, <1>4, <1>5 DEF KeptAt
<1>7. n_out' <= w.b
  BY <1>1, <1>2
<1> QED
  BY <1>2, <1>6, <1>7 DEF InPlace

\* Every step of the repair keeps the invariant.
LEMMA NextRepairInv == Room /\ RepairInv /\ [Next]_vars => RepairInv'
<1> SUFFICES ASSUME Room, RepairInv, [Next]_vars PROVE RepairInv'
  OBVIOUS
<1>0. /\ IInv /\ IInv' /\ Kept /\ Counted /\ Losing
      /\ n_cls \in Nat /\ first \in Nat /\ last \in Nat /\ count \in Nat
      /\ misses \in Nat /\ open \in BOOLEAN /\ locked \in BOOLEAN
  BY NextIInv DEF RepairInv, IInv, Typed
<1>1. CASE receive
  <2>1. Counted' /\ Losing'
    BY <1>0, <1>1 DEF receive, Counted, Losing, burst, tracker
  <2>2. Mark' = Mark
    BY <1>1 DEF receive, Mark, burst
  <2>3. Kept'
    BY <1>0, <1>1, <2>2, MarkType, StaysInPlace DEF receive, tracker
  <2> QED
    BY <1>0, <2>1, <2>3 DEF RepairInv
<1>2. CASE classify
  <2>1. /\ step = "classify" /\ step' = "close" /\ n_cls' = n_cls
        /\ UNCHANGED <<blanks, due, misses, n_out, locked>>
    BY <1>2 DEF classify, counters, tracker
  <2>2. CASE open' = TRUE /\ first' = (IF open THEN first ELSE n_cls) /\ last' = n_cls
             /\ count' = (IF open THEN count + 1 ELSE 1)
    <3>1. Counted' /\ Losing'
      BY <1>0, <2>1, <2>2 DEF Counted, Losing
    <3>2. Mark <= Mark'
      BY <1>0, <2>1, <2>2 DEF Mark
    <3> QED
      BY <1>0, <2>1, <3>1, <3>2, StaysInPlace DEF RepairInv
  <2>3. CASE UNCHANGED burst
    <3>1. Counted' /\ Losing'
      BY <1>0, <2>1, <2>3 DEF Counted, Losing, burst
    <3>2. Mark <= Mark'
      BY <1>0, <2>1, <2>3 DEF Mark, burst
    <3> QED
      BY <1>0, <2>1, <3>1, <3>2, StaysInPlace DEF RepairInv
  <2> QED
    BY <1>2, <2>2, <2>3 DEF classify
<1>3. CASE stay_open \/ close_ignored
  <2>1. /\ step = "close" /\ step' = "predict" /\ n_cls' = n_cls
        /\ UNCHANGED <<first, last, count, blanks, due, misses, n_out, locked>>
        /\ open' \in BOOLEAN /\ (open' => open)
    BY <1>0, <1>3 DEF stay_open, close_ignored, EndOfBurst, counters, tracker
  <2>2. Counted' /\ Losing'
    BY <1>0, <2>1 DEF Counted, Losing
  <2>3. Mark <= Mark'
    <3>1. open => first <= n_cls
      BY <1>0 DEF IInv, Young
    <3> QED
      BY <1>0, <2>1, <3>1 DEF Mark
  <2> QED
    BY <1>0, <2>1, <2>2, <2>3, StaysInPlace DEF RepairInv
<1>4. CASE close_locked \/ close_unlocked
  <2>1. EndOfBurst /\ Accept /\ n_out' = n_out /\ ~open' /\ misses' = 0
    BY <1>4 DEF close_locked, close_unlocked, EndOfBurst, Accept, counters
  <2>2. Counted' /\ Losing'
    BY <2>1 DEF Counted, Losing
  <2> QED
    BY <1>0, <2>1, <2>2, AcceptInPlace DEF RepairInv
<1>5. CASE predict_missed
  <2>1. /\ misses' = misses + 1 /\ locked' = (misses + 1 < 3) /\ locked /\ ~open'
    BY <1>5 DEF predict_missed, Missed, burst
  <2>2. misses <= 2
    BY <1>0, <2>1 DEF Losing
  <2>3. misses' <= 3 /\ (locked' => misses + 1 < 3)
    <3>1. misses' <= 3
      BY <1>0, <2>1, <2>2
    <3>2. locked' => misses + 1 < 3
      BY <2>1, Zenon
    <3> QED
      BY <3>1, <3>2
  <2>4. Losing'
    BY <1>0, <2>1, <2>3 DEF Losing
  <2>5. Counted'
    BY <2>1 DEF Counted
  <2> QED
    BY <1>0, <1>5, <2>4, <2>5, PredictInPlace DEF RepairInv
<1>6. CASE predict_none
  <2>1. /\ step = "predict" /\ step' \in {"classify", "emit"} /\ n_cls' = n_cls + 1
        /\ UNCHANGED <<open, first, last, count, blanks, due, misses, n_out, locked>>
    BY <1>6 DEF predict_none, AfterClassified, burst, tracker
  <2>2. open => last <= n_cls
    BY <1>0 DEF IInv, Young
  <2>3. Counted' /\ Losing'
    BY <1>0, <2>1, <2>2 DEF Counted, Losing
  <2>4. Mark <= Mark'
    BY <1>0, <2>1 DEF Mark
  <2> QED
    BY <1>0, <2>1, <2>3, <2>4, StaysInPlace DEF RepairInv
<1>7. CASE emit
  <2>1. Counted' /\ Losing'
    BY <1>0, <1>7 DEF emit, Counted, Losing, burst, tracker
  <2> QED
    BY <1>0, <1>7, <2>1, EmitInPlace DEF RepairInv
<1>8. CASE emit_silence \/ UNCHANGED vars
  <2>1. UNCHANGED <<blanks, due, misses, n_out, locked, n_cls, open, first, last, count>>
        /\ (step' = step \/ (step = "emit" /\ step' = "frame"))
    BY <1>8 DEF emit_silence, vars, counters, burst, tracker
  <2>2. Counted' /\ Losing'
    BY <1>0, <2>1 DEF Counted, Losing
  <2>3. Mark <= Mark'
    BY <1>0, <2>1 DEF Mark
  <2> QED
    BY <1>0, <2>1, <2>2, <2>3, StaysInPlace DEF RepairInv
<1>9. CASE fm_init
  <2>1. Counted' /\ Losing' /\ Kept'
    BY <1>9 DEF fm_init, Counted, Losing, Kept
  <2> QED
    BY <1>0, <2>1 DEF RepairInv
<1> QED
  BY <1>1, <1>2, <1>3, <1>4, <1>5, <1>6, <1>7, <1>8, <1>9 DEF Next

\* emit(): no frame of an accepted burst is played as it came in, if the list
\* of windows has Room; and no list or count leaves its type.
THEOREM RepairSoundAlways == Room => (Spec => []RepairSound)
<1> SUFFICES ASSUME Room PROVE Spec => []RepairSound
  OBVIOUS
<1>1. Init => RepairInv
  <2>1. Init => Counted /\ Losing /\ Kept
    BY DEF Init, Counted, Losing, Kept
  <2> QED
    BY <2>1, InitIInv DEF RepairInv
<1>2. RepairInv /\ [Next]_vars => RepairInv'
  BY NextRepairInv
<1>3. RepairInv => Repaired
  BY DEF RepairInv, Kept, InPlace, KeptAt, Repaired
<1>4. Spec => []Repaired
  BY <1>1, <1>2, <1>3, PTL DEF Spec
<1> QED
  BY <1>4, TypeCorrect, PTL DEF RepairSound

-----------------------------------------------------------------------------
(* The panel, for any readings and any number of failures.  Each call is a *)
(* script, so that the invariant says what holds where in it.              *)

\* What is known of the supplies, the reset line and the panel.
PanelOff == panel_on = {} /\ ~panel_released
PanelUp  == panel_on = {"vddio", "vsp"} /\ panel_released
Half     == panel_on = {"vddio"}
Rested   == desc.rests => panel_cold # "short"
Awake    == panel_shows.awake
Lit      == panel_shows.lit

Jdi == {"renesas_jdi", "novatek_jdi"}

\* Where prepare may be, and what has been done by then.  The reset line of
\* the Sharp and of the AUO goes down again after the power has come up.
JdiPrepares ==
  \/ /\ panel_todo = <<"rest", "vddio_on", "vsp_on", "release", "set_lpm", "soft_reset", "settings">>
     /\ PanelOff
  \/ /\ panel_todo = <<"vddio_on", "vsp_on", "release", "set_lpm", "soft_reset", "settings">>
     /\ PanelOff /\ Rested
  \/ /\ panel_todo = <<"vsp_on", "release", "set_lpm", "soft_reset", "settings">>
     /\ Half /\ ~panel_released
  \/ /\ panel_todo = <<"release", "set_lpm", "soft_reset", "settings">>
     /\ panel_on = {"vddio", "vsp"}
  \/ panel_todo = <<"set_lpm", "soft_reset", "settings">> /\ PanelUp
  \/ panel_todo = <<"soft_reset", "settings">> /\ PanelUp /\ panel_lpm
  \/ panel_todo = <<"settings">> /\ PanelUp /\ panel_lpm
  \/ panel_todo = <<>> /\ PanelUp

SharpPrepares ==
  \/ /\ panel_todo = <<"rest", "vddio_on", "vsp_on", "assert", "release", "set_lpm", "settings",
                       "exit_sleep">>
     /\ PanelOff
  \/ /\ panel_todo = <<"vddio_on", "vsp_on", "assert", "release", "set_lpm", "settings", "exit_sleep">>
     /\ PanelOff /\ Rested
  \/ /\ panel_todo = <<"vsp_on", "assert", "release", "set_lpm", "settings", "exit_sleep">>
     /\ Half /\ ~panel_released
  \/ /\ panel_todo = <<"assert", "release", "set_lpm", "settings", "exit_sleep">>
     /\ panel_on = {"vddio", "vsp"}
  \/ /\ panel_todo = <<"release", "set_lpm", "settings", "exit_sleep">>
     /\ panel_on = {"vddio", "vsp"}
  \/ panel_todo = <<"set_lpm", "settings", "exit_sleep">> /\ PanelUp
  \/ panel_todo = <<"settings", "exit_sleep">> /\ PanelUp /\ panel_lpm
  \/ panel_todo = <<"exit_sleep">> /\ PanelUp /\ panel_lpm
  \/ panel_todo = <<>> /\ PanelUp /\ Awake

AuoPrepares ==
  \/ /\ panel_todo = <<"rest", "vddio_on", "vsp_on", "release", "assert", "release", "set_lpm",
                       "settings", "display_on">>
     /\ PanelOff
  \/ /\ panel_todo = <<"vddio_on", "vsp_on", "release", "assert", "release", "set_lpm", "settings",
                       "display_on">>
     /\ PanelOff /\ Rested
  \/ /\ panel_todo = <<"vsp_on", "release", "assert", "release", "set_lpm", "settings", "display_on">>
     /\ Half /\ ~panel_released
  \/ /\ panel_todo = <<"release", "assert", "release", "set_lpm", "settings", "display_on">>
     /\ panel_on = {"vddio", "vsp"}
  \/ /\ panel_todo = <<"assert", "release", "set_lpm", "settings", "display_on">>
     /\ panel_on = {"vddio", "vsp"}
  \/ /\ panel_todo = <<"release", "set_lpm", "settings", "display_on">>
     /\ panel_on = {"vddio", "vsp"}
  \/ panel_todo = <<"set_lpm", "settings", "display_on">> /\ PanelUp
  \/ panel_todo = <<"settings", "display_on">> /\ PanelUp /\ panel_lpm
  \/ panel_todo = <<"display_on">> /\ PanelUp /\ panel_lpm
  \/ panel_todo = <<>> /\ PanelUp /\ Lit

\* What a prepare that is over leaves to the enable that follows it.
Prepared ==
  /\ PanelUp
  /\ panel = "renesas_sharp" => Awake
  /\ panel = "renesas_auo" => Lit

JdiEnables ==
  \/ panel_todo = <<"exit_sleep", "display_on">>
  \/ panel_todo = <<"display_on">> /\ Awake
  \/ panel_todo = <<>> /\ Awake /\ Lit

SharpEnables ==
  \/ panel_todo = <<"display_on">> /\ Awake
  \/ panel_todo = <<>> /\ Awake /\ Lit

AuoEnables ==
  \/ panel_todo = <<"exit_sleep">> /\ Lit
  \/ panel_todo = <<>> /\ Awake /\ Lit

PanelDisables ==
  \/ panel_todo = <<"display_off", "enter_sleep">>
  \/ panel_todo = <<"enter_sleep">>
  \/ panel_todo = <<>>

\* The power goes: with the line pulled low before vsp or between the two.
PanelDown ==
  \/ panel_todo = <<"vddio_off", "note_time">> /\ Half /\ ~panel_released
  \/ panel_todo = <<"note_time">> /\ PanelOff
  \/ panel_todo = <<>> /\ PanelOff

LateReset ==
  \/ panel_todo = <<"vsp_off", "assert", "vddio_off", "note_time">> /\ PanelUp
  \/ panel_todo = <<"assert", "vddio_off", "note_time">> /\ Half
  \/ PanelDown

EarlyReset ==
  \/ panel_todo = <<"assert", "vsp_off", "vddio_off", "note_time">> /\ PanelUp
  \/ panel_todo = <<"vsp_off", "vddio_off", "note_time">>
       /\ panel_on = {"vddio", "vsp"} /\ ~panel_released
  \/ PanelDown

GoesDown == IF panel = "renesas_sharp" THEN EarlyReset ELSE LateReset

\* What the core remembers, in each call.
PanelTyped ==
  /\ panel \in Variants \union {"none"}
  /\ panel_call \in {"none", "prepare", "enable", "disable", "unprepare", "failed"}
  /\ panel_lpm \in BOOLEAN
  /\ panel_shows \in [awake : BOOLEAN, lit : BOOLEAN]
  /\ panel_drm \in [prepared : BOOLEAN, enabled : BOOLEAN, fresh : BOOLEAN]
  /\ panel_drm.enabled \/ panel_drm.fresh => panel_drm.prepared
  /\ ~(panel_drm.enabled /\ panel_drm.fresh)
  /\ panel = "none" => panel_call = "none" /\ ~panel_drm.prepared

InNone ==
  panel_call = "none" =>
    /\ panel_todo = <<>>
    /\ IF panel_drm.prepared THEN PanelUp ELSE PanelOff
    /\ panel_drm.fresh => Prepared
    /\ panel_drm.enabled => Awake /\ Lit

InPrepare ==
  panel_call = "prepare" =>
    /\ ~panel_drm.prepared
    /\ panel \in Jdi => JdiPrepares
    /\ panel = "renesas_sharp" => SharpPrepares
    /\ panel = "renesas_auo" => AuoPrepares

InEnable ==
  panel_call = "enable" =>
    /\ panel_drm.fresh /\ PanelUp /\ ~panel_lpm
    /\ panel \in Jdi => JdiEnables
    /\ panel = "renesas_sharp" => SharpEnables
    /\ panel = "renesas_auo" => AuoEnables

InDisable ==
  panel_call = "disable" => panel_drm.enabled /\ PanelUp /\ ~panel_lpm /\ PanelDisables

InUnprepare ==
  panel_call = "unprepare" => panel_drm.prepared /\ ~panel_drm.enabled /\ GoesDown

\* A prepare that fails powers down; an enable that fails leaves the panel up.
InFailed ==
  panel_call = "failed" =>
    /\ ~panel_drm.enabled
    /\ IF panel_drm.prepared THEN panel_todo = <<>> /\ PanelUp ELSE GoesDown

\* While a driver is bound, the time it has noted is that of the power-off.
Noted ==
  panel # "none" /\ panel_cold = "short"
    => panel_off_time = "short" \/ panel_todo = <<"note_time">>

PanelInv ==
  /\ PanelTyped
  /\ InNone /\ InPrepare /\ InEnable /\ InDisable /\ InUnprepare /\ InFailed
  /\ Noted

-----------------------------------------------------------------------------
\* The four panels, and what each description holds.
LEMMA PanelDescs ==
  /\ Variants = {"renesas_sharp", "renesas_auo", "renesas_jdi", "novatek_jdi"}
  /\ panel \in Jdi =>
       /\ desc.init = <<"soft_reset", "settings">> /\ desc.on = <<"exit_sleep", "display_on">>
       /\ desc.off = <<"display_off", "enter_sleep">>
       /\ desc.reset.on = <<"release">> /\ desc.reset.off_pre = <<>> /\ desc.reset.off = <<"assert">>
  /\ panel = "renesas_sharp" =>
       /\ desc.init = <<"settings", "exit_sleep">> /\ desc.on = <<"display_on">>
       /\ desc.off = <<"display_off", "enter_sleep">>
       /\ desc.reset.on = <<"assert", "release">> /\ desc.reset.off_pre = <<"assert">>
       /\ desc.reset.off = <<>>
  /\ panel = "renesas_auo" =>
       /\ desc.init = <<"settings", "display_on">> /\ desc.on = <<"exit_sleep">>
       /\ desc.off = <<"display_off", "enter_sleep">>
       /\ desc.reset.on = <<"release", "assert", "release">> /\ desc.reset.off_pre = <<>>
       /\ desc.reset.off = <<"assert">>
<1>1. Variants = {"renesas_sharp", "renesas_auo", "renesas_jdi", "novatek_jdi"}
  BY DEF Variants, sirius_panels
<1>2. CASE panel = "renesas_jdi"
  BY <1>1, <1>2
     DEF Jdi, desc, sirius_panels, sirius_renesas_jdi_init, sirius_on_exit_sleep_120ms_display_on,
         sirius_off_20ms_80ms, ResetReleased, ResetSeq
<1>3. CASE panel = "novatek_jdi"
  BY <1>1, <1>3
     DEF Jdi, desc, sirius_panels, sirius_novatek_jdi_init, sirius_on_exit_sleep_120ms_display_on,
         sirius_off_20ms_80ms, ResetReleased, ResetSeq
<1>4. CASE panel = "renesas_sharp"
  BY <1>1, <1>4
     DEF Jdi, desc, sirius_panels, sirius_renesas_sharp_init, sirius_renesas_sharp_on,
         sirius_renesas_sharp_off, SharpReset, ResetSeq
<1>5. CASE panel = "renesas_auo"
  BY <1>1, <1>5
     DEF Jdi, desc, sirius_panels, sirius_renesas_auo_init, sirius_renesas_auo_on,
         sirius_renesas_auo_off, AuoReset, ResetSeq
<1> QED
  BY <1>1, <1>2, <1>3, <1>4, <1>5 DEF Jdi

\* The script of a power-on with its first commands, and that of a power-off.
LEMMA PrepareScript ==
  LET script == sirius_panel_power_on \o <<"set_lpm">> \o desc.init
  IN  /\ panel \in Jdi =>
           script = <<"rest", "vddio_on", "vsp_on", "release", "set_lpm", "soft_reset", "settings">>
      /\ panel = "renesas_sharp" =>
           script = <<"rest", "vddio_on", "vsp_on", "assert", "release", "set_lpm", "settings",
                      "exit_sleep">>
      /\ panel = "renesas_auo" =>
           script = <<"rest", "vddio_on", "vsp_on", "release", "assert", "release", "set_lpm",
                      "settings", "display_on">>
<1>1. CASE panel \in Jdi
  <2>1. sirius_panel_power_on = <<"rest", "vddio_on", "vsp_on", "release">>
    <3>1. <<"rest", "vddio_on", "vsp_on">> \o <<"release">>
            = <<"rest", "vddio_on", "vsp_on", "release">>
      BY Join4
    <3> QED
      BY <1>1, <3>1, PanelDescs DEF sirius_panel_power_on
  <2>2. sirius_panel_power_on \o <<"set_lpm">>
          = <<"rest", "vddio_on", "vsp_on", "release", "set_lpm">>
    BY <2>1, Join5
  <2>3. sirius_panel_power_on \o <<"set_lpm">> \o desc.init
          = <<"rest", "vddio_on", "vsp_on", "release", "set_lpm", "soft_reset", "settings">>
    <3>1. <<"rest", "vddio_on", "vsp_on", "release", "set_lpm">> \o <<"soft_reset", "settings">>
            = <<"rest", "vddio_on", "vsp_on", "release", "set_lpm", "soft_reset", "settings">>
      BY Join7
    <3> QED
      BY <1>1, <2>2, <3>1, PanelDescs
  <2> QED
    BY <1>1, <2>3 DEF Jdi
<1>2. CASE panel = "renesas_sharp"
  <2>1. sirius_panel_power_on = <<"rest", "vddio_on", "vsp_on", "assert", "release">>
    <3>1. <<"rest", "vddio_on", "vsp_on">> \o <<"assert", "release">>
            = <<"rest", "vddio_on", "vsp_on", "assert", "release">>
      BY Join5
    <3> QED
      BY <1>2, <3>1, PanelDescs DEF sirius_panel_power_on
  <2>2. sirius_panel_power_on \o <<"set_lpm">>
          = <<"rest", "vddio_on", "vsp_on", "assert", "release", "set_lpm">>
    BY <2>1, Join6
  <2>3. sirius_panel_power_on \o <<"set_lpm">> \o desc.init
          = <<"rest", "vddio_on", "vsp_on", "assert", "release", "set_lpm", "settings", "exit_sleep">>
    <3>1. <<"rest", "vddio_on", "vsp_on", "assert", "release", "set_lpm">> \o <<"settings", "exit_sleep">>
            = <<"rest", "vddio_on", "vsp_on", "assert", "release", "set_lpm",
                "settings", "exit_sleep">>
      BY Join8
    <3> QED
      BY <1>2, <2>2, <3>1, PanelDescs
  <2> QED
    BY <1>2, <2>3 DEF Jdi
<1>3. CASE panel = "renesas_auo"
  <2>1. sirius_panel_power_on = <<"rest", "vddio_on", "vsp_on", "release", "assert", "release">>
    <3>1. <<"rest", "vddio_on", "vsp_on">> \o <<"release", "assert", "release">>
            = <<"rest", "vddio_on", "vsp_on", "release", "assert", "release">>
      BY Join6
    <3> QED
      BY <1>3, <3>1, PanelDescs DEF sirius_panel_power_on
  <2>2. sirius_panel_power_on \o <<"set_lpm">>
          = <<"rest", "vddio_on", "vsp_on", "release", "assert", "release", "set_lpm">>
    BY <2>1, Join7
  <2>3. sirius_panel_power_on \o <<"set_lpm">> \o desc.init
          = <<"rest", "vddio_on", "vsp_on", "release", "assert", "release", "set_lpm", "settings",
              "display_on">>
    <3>1. <<"rest", "vddio_on", "vsp_on", "release", "assert", "release", "set_lpm">>
            \o <<"settings", "display_on">>
            = <<"rest", "vddio_on", "vsp_on", "release", "assert", "release", "set_lpm",
                "settings", "display_on">>
      BY Join9
    <3> QED
      BY <1>3, <2>2, <3>1, PanelDescs
  <2> QED
    BY <1>3, <2>3 DEF Jdi
<1> QED
  BY <1>1, <1>2, <1>3

\* The supplies go in the order they came, with the line between or before them.
LEMMA PowerOffScript ==
  /\ panel \in Jdi \union {"renesas_auo"} =>
       sirius_panel_power_off = <<"vsp_off", "assert", "vddio_off", "note_time">>
  /\ panel = "renesas_sharp" =>
       sirius_panel_power_off = <<"assert", "vsp_off", "vddio_off", "note_time">>
<1>1. CASE panel \in Jdi \union {"renesas_auo"}
  <2>1. desc.reset.off_pre = <<>> /\ desc.reset.off = <<"assert">>
    BY <1>1, PanelDescs
  <2>2. desc.reset.off_pre \o <<"vsp_off">> = <<"vsp_off">>
    <3>1. <<"vsp_off">> \in Seq({"vsp_off"})
      OBVIOUS
    <3> QED
      BY <2>1, <3>1, ConcatEmptySeq
  <2>3. desc.reset.off_pre \o <<"vsp_off">> \o desc.reset.off = <<"vsp_off", "assert">>
    BY <2>1, <2>2, Join2
  <2>4. <<"vsp_off", "assert">> \o <<"vddio_off", "note_time">>
          = <<"vsp_off", "assert", "vddio_off", "note_time">>
    BY Join4
  <2>5. sirius_panel_power_off = <<"vsp_off", "assert", "vddio_off", "note_time">>
    BY <2>3, <2>4 DEF sirius_panel_power_off
  <2> QED
    BY <1>1, <2>5 DEF Jdi
<1>2. CASE panel = "renesas_sharp"
  <2>1. desc.reset.off_pre = <<"assert">> /\ desc.reset.off = <<>>
    BY <1>2, PanelDescs
  <2>2. desc.reset.off_pre \o <<"vsp_off">> = <<"assert", "vsp_off">>
    BY <2>1, Join2
  <2>3. desc.reset.off_pre \o <<"vsp_off">> \o desc.reset.off = <<"assert", "vsp_off">>
    <3>1. <<"assert", "vsp_off">> \in Seq({"assert", "vsp_off"})
      OBVIOUS
    <3> QED
      BY <2>1, <2>2, <3>1, ConcatEmptySeq
  <2>4. <<"assert", "vsp_off">> \o <<"vddio_off", "note_time">>
          = <<"assert", "vsp_off", "vddio_off", "note_time">>
    BY Join4
  <2>5. sirius_panel_power_off = <<"assert", "vsp_off", "vddio_off", "note_time">>
    BY <2>3, <2>4 DEF sirius_panel_power_off
  <2> QED
    BY <1>2, <2>5 DEF Jdi
<1> QED
  BY <1>1, <1>2

\* What one step of a script does, by its name.
LEMMA PanelMoves ==
  ASSUME PanelTyped, panel_step
  PROVE  LET s == Head(panel_todo)
         IN  /\ panel_todo # <<>> /\ panel_todo' = Tail(panel_todo)
             /\ panel' = panel /\ panel_call' = panel_call /\ panel_drm' = panel_drm
             /\ panel_on' = CASE s = "vddio_on"  -> panel_on \union {"vddio"}
                              [] s = "vsp_on"    -> panel_on \union {"vsp"}
                              [] s = "vsp_off"   -> panel_on \ {"vsp"}
                              [] s = "vddio_off" -> panel_on \ {"vddio"}
                              [] OTHER           -> panel_on
             /\ s = "release" => panel_released'
             /\ s = "assert" => ~panel_released'
             /\ s \notin {"release", "assert"} => panel_released' = panel_released
             /\ s = "set_lpm" => panel_lpm'
             /\ s # "set_lpm" => panel_lpm' = panel_lpm
             /\ panel_shows' \in [awake : BOOLEAN, lit : BOOLEAN]
             /\ s = "exit_sleep" => panel_shows'.awake /\ (panel_shows.lit => panel_shows'.lit)
             /\ s = "display_on" => panel_shows'.lit /\ (panel_shows.awake => panel_shows'.awake)
             /\ s = "rest" /\ Rests => panel_off_time' = "long" /\ panel_cold' = "long"
             /\ s = "rest" /\ ~Rests => panel_off_time' = panel_off_time /\ panel_cold' = panel_cold
             /\ s = "vddio_off" => panel_off_time' = panel_off_time /\ panel_cold' = "short"
             /\ s = "note_time" => panel_off_time' = "short" /\ panel_cold' = panel_cold
             /\ s \notin {"rest", "vddio_off", "note_time"} =>
                  panel_off_time' = panel_off_time /\ panel_cold' = panel_cold
<1> DEFINE s == Head(panel_todo)
<1>1. /\ panel_todo # <<>> /\ panel_todo' = Tail(panel_todo)
      /\ panel' = panel /\ panel_call' = panel_call /\ panel_drm' = panel_drm
      /\ StepOn(s) /\ StepReset(s) /\ StepShows(s) /\ StepTime(s)
      /\ panel_lpm' = (panel_lpm \/ s = "set_lpm")
  BY DEF panel_step
<1> HIDE DEF s
<1>2. panel_on' = CASE s = "vddio_on"  -> panel_on \union {"vddio"}
                    [] s = "vsp_on"    -> panel_on \union {"vsp"}
                    [] s = "vsp_off"   -> panel_on \ {"vsp"}
                    [] s = "vddio_off" -> panel_on \ {"vddio"}
                    [] OTHER           -> panel_on
  BY <1>1 DEF StepOn
<1>3. /\ s = "release" => panel_released'
      /\ s = "assert" => ~panel_released'
      /\ s \notin {"release", "assert"} => panel_released' = panel_released
  BY <1>1 DEF StepReset
<1>4. /\ s = "set_lpm" => panel_lpm'
      /\ s # "set_lpm" => panel_lpm' = panel_lpm
  BY <1>1 DEF PanelTyped
<1>5. /\ panel_shows' \in [awake : BOOLEAN, lit : BOOLEAN]
      /\ s = "exit_sleep" => panel_shows'.awake /\ (panel_shows.lit => panel_shows'.lit)
      /\ s = "display_on" => panel_shows'.lit /\ (panel_shows.awake => panel_shows'.awake)
  <2>1. panel_shows \in [awake : BOOLEAN, lit : BOOLEAN]
    BY DEF PanelTyped
  <2>2. Dark \in [awake : BOOLEAN, lit : BOOLEAN]
    BY DEF Dark
  <2>3. CASE s \in {"assert", "soft_reset", "vsp_off"}
    BY <1>1, <2>2, <2>3 DEF StepShows
  <2>4. CASE s = "exit_sleep"
    <3>1. panel_shows' = [panel_shows EXCEPT !.awake = TRUE]
      BY <1>1, <2>4 DEF StepShows
    <3> QED
      BY <2>1, <2>4, <3>1
  <2>5. CASE s = "enter_sleep"
    <3>1. panel_shows' = [panel_shows EXCEPT !.awake = FALSE]
      BY <1>1, <2>5 DEF StepShows
    <3> QED
      BY <2>1, <2>5, <3>1
  <2>6. CASE s = "display_on"
    <3>1. panel_shows' = [panel_shows EXCEPT !.lit = TRUE]
      BY <1>1, <2>6 DEF StepShows
    <3> QED
      BY <2>1, <2>6, <3>1
  <2>7. CASE s = "display_off"
    <3>1. panel_shows' = [panel_shows EXCEPT !.lit = FALSE]
      BY <1>1, <2>7 DEF StepShows
    <3> QED
      BY <2>1, <2>7, <3>1
  <2>8. CASE s \notin {"assert", "soft_reset", "vsp_off", "exit_sleep", "enter_sleep", "display_on",
                       "display_off"}
    BY <1>1, <2>1, <2>8 DEF StepShows
  <2> QED
    BY <2>3, <2>4, <2>5, <2>6, <2>7, <2>8
<1>6. /\ s = "rest" /\ Rests => panel_off_time' = "long" /\ panel_cold' = "long"
      /\ s = "rest" /\ ~Rests => panel_off_time' = panel_off_time /\ panel_cold' = panel_cold
      /\ s = "vddio_off" => panel_off_time' = panel_off_time /\ panel_cold' = "short"
      /\ s = "note_time" => panel_off_time' = "short" /\ panel_cold' = panel_cold
      /\ s \notin {"rest", "vddio_off", "note_time"} =>
           panel_off_time' = panel_off_time /\ panel_cold' = panel_cold
  BY <1>1 DEF StepTime
<1> QED
  BY <1>1, <1>2, <1>3, <1>4, <1>5, <1>6 DEF s

\* The wait at the head of a power-on: what it waits for is the time noted.
LEMMA RestStep ==
  ASSUME PanelTyped, Noted, panel_step, panel # "none", Head(panel_todo) = "rest"
  PROVE  Rested'
<1>1. panel' = panel /\ panel_todo # <<"note_time">>
  BY PanelMoves
<1>2. CASE Rests
  BY <1>2, PanelMoves DEF Rested
<1>3. CASE ~Rests
  BY <1>1, <1>3, PanelMoves DEF Rests, Rested, Noted, desc
<1> QED
  BY <1>2, <1>3

\* A step of prepare, for each order of the reset line.
LEMMA JdiPrepareStep ==
  ASSUME PanelTyped, Noted, panel_step, panel # "none", JdiPrepares
  PROVE  JdiPrepares'
<1>1. CASE /\ panel_todo = <<"rest", "vddio_on", "vsp_on", "release", "set_lpm", "soft_reset", "settings">>
          /\ PanelOff
  BY <1>1, PanelMoves, RestStep
     DEF JdiPrepares, Noted, PanelOff, PanelUp, Half, Rested, Awake, Lit, desc
<1>2. CASE /\ panel_todo = <<"vddio_on", "vsp_on", "release", "set_lpm", "soft_reset", "settings">>
          /\ PanelOff /\ Rested
  BY <1>2, PanelMoves
     DEF JdiPrepares, Noted, PanelOff, PanelUp, Half, Rested, Awake, Lit, desc
<1>3. CASE /\ panel_todo = <<"vsp_on", "release", "set_lpm", "soft_reset", "settings">>
          /\ Half /\ ~panel_released
  BY <1>3, PanelMoves
     DEF JdiPrepares, Noted, PanelOff, PanelUp, Half, Rested, Awake, Lit, desc
<1>4. CASE /\ panel_todo = <<"release", "set_lpm", "soft_reset", "settings">>
          /\ panel_on = {"vddio", "vsp"}
  BY <1>4, PanelMoves
     DEF JdiPrepares, Noted, PanelOff, PanelUp, Half, Rested, Awake, Lit, desc
<1>5. CASE panel_todo = <<"set_lpm", "soft_reset", "settings">> /\ PanelUp
  BY <1>5, PanelMoves
     DEF JdiPrepares, Noted, PanelOff, PanelUp, Half, Rested, Awake, Lit, desc
<1>6. CASE panel_todo = <<"soft_reset", "settings">> /\ PanelUp /\ panel_lpm
  BY <1>6, PanelMoves
     DEF JdiPrepares, Noted, PanelOff, PanelUp, Half, Rested, Awake, Lit, desc
<1>7. CASE panel_todo = <<"settings">> /\ PanelUp /\ panel_lpm
  BY <1>7, PanelMoves
     DEF JdiPrepares, Noted, PanelOff, PanelUp, Half, Rested, Awake, Lit, desc
<1> QED
  BY <1>1, <1>2, <1>3, <1>4, <1>5, <1>6, <1>7, PanelMoves DEF JdiPrepares

\* The Sharp: the line goes down and up.
LEMMA SharpPrepareStep ==
  ASSUME PanelTyped, Noted, panel_step, panel # "none", SharpPrepares
  PROVE  SharpPrepares'
<1>1. CASE /\ panel_todo = <<"rest", "vddio_on", "vsp_on", "assert", "release", "set_lpm", "settings",
                            "exit_sleep">>
          /\ PanelOff
  BY <1>1, PanelMoves, RestStep
     DEF SharpPrepares, Noted, PanelOff, PanelUp, Half, Rested, Awake, Lit, desc
<1>2. CASE /\ panel_todo = <<"vddio_on", "vsp_on", "assert", "release", "set_lpm", "settings", "exit_sleep">>
          /\ PanelOff /\ Rested
  BY <1>2, PanelMoves
     DEF SharpPrepares, Noted, PanelOff, PanelUp, Half, Rested, Awake, Lit, desc
<1>3. CASE /\ panel_todo = <<"vsp_on", "assert", "release", "set_lpm", "settings", "exit_sleep">>
          /\ Half /\ ~panel_released
  BY <1>3, PanelMoves
     DEF SharpPrepares, Noted, PanelOff, PanelUp, Half, Rested, Awake, Lit, desc
<1>4. CASE /\ panel_todo = <<"assert", "release", "set_lpm", "settings", "exit_sleep">>
          /\ panel_on = {"vddio", "vsp"}
  BY <1>4, PanelMoves
     DEF SharpPrepares, Noted, PanelOff, PanelUp, Half, Rested, Awake, Lit, desc
<1>5. CASE /\ panel_todo = <<"release", "set_lpm", "settings", "exit_sleep">>
          /\ panel_on = {"vddio", "vsp"}
  BY <1>5, PanelMoves
     DEF SharpPrepares, Noted, PanelOff, PanelUp, Half, Rested, Awake, Lit, desc
<1>6. CASE panel_todo = <<"set_lpm", "settings", "exit_sleep">> /\ PanelUp
  BY <1>6, PanelMoves
     DEF SharpPrepares, Noted, PanelOff, PanelUp, Half, Rested, Awake, Lit, desc
<1>7. CASE panel_todo = <<"settings", "exit_sleep">> /\ PanelUp /\ panel_lpm
  BY <1>7, PanelMoves
     DEF SharpPrepares, Noted, PanelOff, PanelUp, Half, Rested, Awake, Lit, desc
<1>8. CASE panel_todo = <<"exit_sleep">> /\ PanelUp /\ panel_lpm
  BY <1>8, PanelMoves
     DEF SharpPrepares, Noted, PanelOff, PanelUp, Half, Rested, Awake, Lit, desc
<1> QED
  BY <1>1, <1>2, <1>3, <1>4, <1>5, <1>6, <1>7, <1>8, PanelMoves DEF SharpPrepares

\* The AUO: the line goes up, down and up.
LEMMA AuoPrepareStep ==
  ASSUME PanelTyped, Noted, panel_step, panel # "none", AuoPrepares
  PROVE  AuoPrepares'
<1>1. CASE /\ panel_todo = <<"rest", "vddio_on", "vsp_on", "release", "assert", "release", "set_lpm",
                            "settings", "display_on">>
          /\ PanelOff
  BY <1>1, PanelMoves, RestStep
     DEF AuoPrepares, Noted, PanelOff, PanelUp, Half, Rested, Awake, Lit, desc
<1>2. CASE /\ panel_todo = <<"vddio_on", "vsp_on", "release", "assert", "release", "set_lpm", "settings",
                            "display_on">>
          /\ PanelOff /\ Rested
  BY <1>2, PanelMoves
     DEF AuoPrepares, Noted, PanelOff, PanelUp, Half, Rested, Awake, Lit, desc
<1>3. CASE /\ panel_todo = <<"vsp_on", "release", "assert", "release", "set_lpm", "settings", "display_on">>
          /\ Half /\ ~panel_released
  BY <1>3, PanelMoves
     DEF AuoPrepares, Noted, PanelOff, PanelUp, Half, Rested, Awake, Lit, desc
<1>4. CASE /\ panel_todo = <<"release", "assert", "release", "set_lpm", "settings", "display_on">>
          /\ panel_on = {"vddio", "vsp"}
  BY <1>4, PanelMoves
     DEF AuoPrepares, Noted, PanelOff, PanelUp, Half, Rested, Awake, Lit, desc
<1>5. CASE /\ panel_todo = <<"assert", "release", "set_lpm", "settings", "display_on">>
          /\ panel_on = {"vddio", "vsp"}
  BY <1>5, PanelMoves
     DEF AuoPrepares, Noted, PanelOff, PanelUp, Half, Rested, Awake, Lit, desc
<1>6. CASE /\ panel_todo = <<"release", "set_lpm", "settings", "display_on">>
          /\ panel_on = {"vddio", "vsp"}
  BY <1>6, PanelMoves
     DEF AuoPrepares, Noted, PanelOff, PanelUp, Half, Rested, Awake, Lit, desc
<1>7. CASE panel_todo = <<"set_lpm", "settings", "display_on">> /\ PanelUp
  BY <1>7, PanelMoves
     DEF AuoPrepares, Noted, PanelOff, PanelUp, Half, Rested, Awake, Lit, desc
<1>8. CASE panel_todo = <<"settings", "display_on">> /\ PanelUp /\ panel_lpm
  BY <1>8, PanelMoves
     DEF AuoPrepares, Noted, PanelOff, PanelUp, Half, Rested, Awake, Lit, desc
<1>9. CASE panel_todo = <<"display_on">> /\ PanelUp /\ panel_lpm
  BY <1>9, PanelMoves
     DEF AuoPrepares, Noted, PanelOff, PanelUp, Half, Rested, Awake, Lit, desc
<1> QED
  BY <1>1, <1>2, <1>3, <1>4, <1>5, <1>6, <1>7, <1>8, <1>9, PanelMoves DEF AuoPrepares

\* A step of enable: the commands that prepare has left.
LEMMA JdiEnableStep ==
  ASSUME PanelTyped, panel_step, JdiEnables
  PROVE  JdiEnables'
<1>1. CASE panel_todo = <<"exit_sleep", "display_on">>
  BY <1>1, PanelMoves
     DEF JdiEnables, PanelOff, PanelUp, Half, Rested, Awake, Lit, desc
<1>2. CASE panel_todo = <<"display_on">> /\ Awake
  BY <1>2, PanelMoves
     DEF JdiEnables, PanelOff, PanelUp, Half, Rested, Awake, Lit, desc
<1> QED
  BY <1>1, <1>2, PanelMoves DEF JdiEnables

\* The Sharp has left sleep in prepare.
LEMMA SharpEnableStep ==
  ASSUME PanelTyped, panel_step, SharpEnables
  PROVE  SharpEnables'
<1>1. CASE panel_todo = <<"display_on">> /\ Awake
  BY <1>1, PanelMoves
     DEF SharpEnables, PanelOff, PanelUp, Half, Rested, Awake, Lit, desc
<1> QED
  BY <1>1, PanelMoves DEF SharpEnables

\* The AUO has its picture on from prepare.
LEMMA AuoEnableStep ==
  ASSUME PanelTyped, panel_step, AuoEnables
  PROVE  AuoEnables'
<1>1. CASE panel_todo = <<"exit_sleep">> /\ Lit
  BY <1>1, PanelMoves
     DEF AuoEnables, PanelOff, PanelUp, Half, Rested, Awake, Lit, desc
<1> QED
  BY <1>1, PanelMoves DEF AuoEnables

\* A step of disable.
LEMMA DisableStep ==
  ASSUME PanelTyped, panel_step, PanelDisables
  PROVE  PanelDisables'
<1>1. CASE panel_todo = <<"display_off", "enter_sleep">>
  BY <1>1, PanelMoves
     DEF PanelDisables
<1>2. CASE panel_todo = <<"enter_sleep">>
  BY <1>2, PanelMoves
     DEF PanelDisables
<1> QED
  BY <1>1, <1>2, PanelMoves DEF PanelDisables

\* A step of a power-off that pulls the line low between the supplies.
LEMMA LateStep ==
  ASSUME PanelTyped, panel_step, LateReset
  PROVE  LateReset'
<1>1. CASE panel_todo = <<"vsp_off", "assert", "vddio_off", "note_time">> /\ PanelUp
  BY <1>1, PanelMoves
     DEF LateReset, PanelDown, PanelOff, PanelUp, Half, Rested, Awake, Lit, desc
<1>2. CASE panel_todo = <<"assert", "vddio_off", "note_time">> /\ Half
  BY <1>2, PanelMoves
     DEF LateReset, PanelDown, PanelOff, PanelUp, Half, Rested, Awake, Lit, desc
<1>3. CASE panel_todo = <<"vddio_off", "note_time">> /\ Half /\ ~panel_released
  BY <1>3, PanelMoves
     DEF LateReset, PanelDown, PanelOff, PanelUp, Half, Rested, Awake, Lit, desc
<1>4. CASE panel_todo = <<"note_time">> /\ PanelOff
  BY <1>4, PanelMoves
     DEF LateReset, PanelDown, PanelOff, PanelUp, Half, Rested, Awake, Lit, desc
<1> QED
  BY <1>1, <1>2, <1>3, <1>4, PanelMoves DEF LateReset, PanelDown

\* A step of one that pulls it low first.
LEMMA EarlyStep ==
  ASSUME PanelTyped, panel_step, EarlyReset
  PROVE  EarlyReset'
<1>1. CASE panel_todo = <<"assert", "vsp_off", "vddio_off", "note_time">> /\ PanelUp
  BY <1>1, PanelMoves
     DEF EarlyReset, PanelDown, PanelOff, PanelUp, Half, Rested, Awake, Lit, desc
<1>2. CASE panel_todo = <<"vsp_off", "vddio_off", "note_time">>
            /\ panel_on = {"vddio", "vsp"} /\ ~panel_released
  BY <1>2, PanelMoves
     DEF EarlyReset, PanelDown, PanelOff, PanelUp, Half, Rested, Awake, Lit, desc
<1>3. CASE panel_todo = <<"vddio_off", "note_time">> /\ Half /\ ~panel_released
  BY <1>3, PanelMoves
     DEF EarlyReset, PanelDown, PanelOff, PanelUp, Half, Rested, Awake, Lit, desc
<1>4. CASE panel_todo = <<"note_time">> /\ PanelOff
  BY <1>4, PanelMoves
     DEF EarlyReset, PanelDown, PanelOff, PanelUp, Half, Rested, Awake, Lit, desc
<1> QED
  BY <1>1, <1>2, <1>3, <1>4, PanelMoves DEF EarlyReset, PanelDown

\* vddio goes last, and then the time is noted.
LEMMA NotedNext ==
  ASSUME PanelInv, panel_todo # <<>>, Head(panel_todo) = "vddio_off"
  PROVE  Tail(panel_todo) = <<"note_time">>
<1>1. CASE panel_call = "none"
  BY <1>1 DEF PanelInv, InNone
<1>2. CASE panel_call = "prepare"
  <2>1. panel # "none"
    BY <1>2 DEF PanelInv, PanelTyped
  <2>2. JdiPrepares \/ SharpPrepares \/ AuoPrepares
    BY <1>2, <2>1, PanelDescs DEF PanelInv, PanelTyped, InPrepare, Jdi
  <2>3. CASE JdiPrepares
    BY <2>3 DEF JdiPrepares
  <2>4. CASE SharpPrepares
    BY <2>4 DEF SharpPrepares
  <2>5. CASE AuoPrepares
    BY <2>5 DEF AuoPrepares
  <2> QED
    BY <2>2, <2>3, <2>4, <2>5
<1>3. CASE panel_call = "enable"
  <2>1. panel # "none"
    BY <1>3 DEF PanelInv, PanelTyped
  <2>2. JdiEnables \/ SharpEnables \/ AuoEnables
    BY <1>3, <2>1, PanelDescs DEF PanelInv, PanelTyped, InEnable, Jdi
  <2> QED
    BY <2>2 DEF JdiEnables, SharpEnables, AuoEnables
<1>4. CASE panel_call = "disable"
  BY <1>4 DEF PanelInv, InDisable, PanelDisables
<1>5. CASE panel_call \in {"unprepare", "failed"}
  <2>1. panel_todo = <<>> \/ EarlyReset \/ LateReset
    BY <1>5 DEF PanelInv, InUnprepare, InFailed, GoesDown
  <2>2. \/ panel_todo = <<"vddio_off", "note_time">>
        \/ Head(panel_todo) \in {"assert", "vsp_off", "note_time"}
    BY <2>1 DEF EarlyReset, LateReset, PanelDown
  <2>3. panel_todo = <<"vddio_off", "note_time">>
    BY <2>2
  <2>4. Tail(<<"vddio_off", "note_time">>) = <<"note_time">>
    OBVIOUS
  <2> QED
    BY <2>3, <2>4
<1> QED
  BY <1>1, <1>2, <1>3, <1>4, <1>5 DEF PanelInv, PanelTyped

\* panel_step: the next step of the call that runs.
LEMMA PanelStepInv ==
  ASSUME PanelInv, panel_step
  PROVE  PanelInv'
<1>1. /\ panel_todo # <<>> /\ panel_todo' = Tail(panel_todo)
      /\ panel' = panel /\ panel_call' = panel_call /\ panel_drm' = panel_drm
      /\ panel_shows' \in [awake : BOOLEAN, lit : BOOLEAN]
      /\ panel_lpm' \in BOOLEAN
  BY PanelMoves DEF PanelInv, PanelTyped
<1>2. panel_call # "none" /\ panel # "none"
  BY <1>1 DEF PanelInv, PanelTyped, InNone
<1>3. PanelTyped'
  BY <1>1 DEF PanelInv, PanelTyped
<1>4. Noted'
  <2>1. CASE Head(panel_todo) = "vddio_off"
    BY <1>1, <2>1, NotedNext DEF Noted
  <2>2. CASE Head(panel_todo) = "note_time"
    BY <2>2, PanelMoves DEF PanelInv, Noted
  <2>3. CASE Head(panel_todo) = "rest"
    BY <1>1, <2>3, PanelMoves DEF PanelInv, Noted
  <2>4. CASE Head(panel_todo) \notin {"vddio_off", "note_time", "rest"}
    BY <1>1, <2>4, PanelMoves DEF PanelInv, Noted
  <2> QED
    BY <2>1, <2>2, <2>3, <2>4
<1>5. InPrepare'
  BY <1>1, <1>2, JdiPrepareStep, SharpPrepareStep, AuoPrepareStep DEF PanelInv, InPrepare
<1>6. (PanelUp /\ ~panel_lpm /\ panel_call \in {"enable", "disable"}) => PanelUp' /\ ~panel_lpm'
  <2> SUFFICES ASSUME PanelUp, ~panel_lpm, panel_call \in {"enable", "disable"}
               PROVE  PanelUp' /\ ~panel_lpm'
    OBVIOUS
  <2>1. Head(panel_todo) \in {"exit_sleep", "display_on", "display_off", "enter_sleep"}
    <3>1. CASE panel_call = "disable"
      BY <1>1, <3>1 DEF PanelInv, InDisable, PanelDisables
    <3>2. CASE panel_call = "enable"
      <4>1. JdiEnables \/ SharpEnables \/ AuoEnables
        BY <1>2, <3>2, PanelDescs DEF PanelInv, PanelTyped, InEnable, Jdi
      <4> QED
        BY <1>1, <4>1 DEF JdiEnables, SharpEnables, AuoEnables
    <3> QED
      BY <3>1, <3>2
  <2> QED
    BY <2>1, PanelMoves DEF PanelInv, PanelUp
<1>7. InEnable'
  BY <1>1, <1>6, JdiEnableStep, SharpEnableStep, AuoEnableStep DEF PanelInv, InEnable
<1>8. InDisable'
  BY <1>1, <1>6, DisableStep DEF PanelInv, InDisable
<1>9. GoesDown => GoesDown'
  BY <1>1, LateStep, EarlyStep DEF PanelInv, GoesDown
<1>10. InUnprepare' /\ InFailed' /\ InNone'
  BY <1>1, <1>2, <1>9 DEF PanelInv, InUnprepare, InFailed, InNone
<1> QED
  BY <1>3, <1>4, <1>5, <1>7, <1>8, <1>10 DEF PanelInv

\* A call begins with its script.
LEMMA PanelCallBegins ==
  ASSUME PanelInv,
         sirius_panel_prepare \/ sirius_panel_enable \/ sirius_panel_disable \/ sirius_panel_unprepare
  PROVE  PanelInv'
<1>1. /\ panel # "none" /\ panel_call = "none" /\ panel' = panel
      /\ UNCHANGED <<panel_on, panel_released, panel_shows, panel_off_time, panel_cold>>
      /\ panel_drm' = panel_drm /\ panel_lpm' \in BOOLEAN
  BY DEF sirius_panel_prepare, sirius_panel_enable, sirius_panel_disable, sirius_panel_unprepare,
         Calls, panel_power, PanelInv, PanelTyped
<1>2. PanelTyped' /\ Noted'
  <2>1. panel_call' \in {"prepare", "enable", "disable", "unprepare"}
    BY DEF sirius_panel_prepare, sirius_panel_enable, sirius_panel_disable, sirius_panel_unprepare, Calls
  <2> QED
    BY <1>1, <2>1 DEF PanelInv, PanelTyped, InNone, Noted
<1>3. panel \in Variants /\ panel \in Jdi \union {"renesas_sharp", "renesas_auo"}
  BY <1>1, PanelDescs DEF PanelInv, PanelTyped, Jdi
<1>4. CASE sirius_panel_prepare
  <2>1. /\ ~panel_drm.prepared /\ panel_call' = "prepare"
        /\ panel_todo' = sirius_panel_power_on \o <<"set_lpm">> \o desc.init
    BY <1>4 DEF sirius_panel_prepare, Calls
  <2>2. PanelOff'
    BY <1>1, <2>1 DEF PanelInv, InNone, PanelOff
  <2>3. /\ panel' \in Jdi => JdiPrepares'
        /\ panel' = "renesas_sharp" => SharpPrepares'
        /\ panel' = "renesas_auo" => AuoPrepares'
    BY <1>1, <2>1, <2>2, PrepareScript DEF JdiPrepares, SharpPrepares, AuoPrepares
  <2> QED
    BY <1>1, <1>2, <2>1, <2>3
       DEF PanelInv, InNone, InPrepare, InEnable, InDisable, InUnprepare, InFailed
<1>5. CASE sirius_panel_enable
  <2>1. /\ panel_drm.fresh /\ panel_call' = "enable" /\ panel_todo' = desc.on /\ ~panel_lpm'
    BY <1>5 DEF sirius_panel_enable, Calls
  <2>2. PanelUp' /\ Prepared
    BY <1>1, <2>1 DEF PanelInv, InNone, PanelUp, Prepared
  <2>3. /\ panel' \in Jdi => JdiEnables'
        /\ panel' = "renesas_sharp" => SharpEnables'
        /\ panel' = "renesas_auo" => AuoEnables'
    BY <1>1, <2>1, <2>2, PanelDescs DEF JdiEnables, SharpEnables, AuoEnables, Prepared, Awake, Lit
  <2> QED
    BY <1>1, <1>2, <2>1, <2>2, <2>3
       DEF PanelInv, InNone, InPrepare, InEnable, InDisable, InUnprepare, InFailed
<1>6. CASE sirius_panel_disable
  <2>1. /\ panel_drm.enabled /\ panel_call' = "disable" /\ panel_todo' = desc.off /\ ~panel_lpm'
    BY <1>6 DEF sirius_panel_disable, Calls
  <2>2. PanelUp'
    BY <1>1, <2>1 DEF PanelInv, PanelTyped, InNone, PanelUp
  <2>3. PanelDisables'
    BY <1>3, <2>1, PanelDescs DEF PanelDisables
  <2> QED
    BY <1>1, <1>2, <2>1, <2>2, <2>3
       DEF PanelInv, InNone, InPrepare, InEnable, InDisable, InUnprepare, InFailed
<1>7. CASE sirius_panel_unprepare
  <2>1. /\ panel_drm.prepared /\ ~panel_drm.enabled /\ panel_call' = "unprepare"
        /\ panel_todo' = sirius_panel_power_off
    BY <1>7 DEF sirius_panel_unprepare, Calls
  <2>2. PanelUp'
    BY <1>1, <2>1 DEF PanelInv, InNone, PanelUp
  <2>3. GoesDown'
    BY <1>1, <1>3, <2>1, <2>2, PowerOffScript DEF GoesDown, EarlyReset, LateReset, Jdi
  <2> QED
    BY <1>1, <1>2, <2>1, <2>3
       DEF PanelInv, InNone, InPrepare, InEnable, InDisable, InUnprepare, InFailed
<1> QED
  BY <1>4, <1>5, <1>6, <1>7

\* A call ends, and the core remembers whether it did.
LEMMA PanelCallEnds ==
  ASSUME PanelInv, call_ends
  PROVE  PanelInv'
<1>1. /\ panel_call # "none" /\ panel_todo = <<>> /\ panel_todo' = <<>> /\ panel_call' = "none"
      /\ panel' = panel /\ panel_lpm' = panel_lpm
      /\ UNCHANGED <<panel_on, panel_released, panel_shows, panel_off_time, panel_cold>>
  BY DEF call_ends, panel_power
<1>2. panel # "none" /\ panel \in Jdi \union {"renesas_sharp", "renesas_auo"}
  BY <1>1, PanelDescs DEF PanelInv, PanelTyped, Jdi
<1>3. Noted'
  BY <1>1 DEF PanelInv, Noted
<1>4. SUFFICES PanelTyped' /\ InNone'
  BY <1>1, <1>3 DEF PanelInv, InPrepare, InEnable, InDisable, InUnprepare, InFailed
<1>5. panel_drm \in [prepared : BOOLEAN, enabled : BOOLEAN, fresh : BOOLEAN]
  BY DEF PanelInv, PanelTyped
<1>6. CASE panel_call = "prepare"
  <2>1. panel_drm' = [panel_drm EXCEPT !.prepared = TRUE, !.fresh = TRUE]
    BY <1>6 DEF call_ends
  <2>2. /\ panel_drm' \in [prepared : BOOLEAN, enabled : BOOLEAN, fresh : BOOLEAN]
        /\ panel_drm'.prepared /\ panel_drm'.fresh /\ (panel_drm'.enabled => panel_drm.enabled)
    BY <1>5, <2>1
  <2>3. ~panel_drm.enabled /\ ~panel_drm'.enabled
    BY <1>6, <2>2 DEF PanelInv, PanelTyped, InPrepare
  <2>4. PanelTyped'
    BY <1>1, <2>2, <2>3 DEF PanelInv, PanelTyped
  <2>5. Prepared
    <3>1. /\ panel \in Jdi => JdiPrepares
          /\ panel = "renesas_sharp" => SharpPrepares
          /\ panel = "renesas_auo" => AuoPrepares
      BY <1>6 DEF PanelInv, InPrepare
    <3>2. CASE panel \in Jdi
      BY <1>1, <3>1, <3>2 DEF JdiPrepares, Prepared, Jdi
    <3>3. CASE panel = "renesas_sharp"
      BY <1>1, <3>1, <3>3 DEF SharpPrepares, Prepared
    <3>4. CASE panel = "renesas_auo"
      BY <1>1, <3>1, <3>4 DEF AuoPrepares, Prepared
    <3> QED
      BY <1>2, <3>2, <3>3, <3>4
  <2>6. Prepared' /\ PanelUp'
    BY <1>1, <2>5 DEF Prepared, PanelUp, Awake, Lit
  <2> QED
    BY <1>1, <2>2, <2>3, <2>4, <2>6 DEF InNone
<1>7. CASE panel_call = "enable"
  <2>1. panel_drm' = [panel_drm EXCEPT !.enabled = TRUE, !.fresh = FALSE]
    BY <1>7 DEF call_ends
  <2>2. /\ panel_drm' \in [prepared : BOOLEAN, enabled : BOOLEAN, fresh : BOOLEAN]
        /\ panel_drm'.enabled /\ ~panel_drm'.fresh /\ (panel_drm.prepared => panel_drm'.prepared)
    BY <1>5, <2>1
  <2>3. panel_drm.prepared
    BY <1>7 DEF PanelInv, PanelTyped, InEnable
  <2>4. PanelTyped'
    BY <1>1, <1>2, <2>2, <2>3 DEF PanelInv, PanelTyped
  <2>5. PanelUp /\ Awake /\ Lit
    BY <1>1, <1>2, <1>7 DEF PanelInv, InEnable, JdiEnables, SharpEnables, AuoEnables
  <2> QED
    BY <1>1, <2>2, <2>3, <2>4, <2>5 DEF InNone, PanelUp, Awake, Lit
<1>8. CASE panel_call = "disable"
  <2>1. panel_drm' = [panel_drm EXCEPT !.enabled = FALSE]
    BY <1>8 DEF call_ends
  <2>2. /\ panel_drm' \in [prepared : BOOLEAN, enabled : BOOLEAN, fresh : BOOLEAN]
        /\ ~panel_drm'.enabled /\ (panel_drm.prepared => panel_drm'.prepared)
        /\ (panel_drm'.fresh => panel_drm.fresh)
    BY <1>5, <2>1
  <2>3. panel_drm.prepared /\ ~panel_drm.fresh /\ PanelUp
    BY <1>8 DEF PanelInv, PanelTyped, InDisable
  <2>4. PanelTyped'
    BY <1>1, <1>2, <2>2, <2>3 DEF PanelInv, PanelTyped
  <2> QED
    BY <1>1, <2>2, <2>3, <2>4 DEF InNone, PanelUp
<1>9. CASE panel_call = "unprepare"
  <2>1. panel_drm' = [panel_drm EXCEPT !.prepared = FALSE, !.fresh = FALSE]
    BY <1>9 DEF call_ends
  <2>2. /\ panel_drm' \in [prepared : BOOLEAN, enabled : BOOLEAN, fresh : BOOLEAN]
        /\ ~panel_drm'.prepared /\ ~panel_drm'.fresh /\ (panel_drm'.enabled => panel_drm.enabled)
    BY <1>5, <2>1
  <2>3. ~panel_drm.enabled /\ PanelOff
    BY <1>1, <1>9 DEF PanelInv, InUnprepare, GoesDown, EarlyReset, LateReset, PanelDown
  <2>4. PanelTyped'
    BY <1>1, <1>2, <2>2, <2>3 DEF PanelInv, PanelTyped
  <2> QED
    BY <1>1, <2>2, <2>3, <2>4 DEF InNone, PanelOff
<1>10. CASE panel_call = "failed"
  <2>1. panel_drm' = [panel_drm EXCEPT !.fresh = FALSE]
    BY <1>10 DEF call_ends
  <2>2. /\ panel_drm' \in [prepared : BOOLEAN, enabled : BOOLEAN, fresh : BOOLEAN]
        /\ ~panel_drm'.fresh /\ (panel_drm'.enabled => panel_drm.enabled)
        /\ (panel_drm'.prepared <=> panel_drm.prepared)
    BY <1>5, <2>1
  <2>3. ~panel_drm.enabled /\ (IF panel_drm.prepared THEN PanelUp ELSE PanelOff)
    BY <1>1, <1>10 DEF PanelInv, InFailed, GoesDown, EarlyReset, LateReset, PanelDown
  <2>4. PanelTyped'
    BY <1>1, <1>2, <2>2, <2>3 DEF PanelInv, PanelTyped
  <2> QED
    BY <1>1, <2>2, <2>3, <2>4 DEF InNone, PanelOff, PanelUp
<1> QED
  BY <1>1, <1>6, <1>7, <1>8, <1>9, <1>10 DEF PanelInv, PanelTyped

\* The power fails before the reset line is touched, and a command goes to a
\* panel that is up.
LEMMA PanelHeads ==
  ASSUME PanelInv, panel_todo # <<>>
  PROVE  /\ Head(panel_todo) \in {"vddio_on", "vsp_on"} => panel_call = "prepare" /\ ~panel_released
         /\ Head(panel_todo) \in Commands => PanelUp /\ panel_lpm = (panel_call = "prepare")
         /\ Head(panel_todo) = "vddio_on" => Rested
<1>0. panel_call # "none" /\ panel # "none" /\ panel_lpm \in BOOLEAN
      /\ panel \in Jdi \union {"renesas_sharp", "renesas_auo"}
  BY PanelDescs DEF PanelInv, PanelTyped, InNone, Jdi
<1>1. CASE panel_call = "prepare"
  <2>1. (Head(panel_todo) \in {"vddio_on", "vsp_on"} => ~panel_released)
        /\ (Head(panel_todo) \in Commands => PanelUp /\ panel_lpm)
        /\ (Head(panel_todo) = "vddio_on" => Rested)
    <3>1. /\ panel \in Jdi => JdiPrepares
          /\ panel = "renesas_sharp" => SharpPrepares
          /\ panel = "renesas_auo" => AuoPrepares
      BY <1>1 DEF PanelInv, InPrepare
    <3>2. CASE JdiPrepares
      BY <3>2 DEF JdiPrepares, Commands, PanelOff
    <3>3. CASE SharpPrepares
      BY <3>3 DEF SharpPrepares, Commands, PanelOff
    <3>4. CASE AuoPrepares
      BY <3>4 DEF AuoPrepares, Commands, PanelOff
    <3> QED
      BY <1>0, <3>1, <3>2, <3>3, <3>4
  <2> QED
    BY <1>0, <1>1, <2>1
<1>2. CASE panel_call \in {"enable", "disable"}
  <2>1. PanelUp /\ ~panel_lpm
    BY <1>2 DEF PanelInv, InEnable, InDisable
  <2>2. Head(panel_todo) \in {"exit_sleep", "display_on", "display_off", "enter_sleep"}
    <3>1. CASE panel_call = "disable"
      BY <3>1 DEF PanelInv, InDisable, PanelDisables
    <3>2. CASE panel_call = "enable"
      <4>1. JdiEnables \/ SharpEnables \/ AuoEnables
        BY <1>0, <3>2 DEF PanelInv, InEnable
      <4> QED
        BY <4>1 DEF JdiEnables, SharpEnables, AuoEnables
    <3> QED
      BY <1>2, <3>1, <3>2
  <2> QED
    BY <1>0, <1>2, <2>1, <2>2
<1>3. CASE panel_call \in {"unprepare", "failed"}
  <2>1. EarlyReset \/ LateReset
    BY <1>3 DEF PanelInv, InUnprepare, InFailed, GoesDown
  <2>2. Head(panel_todo) \in {"vsp_off", "assert", "vddio_off", "note_time"}
    <3>1. CASE EarlyReset
      BY <3>1 DEF EarlyReset, PanelDown
    <3>2. CASE LateReset
      BY <3>2 DEF LateReset, PanelDown
    <3> QED
      BY <2>1, <3>1, <3>2
  <2> QED
    BY <2>2 DEF Commands
<1> QED
  BY <1>0, <1>1, <1>2, <1>3 DEF PanelInv, PanelTyped

\* A supply or a command that fails.
LEMMA PanelFails ==
  ASSUME PanelInv, supply_fails \/ init_fails \/ command_fails
  PROVE  PanelInv'
<1>1. /\ panel_todo # <<>> /\ panel' = panel /\ panel_drm' = panel_drm /\ panel_lpm' = panel_lpm
      /\ panel_shows' = panel_shows /\ panel_released' = panel_released
      /\ panel_off_time' = panel_off_time
  BY DEF supply_fails, init_fails, command_fails, PanelFault, panel_power
<1>2. panel_call # "none" /\ panel # "none"
      /\ panel \in Jdi \union {"renesas_sharp", "renesas_auo"}
  BY <1>1, PanelDescs DEF PanelInv, PanelTyped, InNone, Jdi
<1>3. CASE supply_fails
  <2>1. /\ Head(panel_todo) \in {"vddio_on", "vsp_on"}
        /\ panel_call' = "failed" /\ panel_todo' = <<>> /\ panel_on' = {}
        /\ panel_cold' \in {"cut", panel_cold}
    BY <1>3 DEF supply_fails, PanelFault
  <2>2. panel_call = "prepare" /\ ~panel_released
    BY <1>1, <2>1, PanelHeads
  <2>3. ~panel_drm.prepared /\ ~panel_drm.enabled
    BY <2>2 DEF PanelInv, PanelTyped, InPrepare
  <2>4. GoesDown'
    BY <1>1, <2>1, <2>2 DEF GoesDown, EarlyReset, LateReset, PanelDown, PanelOff
  <2>5. Noted'
    BY <1>1, <2>1 DEF PanelInv, Noted
  <2>6. PanelTyped'
    BY <1>1, <1>2, <2>1 DEF PanelInv, PanelTyped
  <2> QED
    BY <1>1, <2>1, <2>3, <2>4, <2>5, <2>6
       DEF PanelInv, InNone, InPrepare, InEnable, InDisable, InUnprepare, InFailed
<1>4. CASE init_fails
  <2>1. /\ Head(panel_todo) \in Commands /\ panel_call = "prepare"
        /\ panel_call' = "failed" /\ panel_todo' = sirius_panel_power_off
        /\ panel_on' = panel_on /\ panel_cold' = panel_cold
    BY <1>4 DEF init_fails, PanelFault, panel_power
  <2>2. PanelUp'
    BY <1>1, <2>1, PanelHeads DEF PanelUp
  <2>3. ~panel_drm.prepared /\ ~panel_drm.enabled
    BY <2>1 DEF PanelInv, PanelTyped, InPrepare
  <2>4. GoesDown'
    BY <1>1, <1>2, <2>1, <2>2, PowerOffScript DEF GoesDown, EarlyReset, LateReset, Jdi
  <2>5. Noted'
    BY <1>1, <2>1 DEF PanelInv, Noted, Commands
  <2>6. PanelTyped'
    BY <1>1, <1>2, <2>1 DEF PanelInv, PanelTyped
  <2> QED
    BY <1>1, <2>1, <2>3, <2>4, <2>5, <2>6
       DEF PanelInv, InNone, InPrepare, InEnable, InDisable, InUnprepare, InFailed
<1>5. CASE command_fails
  <2>1. /\ Head(panel_todo) \in Commands /\ panel_call \in {"enable", "disable"}
        /\ panel_call' = IF panel_call = "enable" THEN "failed" ELSE "disable"
        /\ panel_todo' = <<>> /\ panel_on' = panel_on /\ panel_cold' = panel_cold
    BY <1>5 DEF command_fails, PanelFault, panel_power
  <2>2. PanelUp'
    BY <1>1, <2>1, PanelHeads DEF PanelUp
  <2>3. panel_drm.prepared
    BY <2>1 DEF PanelInv, PanelTyped, InEnable, InDisable
  <2>4. panel_call = "enable" => ~panel_drm.enabled
    BY DEF PanelInv, PanelTyped, InEnable
  <2>5. Noted'
    BY <1>1, <2>1 DEF PanelInv, Noted, Commands
  <2>6. PanelTyped'
    BY <1>1, <1>2, <2>1 DEF PanelInv, PanelTyped
  <2>7. InDisable' /\ InFailed'
    BY <1>1, <2>1, <2>2, <2>3, <2>4 DEF PanelInv, InDisable, InFailed, PanelDisables
  <2> QED
    BY <2>1, <2>5, <2>6, <2>7 DEF PanelInv, InNone, InPrepare, InEnable, InUnprepare
<1> QED
  BY <1>3, <1>4, <1>5

\* A variant that is chosen is one of the four.
LEMMA SelectsVariant ==
  ASSUME NEW param \in Variants \union {"unset", "unknown"},
         NEW compatible \in Variants \union {"auto"}, NEW adc
  PROVE  sirius_panel_select(param, compatible, adc) \subseteq Variants
BY DEF sirius_panel_select, sirius_panel_detect

\* Probe, remove and the passing of time: no call runs.
LEMMA PanelBound ==
  ASSUME PanelInv, sirius_panel_probe \/ sirius_panel_remove \/ panel_time_passes
  PROVE  PanelInv'
<1>1. /\ panel_call = "none" /\ panel_call' = "none" /\ panel_todo' = panel_todo /\ panel_todo = <<>>
      /\ panel_on' = panel_on /\ panel_shows' = panel_shows /\ panel_drm' = panel_drm
  BY DEF sirius_panel_probe, sirius_panel_remove, panel_time_passes, panel_power, PanelInv, PanelTyped,
         InNone
<1>2. CASE sirius_panel_probe
  <2>1. panel' \in Variants
    <3>1. PICK param \in Variants \union {"unset", "unknown"}, compatible \in Variants \union {"auto"},
               adc \in AdcReadings : panel' \in sirius_panel_select(param, compatible, adc)
      BY <1>2 DEF sirius_panel_probe
    <3> QED
      BY <3>1, SelectsVariant
  <2>2. panel = "none" /\ ~panel_released' /\ ~panel_lpm' /\ panel_lpm' \in BOOLEAN
        /\ panel_cold' \in {"long", "cut"}
    BY <1>2 DEF sirius_panel_probe
  <2>3. ~panel_drm.prepared
    BY <2>2 DEF PanelInv, PanelTyped
  <2>4. panel' # "none"
    BY <2>1, PanelDescs
  <2>5. PanelTyped' /\ Noted'
    BY <1>1, <2>1, <2>2, <2>4 DEF PanelInv, PanelTyped, Noted
  <2>6. InNone'
    BY <1>1, <2>2, <2>3 DEF PanelInv, PanelTyped, InNone, PanelOff
  <2> QED
    BY <1>1, <2>5, <2>6 DEF PanelInv, InPrepare, InEnable, InDisable, InUnprepare, InFailed
<1>3. CASE sirius_panel_remove
  <2>1. panel' = "none" /\ ~panel_drm.prepared /\ panel_released' = panel_released
        /\ panel_lpm' = panel_lpm
    BY <1>3 DEF sirius_panel_remove, panel_power
  <2>2. PanelTyped' /\ Noted'
    BY <1>1, <2>1 DEF PanelInv, PanelTyped, Noted
  <2>3. InNone'
    BY <1>1, <2>1 DEF PanelInv, PanelTyped, InNone, PanelOff
  <2> QED
    BY <1>1, <2>2, <2>3 DEF PanelInv, InPrepare, InEnable, InDisable, InUnprepare, InFailed
<1>4. CASE panel_time_passes
  <2>1. panel' = panel /\ panel_released' = panel_released /\ panel_lpm' = panel_lpm
        /\ panel_cold' = "long"
    BY <1>4 DEF panel_time_passes
  <2>2. PanelTyped' /\ Noted'
    BY <1>1, <2>1 DEF PanelInv, PanelTyped, Noted
  <2>3. InNone'
    BY <1>1, <2>1 DEF PanelInv, PanelTyped, InNone, PanelOff, PanelUp, Prepared, Awake, Lit
  <2> QED
    BY <1>1, <2>2, <2>3 DEF PanelInv, InPrepare, InEnable, InDisable, InUnprepare, InFailed
<1> QED
  BY <1>2, <1>3, <1>4

\* The start, and a step in which nothing changes.
LEMMA PanelStarts ==
  /\ PanelInit => PanelInv
  /\ PanelInv /\ UNCHANGED panel_vars => PanelInv'
<1>1. ASSUME PanelInit PROVE PanelInv
  BY <1>1
     DEF PanelInit, Dark, PanelInv, PanelTyped, InNone, InPrepare, InEnable, InDisable, InUnprepare,
         InFailed, Noted, PanelOff
<1>2. ASSUME PanelInv, UNCHANGED panel_vars PROVE PanelInv'
  BY <1>2
     DEF panel_vars, panel_power, PanelInv, PanelTyped, InNone, InPrepare, InEnable, InDisable,
         InUnprepare, InFailed, Noted, PanelOff, PanelUp, Half, Rested, Awake, Lit, desc, Prepared,
         JdiPrepares, SharpPrepares, AuoPrepares, JdiEnables, SharpEnables, AuoEnables,
         PanelDisables, PanelDown, LateReset, EarlyReset, GoesDown
<1> QED
  BY <1>1, <1>2

\* sirius_panel_prepare(), _enable(), _disable(), _unprepare(): for every
\* variant and whatever fails, supplies, reset line and commands keep their
\* order, a panel that is not prepared is off, an enabled one shows a picture,
\* and one that has to rest rests.
THEOREM PanelSequencedAlways == PanelSpec => []PanelSequenced
<1>1. PanelInv => PanelInOrder
  <2> SUFFICES ASSUME PanelInv PROVE PanelInOrder
    OBVIOUS
  <2>1. panel_todo # <<>> /\ Head(panel_todo) \in Commands
          => /\ panel_on = {"vddio", "vsp"} /\ panel_released
             /\ panel_lpm = (panel_call = "prepare")
    BY PanelHeads DEF PanelUp
  <2>2. "vsp" \in panel_on \/ panel_released => "vddio" \in panel_on
    <3>1. CASE panel_call = "none"
      BY <3>1 DEF PanelInv, InNone, PanelUp, PanelOff
    <3>2. CASE panel_call = "prepare"
      <4>1. JdiPrepares \/ SharpPrepares \/ AuoPrepares
        BY <3>2, PanelDescs DEF PanelInv, PanelTyped, InPrepare, Jdi
      <4>2. PanelOff \/ "vddio" \in panel_on
        <5>1. CASE JdiPrepares
          BY <5>1 DEF JdiPrepares, PanelUp, Half
        <5>2. CASE SharpPrepares
          BY <5>2 DEF SharpPrepares, PanelUp, Half
        <5>3. CASE AuoPrepares
          BY <5>3 DEF AuoPrepares, PanelUp, Half
        <5> QED
          BY <4>1, <5>1, <5>2, <5>3
      <4> QED
        BY <4>2 DEF PanelOff
    <3>3. CASE panel_call \in {"enable", "disable"}
      BY <3>3 DEF PanelInv, InEnable, InDisable, PanelUp
    <3>4. CASE panel_call \in {"unprepare", "failed"}
      <4>1. PanelUp \/ EarlyReset \/ LateReset
        BY <3>4 DEF PanelInv, InUnprepare, InFailed, GoesDown
      <4> QED
        BY <4>1 DEF EarlyReset, LateReset, PanelDown, PanelUp, PanelOff, Half
    <3> QED
      BY <3>1, <3>2, <3>3, <3>4 DEF PanelInv, PanelTyped
  <2> QED
    BY <2>1, <2>2 DEF PanelInOrder
<1>2. PanelInv => PanelSettled
  BY DEF PanelInv, InNone, PanelSettled, PanelOff, Awake, Lit
<1>3. PanelInv => PanelRests
  BY PanelHeads DEF PanelRests, Rested
<1>4. PanelInv /\ [PanelNext]_panel_vars => PanelInv'
  BY PanelStepInv, PanelCallBegins, PanelCallEnds, PanelFails, PanelBound, PanelStarts DEF PanelNext
<1>5. PanelInv => PanelSequenced
  BY <1>1, <1>2, <1>3 DEF PanelSequenced
<1> QED
  BY <1>4, <1>5, PanelStarts, PTL DEF PanelSpec

==============================================================================
