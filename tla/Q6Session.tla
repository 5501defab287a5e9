----------------------------- MODULE Q6Session -----------------------------
(***************************************************************************)
(* One session slot of the q6voice APR layer, q6voice-common.c: the slot   *)
(* svc->sessions[path] of one service (MVM, CVP or CVS) on one path.       *)
(*                                                                         *)
(* Three threads meet here:                                                *)
(*   - the caller, which q6voice.c serialises by the path's mutex: it      *)
(*     creates the session, sends commands on it, and releases it;         *)
(*   - the APR callback worker (external: one ordered workqueue), which    *)
(*     looks the session up by path and matches the answer to the command  *)
(*     by opcode alone, since every packet carries token 0;                *)
(*   - the DSP (external), which serves the commands of a service in the   *)
(*     order they were sent, when it likes, and may never answer.          *)
(*                                                                         *)
(* Spinlock sections are single steps; everything between two of them is   *)
(* a separate step, so that a callback may run in each gap.                *)
(***************************************************************************)
EXTENDS Naturals, Sequences, FiniteSets

CONSTANTS
  Sessions,   (* memory kzalloc() can hand out for a q6voice_session   *)
  Handles,    (* session handles of the DSP, the non-zero port numbers *)
  Cmds,       (* opcodes sent on an established session                *)
  CREATE,     (* the service's CREATE_..._SESSION opcode               *)
  DESTROY,    (* APRV2_IBASIC_CMD_DESTROY_SESSION                      *)
  NULL,       (* no session, no handle (0) or no opcode (0)            *)
  MaxSends    (* bound on the commands sent in a behaviour             *)

ASSUME SendsAssumption == MaxSends \in Nat

ASSUME NamesAssumption ==
  /\ NULL \notin Sessions \union Handles \union Cmds
  /\ CREATE \notin Cmds /\ DESTROY \notin Cmds
  /\ NULL # CREATE /\ NULL # DESTROY /\ CREATE # DESTROY

VARIABLES
  mem,      (* struct q6voice_session, by address; live = allocated       *)
  slot,     (* svc->sessions[path]                                        *)
  pc,       (* where the caller is                                        *)
  cur,      (* the session the caller holds a pointer to                  *)
  op,       (* the opcode of the caller's present call of common_send     *)
  ret,      (* what common_send last returned                             *)
  cmds,     (* commands on their way to the DSP                           *)
  reps,     (* answers on their way to the callback                       *)
  alive,    (* handles of the sessions that exist on the DSP              *)
  wpc,      (* where the callback worker is                               *)
  wcur,     (* the session the worker took a reference on                 *)
  wmsg,     (* the answer it is delivering                                *)
  log,      (* history: the opcodes handed to apr_send_pkt(), in order;   *)
            (* a command is known by its number in the log                *)
  executed, (* history: numbers of the commands the DSP executed          *)
  answer,   (* history: number of the command whose answer was last taken *)
  expired,  (* history: numbers of the commands whose caller timed out    *)
  lost      (* history: creates and destroys that did not return 0        *)

caller == <<pc, cur, op, ret>>
worker == <<wpc, wcur, wmsg>>
wire   == <<cmds, reps>>
ghosts == <<log, executed, answer, expired, lost>>
vars   == <<mem, slot, caller, wire, alive, worker, ghosts>>

-----------------------------------------------------------------------------

Opcodes == Cmds \union {CREATE, DESTROY}
Command == [op : Opcodes, dest : Handles \union {NULL}, id : Nat]
Answer  == [op : Opcodes, failed : BOOLEAN, src : Handles \union {NULL}, id : Nat]
NoMsg   == [op |-> NULL]

\* kzalloc() zeroes the structure, kref_init() sets its count to one.
Fresh == [live |-> TRUE, ref |-> 1, handle |-> NULL, expected |-> NULL, failed |-> FALSE]
Freed == [live |-> FALSE, ref |-> 0, handle |-> NULL, expected |-> NULL, failed |-> FALSE]

\* kref_put(&s->refcount, q6voice_session_free).
kref_put(s) ==
  mem' = IF mem[s].ref = 1 THEN [mem EXCEPT ![s] = Freed]
                           ELSE [mem EXCEPT ![s].ref = @ - 1]

\* The variables of s->lock and the handle, as common_send leaves them.
arm(s, opcode) ==
  mem' = [mem EXCEPT ![s].expected = opcode, ![s].failed = FALSE]

Goto(l) == pc' = l

-----------------------------------------------------------------------------
(* The caller.                                                             *)

\* q6voice_session_create() up to the call of common_send.  A slot that is
\* taken is -EBUSY and the new memory is freed at once.
session_create ==
  /\ pc = "idle"
  /\ Len(log) + 2 <= MaxSends
  /\ IF slot # NULL
     THEN /\ ret' = "busy"
          /\ UNCHANGED <<mem, slot, pc, cur, op>>
     ELSE \E s \in Sessions :
            /\ ~mem[s].live
            /\ mem' = [mem EXCEPT ![s] = Fresh]
            /\ slot' = s
            /\ cur' = s
            /\ op' = CREATE
            /\ Goto("arm")
            /\ UNCHANGED ret
  /\ UNCHANGED <<wire, alive, worker, ghosts>>

\* One command of q6mvm.c, q6cvp.c or q6cvs.c on an established session.
session_command ==
  /\ pc = "owned"
  /\ Len(log) + 2 <= MaxSends
  /\ op' \in Cmds
  /\ Goto("arm")
  /\ UNCHANGED <<mem, slot, cur, ret, wire, alive, worker, ghosts>>

\* Variant: the session is dropped without telling the DSP.
release_begins_no_destroy == UNCHANGED op /\ Goto("clear")

\* q6voice_session_release() up to the call of q6voice_session_destroy():
\* only a session that has a handle is destroyed on the DSP.
release_begins ==
  IF mem[cur].handle # NULL
  THEN op' = DESTROY /\ Goto("arm")
  ELSE UNCHANGED op /\ Goto("clear")

session_release ==
  /\ pc = "owned"
  /\ release_begins
  /\ UNCHANGED <<mem, slot, cur, ret, wire, alive, worker, ghosts>>

\* q6voice_common_send(): under s->lock, note the opcode to wait for.
common_send_arm ==
  /\ pc = "arm"
  /\ arm(cur, op)
  /\ Goto("post")
  /\ UNCHANGED <<slot, cur, op, ret, wire, alive, worker, ghosts>>

\* apr_send_pkt().  When it fails common_send returns at once, and leaves
\* expected_opcode as it is.  The destination was read from the session
\* before: 0 for a create, whose session had no handle yet.
common_send_post ==
  /\ pc = "post"
  /\ log' = Append(log, op)
  /\ \/ /\ cmds' = Append(cmds, [op |-> op, id |-> Len(log) + 1,
                                 dest |-> IF op = CREATE THEN NULL ELSE mem[cur].handle])
        /\ Goto("wait")
        /\ UNCHANGED ret
     \/ /\ ret' = "unsent"
        /\ Goto("ret")
        /\ UNCHANGED cmds
  /\ UNCHANGED <<mem, slot, cur, op, reps, alive, worker, executed, answer, expired, lost>>

\* wait_event_timeout() finds the condition true.
common_send_done ==
  /\ pc = "wait"
  /\ mem[cur].expected = NULL
  /\ ret' = IF mem[cur].failed THEN "failed" ELSE "ok"
  /\ Goto("ret")
  /\ UNCHANGED <<mem, slot, cur, op, wire, alive, worker, ghosts>>

\* Variant: wait_event() instead of wait_event_timeout().
common_send_no_timeout == FALSE /\ UNCHANGED vars

\* wait_event_timeout() returns 0: 300 ms have passed and the condition is
\* still false.
common_send_timeout ==
  /\ pc = "wait"
  /\ mem[cur].expected # NULL
  /\ Goto("expired")
  /\ UNCHANGED <<mem, slot, cur, op, ret, wire, alive, worker, ghosts>>

\* Variant: the timeout is taken for the empty result it finds.
common_send_expired_ok ==
  /\ pc = "expired"
  /\ mem' = [mem EXCEPT ![cur].expected = NULL]
  /\ ret' = "ok"
  /\ expired' = expired \union {Len(log)}
  /\ Goto("ret")
  /\ UNCHANGED <<slot, cur, op, wire, alive, worker, log, executed, answer, lost>>

\* s->expected_opcode = 0, without the lock; the answer may have come in
\* since the condition was looked at.
common_send_expired ==
  /\ pc = "expired"
  /\ mem' = [mem EXCEPT ![cur].expected = NULL]
  /\ ret' = "timeout"
  /\ expired' = expired \union {Len(log)}
  /\ Goto("ret")
  /\ UNCHANGED <<slot, cur, op, wire, alive, worker, log, executed, answer, lost>>

\* common_send returns to session_create, to session_release, or to the
\* caller of a command.  A create without a handle is released again.
common_send_return ==
  /\ pc = "ret"
  /\ \/ /\ op = CREATE
        /\ IF ret = "ok" /\ mem[cur].handle # NULL
           THEN UNCHANGED op /\ Goto("owned")
           ELSE release_begins
     \/ op = DESTROY /\ UNCHANGED op /\ Goto("clear")
     \/ op \in Cmds /\ UNCHANGED op /\ Goto("owned")
  /\ lost' = IF op \in {CREATE, DESTROY} /\ ret # "ok" THEN lost + 1 ELSE lost
  /\ UNCHANGED <<mem, slot, cur, ret, wire, alive, worker, log, executed, answer, expired>>

\* session_release() again: under svc->lock, empty the slot.
release_clear ==
  /\ pc = "clear"
  /\ slot' = IF slot = cur THEN NULL ELSE slot
  /\ Goto("put")
  /\ UNCHANGED <<mem, cur, op, ret, wire, alive, worker, ghosts>>

\* session_release() drops the caller's reference and forgets the pointer.
release_put ==
  /\ pc = "put"
  /\ kref_put(cur)
  /\ cur' = NULL
  /\ Goto("idle")
  /\ UNCHANGED <<slot, op, ret, wire, alive, worker, ghosts>>

-----------------------------------------------------------------------------
(* The callback worker.                                                    *)

\* Variant: the callback uses the session without a reference of its own.
common_callback_no_kref ==
  /\ wpc = "idle"
  /\ reps # <<>>
  /\ reps' = Tail(reps)
  /\ IF slot # NULL
     THEN wcur' = slot /\ wmsg' = Head(reps) /\ wpc' = "match"
     ELSE UNCHANGED worker
  /\ UNCHANGED <<mem, slot, caller, cmds, alive, ghosts>>

\* q6voice_common_callback() under svc->lock: find the session of the path
\* and take a reference.  Without one the answer is for an inactive path.
common_callback ==
  /\ wpc = "idle"
  /\ reps # <<>>
  /\ reps' = Tail(reps)
  /\ IF slot # NULL
     THEN /\ mem' = [mem EXCEPT ![slot].ref = @ + 1]
          /\ wcur' = slot
          /\ wmsg' = Head(reps)
          /\ wpc' = "match"
     ELSE UNCHANGED <<mem, worker>>
  /\ UNCHANGED <<slot, caller, cmds, alive, ghosts>>

\* Variant: the answer's opcode is not looked at.
accepts_any_opcode(s, m) ==
  /\ s.expected # NULL
  /\ s.handle = NULL \/ s.handle = m.src

\* What session_callback accepts: the opcode waited for, from the session's
\* own handle once it has one.
accepts(s, m) ==
  /\ m.op = s.expected
  /\ s.handle = NULL \/ s.handle = m.src

\* q6voice_session_callback() under s->lock.
session_callback ==
  /\ wpc = "match"
  /\ IF accepts(mem[wcur], wmsg)
     THEN /\ mem' = [mem EXCEPT ![wcur].handle = wmsg.src,
                                ![wcur].failed = wmsg.failed,
                                ![wcur].expected = NULL]
          /\ answer' = wmsg.id
     ELSE UNCHANGED <<mem, answer>>
  /\ wpc' = "put"
  /\ UNCHANGED <<slot, caller, wire, alive, wcur, wmsg, log, executed, expired, lost>>

\* The callback drops its reference.
callback_put ==
  /\ wpc = "put"
  /\ kref_put(wcur)
  /\ wpc' = "idle" /\ wcur' = NULL /\ wmsg' = NoMsg
  /\ UNCHANGED <<slot, caller, wire, alive, ghosts>>

-----------------------------------------------------------------------------
(* The DSP, external: modelled from what the driver expects of it.         *)

\* A command is executed or refused, and answered or not.  A create makes a
\* session whose handle is the source port of the answer; a refused create
\* has no port to answer from.
Reply(c, failed, src) == [op |-> c.op, failed |-> failed, src |-> src, id |-> c.id]
MayAnswer(r) == reps' \in {reps, Append(reps, r)}

dsp_serves ==
  /\ cmds # <<>>
  /\ LET c == Head(cmds)
     IN  \/ /\ c.op = CREATE
            /\ \E h \in Handles \ alive :
                 /\ alive' = alive \union {h}
                 /\ MayAnswer(Reply(c, FALSE, h))
            /\ executed' = executed \union {c.id}
         \/ /\ c.op # CREATE
            /\ alive' = IF c.op = DESTROY THEN alive \ {c.dest} ELSE alive
            /\ MayAnswer(Reply(c, FALSE, c.dest))
            /\ executed' = executed \union {c.id}
         \/ /\ MayAnswer(Reply(c, TRUE, c.dest))
            /\ UNCHANGED <<alive, executed>>
  /\ cmds' = Tail(cmds)
  /\ UNCHANGED <<mem, slot, caller, worker, log, answer, expired, lost>>

-----------------------------------------------------------------------------

Init ==
  /\ mem = [s \in Sessions |-> Freed]
  /\ slot = NULL
  /\ pc = "idle" /\ cur = NULL /\ op = NULL /\ ret = "ok"
  /\ cmds = <<>> /\ reps = <<>>
  /\ alive = {}
  /\ wpc = "idle" /\ wcur = NULL /\ wmsg = NoMsg
  /\ log = <<>> /\ executed = {} /\ answer = 0 /\ expired = {} /\ lost = 0

\* The steps of a call that has begun; a caller inside one keeps running.
CallStep ==
  \/ common_send_arm
  \/ common_send_post
  \/ common_send_done
  \/ common_send_timeout
  \/ common_send_expired
  \/ common_send_return
  \/ release_clear
  \/ release_put

CallbackStep ==
  \/ common_callback
  \/ session_callback
  \/ callback_put

Next ==
  \/ session_create
  \/ session_command
  \/ session_release
  \/ CallStep
  \/ CallbackStep
  \/ dsp_serves

Spec == Init /\ [][Next]_vars

\* The scheduler runs a runnable thread and the wait's timer expires.
\* Nothing is assumed of the DSP.
FairSpec == Spec /\ WF_vars(CallStep) /\ WF_vars(CallbackStep)

-----------------------------------------------------------------------------
(* Properties.                                                             *)

Session == [live : BOOLEAN, ref : Nat, handle : Handles \union {NULL},
            expected : Opcodes \union {NULL}, failed : BOOLEAN]

TypeOK ==
  /\ mem \in [Sessions -> Session]
  /\ slot \in Sessions \union {NULL}
  /\ pc \in {"idle", "owned", "arm", "post", "wait", "expired", "ret", "clear", "put"}
  /\ cur \in Sessions \union {NULL}
  /\ op \in Opcodes \union {NULL}
  /\ ret \in {"ok", "failed", "timeout", "unsent", "busy"}
  /\ cmds \in Seq(Command)
  /\ reps \in Seq(Answer)
  /\ alive \subseteq Handles
  /\ wpc \in {"idle", "match", "put"}
  /\ wcur \in Sessions \union {NULL}
  /\ wmsg \in Answer \union {NoMsg}
  /\ log \in Seq(Opcodes)
  /\ executed \subseteq Nat
  /\ answer \in Nat
  /\ expired \subseteq Nat
  /\ lost \in Nat

\* How many pointers to s the two threads count for.
Holders(s) == (IF cur = s THEN 1 ELSE 0) + (IF wcur = s THEN 1 ELSE 0)

\* Memory: a session is allocated exactly as long as the caller or the
\* callback holds it, and its kref counts these two, so that a callback that
\* runs into a release neither touches freed memory nor frees it early, and
\* no order of the two leaks it (kref_get at q6voice-common.c:241 against
\* kref_put at :125 and :246).
MemorySafe ==
  \A s \in Sessions :
    /\ mem[s].live <=> Holders(s) > 0
    /\ mem[s].ref = Holders(s)

\* What the table svc->sessions can reach is allocated, and a path with no
\* session left its slot empty: the next create never meets -EBUSY (:157),
\* whichever way the previous one ended.
SlotFree ==
  /\ slot # NULL => slot = cur /\ mem[slot].live
  /\ pc = "idle" => slot = NULL
  /\ ret # "busy"

\* Between create and release, the session talks to a handle that exists on
\* the DSP, also when the create took the late answer of an earlier one.
HandleAlive == pc = "owned" => mem[cur].handle \in alive

\* A send that returned 0 was answered for a command of the same opcode that
\* the DSP did execute: the caller's own, unless a command of that opcode had
\* timed out before, whose late answers are then taken one command too early
\* (matching is on the opcode alone, :200, and the token is always 0, :265).
OkMeansExecuted ==
  pc = "ret" /\ ret = "ok" =>
    /\ answer \in executed
    /\ log[answer] = op
    /\ \/ answer = Len(log)
       \/ \E e \in expired : e <= answer /\ log[e] = op

\* A DSP session no driver session stands for was lost by a create or a
\* destroy that the caller was told had not succeeded: none is forgotten on
\* a path on which every call returned 0.
LeaksAccounted ==
  pc \in {"idle", "owned"} =>
    Cardinality(alive \ (IF cur = NULL THEN {} ELSE {mem[cur].handle})) <= lost

\* Every create, command and release returns, even if the DSP never answers
\* again: the 300 ms of common_send bound every wait (:276).
CallsReturn == pc \notin {"idle", "owned"} ~> pc \in {"idle", "owned"}

-----------------------------------------------------------------------------
(* The contract of a call, Q6Call, under this mapping.                     *)

\* The caller is inside common_send, and its command is the last one logged.
InCall == pc \in {"post", "wait", "expired", "ret"}
Posted == pc \in {"wait", "expired", "ret"}

\* Whose answers are under way.
Pending == {cmds[i] : i \in DOMAIN cmds} \union {reps[i] : i \in DOMAIN reps}
             \union (IF wpc = "match" THEN {wmsg} ELSE {})

Contract == INSTANCE Q6Call WITH
  call   <- IF InCall THEN op ELSE NULL,
  done   <- Posted /\ Len(log) \in executed,
  result <- IF ~InCall THEN "none"
            ELSE IF pc = "ret" THEN IF ret \in {"ok", "failed"} THEN ret ELSE "error"
            ELSE IF mem[cur].expected # NULL THEN "none"
            ELSE IF mem[cur].failed THEN "failed" ELSE "ok",
  own    <- Posted /\ answer = Len(log),
  owed   <- {m.op : m \in {q \in Pending : Posted => q.id # Len(log)}}

\* common_send keeps its contract, whatever the DSP and the callback do.
KeepsContract == Contract!Spec

=============================================================================
