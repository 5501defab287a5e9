------------------------------- MODULE Q6Call -------------------------------
(***************************************************************************)
(* What q6voice_common_send() promises its callers, for the commands one   *)
(* of them sends to one DSP service: the contract module Q6Session is      *)
(* shown to implement and module Q6Voice builds upon (its operator send).  *)
(*                                                                         *)
(* A call returns 0 only if the DSP executed its command, or if an earlier *)
(* command of the same opcode, whose own call had returned without its     *)
(* answer, is still owed one.  Once a call took its own answer nothing     *)
(* that went before is owed any more.                                      *)
(***************************************************************************)
CONSTANTS Opcodes, NULL

VARIABLES
  call,     (* the opcode of the call in progress, or NULL                 *)
  done,     (* the DSP has executed its command                            *)
  result,   (* what the call is going to return, once that is known        *)
  own,      (* its result is the answer to its own command                 *)
  owed      (* the opcodes of earlier commands that may yet be answered    *)

vars == <<call, done, result, own, owed>>

Init ==
  /\ call = NULL /\ done = FALSE /\ result = "none" /\ own = FALSE
  /\ owed = {}

Begin ==
  /\ call = NULL
  /\ call' \in Opcodes
  /\ UNCHANGED <<done, result, own, owed>>

\* The DSP executes the command of the call in progress.
Execute ==
  /\ call # NULL /\ ~done
  /\ done' = TRUE
  /\ UNCHANGED <<call, result, own, owed>>

\* The command is answered: with success only if it was executed.
OwnAnswer ==
  /\ call # NULL /\ result = "none"
  /\ \/ done /\ result' = "ok"
     \/ result' = "failed"
  /\ own' = TRUE
  /\ owed' = {}
  /\ UNCHANGED <<call, done>>

\* An earlier command of this opcode is answered instead.
LateAnswer ==
  /\ call \in owed /\ result = "none"
  /\ result' \in {"ok", "failed"}
  /\ owed' \subseteq owed
  /\ UNCHANGED <<call, done, own>>

\* The 300 ms are over, or the packet could not be sent; an answer that came
\* in the same moment is not looked at any more.
GiveUp ==
  /\ call # NULL
  /\ result' = "error"
  /\ UNCHANGED <<call, done, own, owed>>

Return ==
  /\ call # NULL /\ result # "none"
  /\ owed' \in {owed, IF own THEN owed ELSE owed \union {call}}
  /\ call' = NULL /\ done' = FALSE /\ result' = "none" /\ own' = FALSE

\* Late answers that match nothing, and answers that never come.
Forget ==
  /\ owed' \subseteq owed
  /\ UNCHANGED <<call, done, result, own>>

Next == Begin \/ Execute \/ OwnAnswer \/ LateAnswer \/ GiveUp \/ Return \/ Forget

Spec == Init /\ [][Next]_vars

=============================================================================
