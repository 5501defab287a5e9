----------------------------- MODULE PmicClkDiv -----------------------------
(***************************************************************************)
(* The clock dividers of the PMIC, clk-spmi-pmic-div.c: dividers by powers *)
(* of two that have to be gated while the factor changes.  The common      *)
(* clock framework calls them: it counts the users of a clock, rounds a    *)
(* requested rate, ignores what set_rate() returns and asks for the rate   *)
(* afterwards (external).  Every access to a register may fail.            *)
(*                                                                         *)
(* Left out: the delays after gating and ungating.                         *)
(***************************************************************************)
EXTENDS Integers

CONSTANTS
  NCLKS,        (* qcom,num-clkdivs                                        *)
  CXO,          (* the parent's rate                                       *)
  DivRates,     (* rates asked for                                         *)
  MaxUsers,     (* bound on the users of a clock                           *)
  MaxDivFaults  (* bound on accesses that fail                             *)

\* cxo_hz is an int, so less than 2^31, and no slower than the greatest divider:
\* round_rate() would promise 0, and set_rate() divide by it.
ASSUME DivAssumption ==
  /\ NCLKS \in Nat
  /\ CXO \in Nat /\ 64 <= CXO /\ CXO - 2^30 < 2^30
  /\ DivRates \subseteq Nat \ {0}

VARIABLES
  div_registered, (* clocks registered, while probe runs and when it is done *)
  div_provider,   (* the provider is there                                 *)
  div_got,        (* clocks handed to consumers                            *)
  div_en,         (* REG_EN_CTL of each clock                              *)
  div_factor,     (* REG_DIV_CTL1 of each clock                            *)
  div_users,      (* enable count of the framework                         *)
  div_rate,       (* the rate the framework remembers                      *)
  div_op,         (* the set_rate() that is under way, with the lock       *)
  div_faults,
  div_unsure      (* history: clocks whose gate a failed access left wrong *)

div_regs == <<div_en, div_factor>>
div_core == <<div_users, div_rate>>
div_vars == <<div_registered, div_provider, div_got, div_regs, div_core,
              div_op, div_faults, div_unsure>>

DivClks == 1 .. NCLKS
NoDivOp == [pc |-> "none", clk |-> 0, factor |-> 0, enabled |-> FALSE, asked |-> 0,
            fault |-> FALSE]

Log2(n) == CHOOSE k \in 0 .. 31 : 2^k <= n /\ n < 2^(k + 1)

div_factor_to_div(f) == IF f = 0 THEN 1 ELSE 2^(f - 1)

\* Variant: the factor of the next power of two.
div_to_div_factor_up(d) == IF Log2(d) + 2 < 7 THEN Log2(d) + 2 ELSE 7

div_to_div_factor(d) == IF Log2(d) + 1 < 7 THEN Log2(d) + 1 ELSE 7

clk_spmi_pmic_div_round_rate(r) ==
  CXO \div div_factor_to_div(div_to_div_factor((CXO + r - 1) \div r))

clk_spmi_pmic_div_recalc_rate(f) == CXO \div div_factor_to_div(f)

AccessFails == div_faults < MaxDivFaults /\ div_faults' = div_faults + 1

DivFine == UNCHANGED <<div_faults, div_unsure>>

-----------------------------------------------------------------------------
(* Probe, and consumers that look a clock up.                              *)

\* The clocks one after the other, then the provider.  A name that is taken
\* ends it, and devres takes back what was registered.
spmi_pmic_clkdiv_probe ==
  /\ ~div_provider
  /\ \/ /\ div_registered < NCLKS
        /\ div_registered' \in {div_registered + 1, 0}
        /\ UNCHANGED div_provider
     \/ /\ div_registered = NCLKS
        /\ div_provider' \in BOOLEAN
        /\ div_registered' = IF div_provider' THEN NCLKS ELSE 0
  /\ UNCHANGED <<div_got, div_regs, div_core, div_op, div_faults, div_unsure>>

\* Variant: the argument is taken for an index from 0.
InRange_from_0(arg) == 0 <= arg /\ arg < NCLKS

InRange(arg) == 0 <= arg - 1 /\ arg - 1 < NCLKS

spmi_pmic_div_clk_hw_get ==
  \E arg \in 0 .. NCLKS + 1 :
    /\ div_provider /\ InRange(arg)
    /\ arg \notin div_got
    /\ div_got' = div_got \union {arg}
    /\ UNCHANGED <<div_registered, div_provider, div_regs, div_core, div_op,
                   div_faults, div_unsure>>

-----------------------------------------------------------------------------
(* Enable and disable: one register write under the lock, when the number  *)
(* of users leaves 0 or gets there.                                        *)

Free(c) == div_op.clk # c

clk_spmi_pmic_div_enable ==
  \E c \in div_got \intersect DivClks :
    /\ Free(c) /\ div_users[c] < MaxUsers
    /\ \/ /\ div_users[c] > 0
          /\ div_users' = [div_users EXCEPT ![c] = @ + 1]
          /\ UNCHANGED div_en /\ DivFine
       \/ /\ div_users[c] = 0
          /\ div_en' = [div_en EXCEPT ![c] = TRUE]
          /\ div_users' = [div_users EXCEPT ![c] = 1]
          /\ div_unsure' = div_unsure \ {c} /\ UNCHANGED div_faults
       \/ /\ div_users[c] = 0
          /\ AccessFails
          /\ UNCHANGED <<div_en, div_users, div_unsure>>
    /\ UNCHANGED <<div_registered, div_provider, div_got, div_factor, div_rate, div_op>>

\* The framework hears of no failure.
clk_spmi_pmic_div_disable ==
  \E c \in div_got \intersect DivClks :
    /\ Free(c) /\ div_users[c] > 0
    /\ div_users' = [div_users EXCEPT ![c] = @ - 1]
    /\ \/ div_users[c] > 1 /\ UNCHANGED div_en /\ DivFine
       \/ /\ div_users[c] = 1 /\ div_en' = [div_en EXCEPT ![c] = FALSE]
          /\ div_unsure' = div_unsure \ {c} /\ UNCHANGED div_faults
       \/ /\ div_users[c] = 1 /\ UNCHANGED div_en
          /\ div_unsure' = IF div_en[c] THEN div_unsure \union {c} ELSE div_unsure
          /\ AccessFails
    /\ UNCHANGED <<div_registered, div_provider, div_got, div_factor, div_rate, div_op>>

-----------------------------------------------------------------------------
(* Setting a rate: round, then set_rate() under the lock, then recalc.     *)

\* Reading whether the clock runs; a read that fails says it does not.
set_rate_begins ==
  \E c \in div_got \intersect DivClks, r \in DivRates :
    /\ div_op = NoDivOp
    /\ LET rounded == clk_spmi_pmic_div_round_rate(r)
           begins(on, failed) ==
             div_op' = [pc |-> IF on THEN "gate" ELSE "write", clk |-> c, enabled |-> on,
                        factor |-> div_to_div_factor(CXO \div rounded), asked |-> rounded,
                        fault |-> failed]
       IN  /\ rounded # div_rate[c]
           /\ \/ begins(div_en[c], FALSE) /\ UNCHANGED div_faults
              \/ begins(FALSE, TRUE) /\ AccessFails
    /\ UNCHANGED <<div_registered, div_provider, div_got, div_regs, div_core, div_unsure>>

\* An access that fails is the end of set_rate(), whatever it has done so far.
set_rate_fails ==
  /\ div_op.pc \in {"gate", "write", "ungate"}
  /\ AccessFails
  /\ div_op' = [div_op EXCEPT !.pc = "recalc", !.fault = TRUE]
  /\ div_unsure' = IF div_op.enabled /\ div_op.pc # "gate" THEN div_unsure \union {div_op.clk}
                   ELSE div_unsure
  /\ UNCHANGED <<div_registered, div_provider, div_got, div_regs, div_core>>

\* Variant: the clock is not gated for the change.
set_rate_gates_not ==
  /\ div_op.pc = "gate"
  /\ div_op' = [div_op EXCEPT !.pc = "write"]
  /\ DivFine
  /\ UNCHANGED <<div_registered, div_provider, div_got, div_regs, div_core>>

set_rate_gates ==
  /\ div_op.pc = "gate"
  /\ div_en' = [div_en EXCEPT ![div_op.clk] = FALSE]
  /\ div_op' = [div_op EXCEPT !.pc = "write"]
  /\ DivFine
  /\ UNCHANGED <<div_registered, div_provider, div_got, div_factor, div_core>>

set_rate_writes ==
  /\ div_op.pc = "write"
  /\ div_factor' = [div_factor EXCEPT ![div_op.clk] = div_op.factor]
  /\ div_op' = [div_op EXCEPT !.pc = IF div_op.enabled THEN "ungate" ELSE "recalc"]
  /\ DivFine
  /\ UNCHANGED <<div_registered, div_provider, div_got, div_en, div_core>>

\* Variant: a clock that was gated stays so.
set_rate_ungates_not ==
  /\ div_op.pc = "ungate"
  /\ div_op' = [div_op EXCEPT !.pc = "recalc"]
  /\ DivFine
  /\ UNCHANGED <<div_registered, div_provider, div_got, div_regs, div_core>>

set_rate_ungates ==
  /\ div_op.pc = "ungate"
  /\ div_en' = [div_en EXCEPT ![div_op.clk] = TRUE]
  /\ div_op' = [div_op EXCEPT !.pc = "recalc"]
  /\ DivFine
  /\ UNCHANGED <<div_registered, div_provider, div_got, div_factor, div_core>>

\* A read that fails leaves recalc_rate() with an uninitialised factor.
set_rate_ends ==
  /\ div_op.pc = "recalc"
  /\ \E f \in 0 .. 7 :
       /\ \/ f = div_factor[div_op.clk] /\ UNCHANGED div_faults
          \/ AccessFails
       /\ div_rate' = [div_rate EXCEPT ![div_op.clk] = clk_spmi_pmic_div_recalc_rate(f)]
  /\ div_op' = NoDivOp
  /\ UNCHANGED <<div_registered, div_provider, div_got, div_regs, div_users, div_unsure>>

-----------------------------------------------------------------------------

\* The boot loader leaves the clocks gated and undivided.
DivInit ==
  /\ div_registered = 0 /\ div_provider = FALSE /\ div_got = {}
  /\ div_en = [c \in DivClks |-> FALSE] /\ div_factor = [c \in DivClks |-> 0]
  /\ div_users = [c \in DivClks |-> 0]
  /\ div_rate = [c \in DivClks |-> clk_spmi_pmic_div_recalc_rate(0)]
  /\ div_op = NoDivOp /\ div_faults = 0 /\ div_unsure = {}

DivNext ==
  \/ spmi_pmic_clkdiv_probe \/ spmi_pmic_div_clk_hw_get
  \/ clk_spmi_pmic_div_enable \/ clk_spmi_pmic_div_disable
  \/ set_rate_begins \/ set_rate_gates \/ set_rate_writes \/ set_rate_ungates
  \/ set_rate_fails \/ set_rate_ends

DivSpec == DivInit /\ [][DivNext]_div_vars

-----------------------------------------------------------------------------
(* Properties                                                              *)

\* A clock runs while it has users, and stops with the last, over any order of
\* enabling, disabling and changes of its rate; except for one a failed access
\* has left otherwise (a set_rate() that fails once it has gated the clock
\* leaves it off, with its users counting on it) until its next first user or
\* last.  Every clock handed out is one that was registered.
DivRunsForUsers ==
  /\ div_got \subseteq 1 .. div_registered
  /\ \A c \in DivClks \ div_unsure :
       Free(c) => (div_en[c] <=> div_users[c] > 0)

\* The factor is not written under a running clock, unless the read that asks
\* whether it runs failed.
DivWritesGated == div_op.pc = "write" /\ ~div_op.fault => ~div_en[div_op.clk]

\* set_rate() sets the rate round_rate() promised, for every rate asked for:
\* the one rounds the division up, the other down.
DivRateAsPromised ==
  div_op.pc = "recalc" /\ ~div_op.fault
    => clk_spmi_pmic_div_recalc_rate(div_factor[div_op.clk]) = div_op.asked

\* What the consumers of a clock may rely on, over every order of calls.
DivServes == DivRunsForUsers /\ DivWritesGated /\ DivRateAsPromised

=============================================================================
