-------------------------- MODULE PlatformContract --------------------------
(***************************************************************************)
(* What the approval and execution boundaries promise together, with no    *)
(* callers, transactions, clocks or logs: a decision is taken once by a    *)
(* person or refused, a granted decision is worth one permit, the permit   *)
(* is spent before the outside world is asked, it is asked at most once    *)
(* and only before a verdict is recorded, the verdict "succeeded" is true  *)
(* and never revised, and an unknown verdict may get one opinion.          *)
(***************************************************************************)
EXTENDS Naturals

CONSTANT Approvals

VARIABLES
  decision,   \* "none", "open", "granted" or "refused"
  spent,      \* whether the permit of a granted decision was spent
  effect,     \* "none", "asked", "applied" or "refused"
  verdict,    \* "none", "succeeded", "failed" or "unknown"
  opinion     \* "none", "SUCCEEDED" or "FAILED"

contractVars == <<decision, spent, effect, verdict, opinion>>

ContractInit ==
  /\ decision = [a \in Approvals |-> "none"]
  /\ spent = [a \in Approvals |-> FALSE]
  /\ effect = [a \in Approvals |-> "none"]
  /\ verdict = [a \in Approvals |-> "none"]
  /\ opinion = [a \in Approvals |-> "none"]

Open(a) ==
  /\ decision[a] = "none"
  /\ decision' = [decision EXCEPT ![a] = "open"]
  /\ UNCHANGED <<spent, effect, verdict, opinion>>

Settle(a, outcome) ==
  /\ decision[a] = "open"
  /\ decision' = [decision EXCEPT ![a] = outcome]
  /\ UNCHANGED <<spent, effect, verdict, opinion>>

Spend(a) ==
  /\ decision[a] = "granted"
  /\ ~spent[a]
  /\ spent' = [spent EXCEPT ![a] = TRUE]
  /\ UNCHANGED <<decision, effect, verdict, opinion>>

\* The outside world is asked on a spent permit, once, before the verdict.
Ask(a) ==
  /\ spent[a]
  /\ effect[a] = "none"
  /\ verdict[a] = "none"
  /\ effect' = [effect EXCEPT ![a] = "asked"]
  /\ UNCHANGED <<decision, spent, verdict, opinion>>

\* It takes its time: the effect may follow the verdict.
Happen(a, what) ==
  /\ effect[a] = "asked"
  /\ effect' = [effect EXCEPT ![a] = what]
  /\ UNCHANGED <<decision, spent, verdict, opinion>>

Conclude(a, v) ==
  /\ spent[a]
  /\ verdict[a] = "none"
  /\ v = "succeeded" => effect[a] = "applied"
  /\ verdict' = [verdict EXCEPT ![a] = v]
  /\ UNCHANGED <<decision, spent, effect, opinion>>

Assess(a, o) ==
  /\ verdict[a] = "unknown"
  /\ opinion[a] = "none"
  /\ opinion' = [opinion EXCEPT ![a] = o]
  /\ UNCHANGED <<decision, spent, effect, verdict>>

ContractNext ==
  \E a \in Approvals :
    \/ Open(a)
    \/ \E outcome \in {"granted", "refused"} : Settle(a, outcome)
    \/ Spend(a)
    \/ Ask(a)
    \/ \E what \in {"applied", "refused"} : Happen(a, what)
    \/ \E v \in {"succeeded", "failed", "unknown"} : Conclude(a, v)
    \/ \E o \in {"SUCCEEDED", "FAILED"} : Assess(a, o)

ContractSpec == ContractInit /\ [][ContractNext]_contractVars

-----------------------------------------------------------------------------
(* What follows from the contract for whoever implements it.               *)

\* An effect has a whole history behind it: nothing is asked, concluded or assessed
\* without a permit that was spent, no permit is spent without a grant, "succeeded"
\* says that the effect took place, and only what is unknown has an opinion.
EffectsAreGranted ==
  \A a \in Approvals :
    /\ spent[a] => decision[a] = "granted"
    /\ effect[a] # "none" => spent[a]
    /\ verdict[a] # "none" => spent[a]
    /\ verdict[a] = "succeeded" => effect[a] = "applied"
    /\ opinion[a] # "none" => verdict[a] = "unknown"

\* A step takes nothing back, and once there is a verdict it asks for no effect: what
\* was not asked for by then never happens.
KeepsWhatIsSettled ==
  \A a \in Approvals :
    /\ decision[a] \in {"granted", "refused"} => decision'[a] = decision[a]
    /\ spent[a] => spent'[a]
    /\ effect[a] # "none" => effect'[a] # "none"
    /\ effect[a] \in {"applied", "refused"} => effect'[a] = effect[a]
    /\ verdict[a] # "none" => verdict'[a] = verdict[a]
    /\ verdict[a] # "none" /\ effect[a] = "none" => effect'[a] = "none"
    /\ opinion[a] # "none" => opinion'[a] = opinion[a]

NothingIsTakenBack == [][KeepsWhatIsSettled]_contractVars
=============================================================================
