------------------------- MODULE ConfigurationCutover -------------------------
(***************************************************************************)
(* What the connector control channel promises about tunnel configuration,  *)
(* whatever messages it takes: in the session of one connector process, the *)
(* host moves its traffic only forward, and the control plane reports a     *)
(* generation as active only after the host has moved to it, and only while *)
(* that session is the registered one.                                      *)
(***************************************************************************)
EXTENDS Naturals

CONSTANTS
    CutSessions,    \* Process generations of the connector, positive naturals.
    CutGenerations  \* Configuration generations, positive naturals.

VARIABLES
    cutCurrent,     \* The registered session, 0 when there is none.
    cutHost,        \* Per session, the generation the host serves, 0 for none.
    cutControl      \* Per session, the generation the control plane believes.

cutVars == <<cutCurrent, cutHost, cutControl>>

CutInit ==
    /\ cutCurrent = 0
    /\ cutHost = [p \in CutSessions |-> 0]
    /\ cutControl = [p \in CutSessions |-> 0]

\* A newer process takes the registration over, with nothing carried across.
CutRegister(p) ==
    /\ cutCurrent < p
    /\ cutHost[p] = 0 /\ cutControl[p] = 0
    /\ cutCurrent' = p
    /\ UNCHANGED <<cutHost, cutControl>>

\* Only the registered session gives its own registration up.
CutLeave ==
    /\ cutCurrent # 0
    /\ cutCurrent' = 0
    /\ UNCHANGED <<cutHost, cutControl>>

\* The host may move its traffic at any time, whoever is registered.
CutServe(p, g) ==
    /\ cutHost[p] < g
    /\ cutHost' = [cutHost EXCEPT ![p] = g]
    /\ UNCHANGED <<cutCurrent, cutControl>>

CutLearn(p, g) ==
    /\ cutCurrent = p
    /\ cutControl[p] < g /\ g <= cutHost[p]
    /\ cutControl' = [cutControl EXCEPT ![p] = g]
    /\ UNCHANGED <<cutCurrent, cutHost>>

CutNext ==
    \/ CutLeave
    \/ \E p \in CutSessions :
        \/ CutRegister(p)
        \/ \E g \in CutGenerations : CutServe(p, g) \/ CutLearn(p, g)

CutSpec == CutInit /\ [][CutNext]_cutVars
===============================================================================
