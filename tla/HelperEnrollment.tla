-------------------------- MODULE HelperEnrollment --------------------------
(***************************************************************************)
(* controlplane/enrollment.go: one-time grants that turn a machine's       *)
(* runtime into the active helper of its environment, their replay after   *)
(* lost answers, and the replacement of a helper whose key was lost.       *)
(*                                                                         *)
(* One environment.  A caller is one request being served: it reads, then  *)
(* commits in a transaction of its own, and may die between the two.       *)
(***************************************************************************)
EXTENDS Naturals, FiniteSets

CONSTANTS Helpers,        \* helper ids that randomEnrollmentValues can draw
          Grants,         \* enrollment ids it can draw
          Keys,           \* public keys presented by machines
          OpKeys,         \* idempotency keys of callers
          Callers,        \* requests being served
          NoOne           \* absent value

ASSUME NoOneIsAbsent == NoOne \notin Helpers \cup Grants \cup Keys \cup OpKeys \cup Callers

VARIABLES heEnv,          \* control_environments.desired_state
          heHelpers,      \* control_helpers
          heGrants,       \* control_helper_enrollments
          heConn,         \* control_connector_generations.generation
          heCall,         \* program counter and locals of every caller
          heIdentities,   \* <<grant, key>>: identities handed out by Exchange
          heRenewals,     \* hosted_helper_identity_renewals: who wrote an operation's row
          heRenewed       \* <<operation, writer>>: identities handed out by Renew

heRows == <<heEnv, heHelpers, heGrants, heConn, heIdentities>>
heRenewRows == <<heRenewals, heRenewed>>
heVars == <<heRows, heCall, heRenewRows>>

NoHelper == [state |-> "none", key |-> NoOne, replacedBy |-> NoOne, replacedGen |-> 0]
NoGrant == [state |-> "none", helper |-> NoOne, op |-> NoOne, expired |-> FALSE]
HeIdle == [pc |-> "idle", op |-> NoOne, helper |-> NoOne]

HeTypeOK ==
  /\ heEnv \in {"active", "suspended", "revoked"}
  /\ heHelpers \in [Helpers -> [state: {"none", "pending", "active", "replaced", "revoked"},
                                key: Keys \cup {NoOne}, replacedBy: OpKeys \cup {NoOne},
                                replacedGen: Nat]]
  /\ heGrants \in [Grants -> [state: {"none", "pending", "consumed", "revoked"},
                              helper: Helpers \cup {NoOne}, op: OpKeys \cup {NoOne},
                              expired: BOOLEAN]]
  /\ heConn \in Nat
  /\ heCall \in [Callers -> [pc: {"idle", "issue", "replace", "renew"}, op: OpKeys \cup {NoOne},
                             helper: Helpers \cup {NoOne}]]
  /\ heIdentities \subseteq Grants \X Keys
  /\ heRenewals \in [OpKeys -> Callers \cup {NoOne}]
  /\ heRenewed \subseteq OpKeys \X Callers

HeInit ==
  /\ heEnv = "active"
  /\ heHelpers = [h \in Helpers |-> NoHelper]
  /\ heGrants = [g \in Grants |-> NoGrant]
  /\ heConn = 1
  /\ heCall = [c \in Callers |-> HeIdle]
  /\ heIdentities = {}
  /\ heRenewals = [op \in OpKeys |-> NoOne]
  /\ heRenewed = {}

-----------------------------------------------------------------------------
(* The queries. *)

GetActiveControlHelperForEnvironment == {h \in Helpers : heHelpers[h].state = "active"}

GetPendingControlHelperForEnvironment == {h \in Helpers : heHelpers[h].state = "pending"}

GetPendingControlHelperEnrollmentForEnvironment ==
  {g \in Grants : heGrants[g].state = "pending"}

GetControlHelperEnrollmentByOperationKey(op) == {g \in Grants : heGrants[g].op = op}

RevokeWhere(P(_)) ==
  [g \in Grants |-> IF heGrants[g].state = "pending" /\ P(g)
                    THEN [heGrants[g] EXCEPT !.state = "revoked"] ELSE heGrants[g]]

RevokeExpiredControlHelperEnrollments == RevokeWhere(LAMBDA g : heGrants[g].expired)

RevokePendingHelperEnrollments(h) == RevokeWhere(LAMBDA g : heGrants[g].helper = h)

RevokeControlHelperEnrollmentsForEnvironment == RevokeWhere(LAMBDA g : TRUE)

RevokeControlHelpersForEnvironment ==
  [h \in Helpers |-> IF heHelpers[h].state \in {"pending", "active"}
                     THEN [heHelpers[h] EXCEPT !.state = "revoked"] ELSE heHelpers[h]]

ConsumeControlHelperEnrollmentAnywhere(g) ==
  /\ heGrants[g].state = "pending"
  /\ ~heGrants[g].expired

ConsumeControlHelperEnrollment(g) ==
  /\ heGrants[g].state = "pending"
  /\ ~heGrants[g].expired
  /\ heEnv = "active"

GetConsumedControlHelperEnrollmentForReplay(g) ==
  /\ heGrants[g].state = "consumed"
  /\ ~heGrants[g].expired
  /\ heHelpers[heGrants[g].helper].state = "active"
  /\ heEnv = "active"

ActivateControlHelper(h) == heHelpers[h].state = "pending"

\* ON CONFLICT (operation_key) DO NOTHING
CreateHostedHelperIdentityRenewal(op, c) ==
  IF heRenewals[op] = NoOne THEN [heRenewals EXCEPT ![op] = c] ELSE heRenewals

ReplaceControlHelper(h) == heHelpers[h].state = "active"

-----------------------------------------------------------------------------
(* Issue: the environment, the operation key and a pending helper are read *)
(* first; the helper and the grant are inserted in a later transaction.    *)

IssueRead(c, op) ==
  /\ heCall[c].pc = "idle"
  /\ heEnv = "active"
  /\ heGrants' = RevokeExpiredControlHelperEnrollments
  /\ IF GetControlHelperEnrollmentByOperationKey(op) # {}
     THEN UNCHANGED heCall                                        \* replayGrant
     ELSE \E h \in IF GetPendingControlHelperForEnvironment # {}
                   THEN GetPendingControlHelperForEnvironment ELSE {NoOne} :
            heCall' = [heCall EXCEPT ![c] = [pc |-> "issue", op |-> op, helper |-> h]]
  /\ UNCHANGED <<heEnv, heHelpers, heConn, heIdentities, heRenewals, heRenewed>>

\* The unique index on operation_key and the one-pending index turn a lost
\* race into a replay of the other grant.
IssueConflicts(op) ==
  \/ GetControlHelperEnrollmentByOperationKey(op) # {}
  \/ GetPendingControlHelperEnrollmentForEnvironment # {}

IssueCommit(c) ==
  LET op == heCall[c].op IN
  /\ heCall[c].pc = "issue"
  /\ heCall' = [heCall EXCEPT ![c] = HeIdle]
  /\ IF IssueConflicts(op)
     THEN UNCHANGED <<heHelpers, heGrants>>
     ELSE \E g \in {x \in Grants : heGrants[x].state = "none"} :
            \E h \in IF heCall[c].helper # NoOne THEN {heCall[c].helper}
                     ELSE {x \in Helpers : heHelpers[x].state = "none"} :
              /\ heGrants' = [heGrants EXCEPT ![g] =
                    [state |-> "pending", helper |-> h, op |-> op, expired |-> FALSE]]
              /\ heHelpers' = IF heCall[c].helper # NoOne THEN heHelpers
                              ELSE [heHelpers EXCEPT ![h].state = "pending"]
  /\ UNCHANGED <<heEnv, heConn, heIdentities, heRenewals, heRenewed>>

\* EnsureBootGrant: nothing for an environment with an active helper, the
\* unexpired pending grant if there is one, else Issue under a fresh key.
EnsureBootGrant(c, op) ==
  /\ GetActiveControlHelperForEnvironment = {}
  /\ \A g \in GetPendingControlHelperEnrollmentForEnvironment : heGrants[g].expired
  /\ IssueRead(c, op)

SameKey(h, k) == heHelpers[h].key = k

\* One transaction.  A retry after a lost answer is served only to the key
\* that activated the helper.
Exchange(g, k) ==
  LET h == heGrants[g].helper IN
  /\ \/ /\ ConsumeControlHelperEnrollment(g)
        /\ ActivateControlHelper(h)
        /\ heGrants' = [heGrants EXCEPT ![g].state = "consumed"]
        /\ heHelpers' = [heHelpers EXCEPT ![h].state = "active", ![h].key = k]
     \/ /\ ~ConsumeControlHelperEnrollment(g)
        /\ GetConsumedControlHelperEnrollmentForReplay(g)
        /\ SameKey(h, k)
        /\ UNCHANGED <<heGrants, heHelpers>>
  /\ heIdentities' = heIdentities \cup {<<g, k>>}
  /\ UNCHANGED <<heEnv, heConn, heCall, heRenewals, heRenewed>>

\* RecoverHelper and ExchangeHostedWorkloadIdentity: read the active helper,
\* replace it, then issue a grant under the same operation key.
ReplaceRead(c, op) ==
  /\ heCall[c].pc = "idle"
  /\ heEnv = "active"
  /\ \E h \in GetActiveControlHelperForEnvironment :
       heCall' = [heCall EXCEPT ![c] = [pc |-> "replace", op |-> op, helper |-> h]]
  /\ UNCHANGED <<heEnv, heHelpers, heGrants, heConn, heIdentities, heRenewals, heRenewed>>

ReplaceHelper(c) ==
  LET h == heCall[c].helper
      op == heCall[c].op IN
  /\ heCall[c].pc = "replace"
  /\ heCall' = [heCall EXCEPT ![c] = HeIdle]
  /\ IF ReplaceControlHelper(h)
     THEN /\ heConn' = heConn + 1
          /\ heHelpers' = [heHelpers EXCEPT ![h].state = "replaced",
                                            ![h].replacedBy = op,
                                            ![h].replacedGen = heConn + 1]
          /\ heGrants' = RevokePendingHelperEnrollments(h)
     ELSE UNCHANGED <<heConn, heHelpers, heGrants>>     \* replay, conflict or used
  /\ UNCHANGED <<heEnv, heIdentities, heRenewals, heRenewed>>

\* Renew: a stored answer is replayed, else the active helper's identity is
\* signed and stored; of two concurrent renewals the stored one is answered.
RenewRead(c, op) ==
  /\ heCall[c].pc = "idle"
  /\ IF heRenewals[op] # NoOne
     THEN /\ heRenewed' = heRenewed \cup {<<op, heRenewals[op]>>}
          /\ UNCHANGED heCall
     ELSE /\ \E h \in GetActiveControlHelperForEnvironment :
               heCall' = [heCall EXCEPT ![c] = [pc |-> "renew", op |-> op, helper |-> h]]
          /\ UNCHANGED heRenewed
  /\ UNCHANGED <<heRows, heRenewals>>

RenewCommit(c) ==
  LET op == heCall[c].op IN
  /\ heCall[c].pc = "renew"
  /\ heRenewals' = CreateHostedHelperIdentityRenewal(op, c)
  /\ heRenewed' = heRenewed \cup {<<op, heRenewals'[op]>>}
  /\ heCall' = [heCall EXCEPT ![c] = HeIdle]
  /\ UNCHANGED heRows

\* Unpair and mode downgrade: pending grants go, the helper stays.
RevokeHostAuthority ==
  /\ heGrants' = RevokeControlHelperEnrollmentsForEnvironment
  /\ UNCHANGED <<heEnv, heHelpers, heConn, heCall, heIdentities, heRenewals, heRenewed>>

\* FailInstallation: the helper of a failed installation and its grants.
FailInstallation(h) ==
  /\ heHelpers[h].state \in {"pending", "active"}
  /\ \E g \in Grants : heGrants[g].helper = h /\ heGrants[g].state \in {"pending", "consumed"}
  /\ heHelpers' = [heHelpers EXCEPT ![h].state = "revoked"]
  /\ heGrants' = [g \in Grants |->
                    IF heGrants[g].helper = h /\ heGrants[g].state \in {"pending", "consumed"}
                    THEN [heGrants[g] EXCEPT !.state = "revoked"] ELSE heGrants[g]]
  /\ UNCHANGED <<heEnv, heConn, heCall, heIdentities, heRenewals, heRenewed>>

RevokeMachineEnvironmentTx ==
  /\ heEnv # "revoked"
  /\ heEnv' = "revoked"
  /\ heHelpers' = RevokeControlHelpersForEnvironment
  /\ heGrants' = RevokeControlHelperEnrollmentsForEnvironment
  /\ UNCHANGED <<heConn, heCall, heIdentities, heRenewals, heRenewed>>

SuspendControlEnvironmentForQuota ==
  /\ heEnv = "active"
  /\ heEnv' = "suspended"
  /\ UNCHANGED <<heHelpers, heGrants, heConn, heCall, heIdentities, heRenewals, heRenewed>>

\* Ten minutes pass.
GrantExpires(g) ==
  /\ heGrants[g].state \in {"pending", "consumed"} /\ ~heGrants[g].expired
  /\ heGrants' = [heGrants EXCEPT ![g].expired = TRUE]
  /\ UNCHANGED <<heEnv, heHelpers, heConn, heCall, heIdentities, heRenewals, heRenewed>>

\* The process serving a request dies, or its client goes away.
CallerDies(c) ==
  /\ heCall[c].pc # "idle"
  /\ heCall' = [heCall EXCEPT ![c] = HeIdle]
  /\ UNCHANGED <<heEnv, heHelpers, heGrants, heConn, heIdentities, heRenewals, heRenewed>>

HeNext ==
  \/ \E c \in Callers, op \in OpKeys : IssueRead(c, op)
  \/ \E c \in Callers, op \in OpKeys : EnsureBootGrant(c, op)
  \/ \E c \in Callers, op \in OpKeys : ReplaceRead(c, op)
  \/ \E c \in Callers, op \in OpKeys : RenewRead(c, op)
  \/ \E c \in Callers : RenewCommit(c)
  \/ \E c \in Callers : IssueCommit(c)
  \/ \E c \in Callers : ReplaceHelper(c)
  \/ \E c \in Callers : CallerDies(c)
  \/ \E g \in Grants, k \in Keys : heGrants[g].helper # NoOne /\ Exchange(g, k)
  \/ \E g \in Grants : GrantExpires(g)
  \/ \E h \in Helpers : FailInstallation(h)
  \/ RevokeHostAuthority
  \/ RevokeMachineEnvironmentTx
  \/ SuspendControlEnvironmentForQuota

HeSpec == HeInit /\ [][HeNext]_heVars

-----------------------------------------------------------------------------
(* Issue reads the environment outside the transaction that inserts the    *)
(* grant, so a grant can outlive the revocation of its environment.  Even  *)
(* so no helper of a revoked environment is ever active: the exchange      *)
(* looks at the environment again.                                         *)
RevokedEnvironmentHasNoHelper ==
  heEnv = "revoked" => GetActiveControlHelperForEnvironment = {}

(* A grant makes one key's holder the helper: a retry of Exchange returns  *)
(* an identity only to the key that the first exchange activated, whatever *)
(* replays, replacements and failures happen in between.                   *)
OneKeyPerGrant ==
  \A x, y \in heIdentities : x[1] = y[1] => x[2] = y[2]

(* A renewal operation has one identity: of two requests carrying the same *)
(* operation that both found no stored answer, the later one answers with  *)
(* the identity the earlier one stored.                                    *)
OneIdentityPerRenewal ==
  \A x, y \in heRenewed : x[1] = y[1] => x = y

(* Each replacement advances the connector generation once and records it: *)
(* a retried or concurrent ReplaceHelper neither advances it again nor     *)
(* gives two helpers the same generation, so every older runtime is fenced *)
(* by a generation lower than the connector's.                             *)
ReplacementsAdvanceGeneration ==
  LET replaced == {h \in Helpers : heHelpers[h].state = "replaced"} IN
  /\ heConn = 1 + Cardinality(replaced)
  /\ \A h \in replaced : heHelpers[h].replacedGen \in 2..heConn
  /\ \A h, i \in replaced : heHelpers[h].replacedGen = heHelpers[i].replacedGen => h = i

(* At most one grant of the environment can be exchanged at a time, and an *)
(* operation key names one grant for ever: concurrent and repeated Issue   *)
(* calls replay instead of issuing again.                                  *)
OneLiveGrant ==
  /\ Cardinality(GetPendingControlHelperEnrollmentForEnvironment) <= 1
  /\ \A op \in OpKeys : Cardinality(GetControlHelperEnrollmentByOperationKey(op)) <= 1

(* What enrollment promises as a whole (enrollment.go Issue, Exchange,     *)
(* ReplaceHelper, Renew).                                                  *)
HelperPromises ==
  /\ RevokedEnvironmentHasNoHelper
  /\ OneKeyPerGrant
  /\ OneIdentityPerRenewal
  /\ ReplacementsAdvanceGeneration
  /\ OneLiveGrant
=============================================================================
