----------------------- MODULE HelperEnrollmentProofs -----------------------
(***************************************************************************)
(* Proofs about HelperEnrollment: its promises hold for any number of      *)
(* helpers, grants, keys, operation keys and concurrent requests.          *)
(***************************************************************************)
EXTENDS HelperEnrollment, FiniteSetTheorems, TLAPS

HelperStates == {"none", "pending", "active", "replaced", "revoked"}
GrantStates == {"none", "pending", "consumed", "revoked"}

HelperRows == [state: HelperStates, key: Keys \cup {NoOne}, replacedBy: OpKeys \cup {NoOne},
               replacedGen: Nat]
GrantRows == [state: GrantStates, helper: Helpers \cup {NoOne}, op: OpKeys \cup {NoOne},
              expired: BOOLEAN]
CallRows == [pc: {"idle", "issue", "replace", "renew"}, op: OpKeys \cup {NoOne},
             helper: Helpers \cup {NoOne}]

(* A request under way carries its operation key, and past its read of the *)
(* active helper it carries that helper.                                   *)
CallsNamed ==
  \A c \in Callers :
    /\ heCall[c].pc # "idle" => heCall[c].op \in OpKeys
    /\ heCall[c].pc \in {"replace", "renew"} => heCall[c].helper \in Helpers

(* Exactly the inserted grants have an operation key, and they name a      *)
(* helper.                                                                 *)
GrantsNamed ==
  \A g \in Grants :
    /\ heGrants[g].state = "none" <=> heGrants[g].op = NoOne
    /\ heGrants[g].state # "none" => heGrants[g].helper \in Helpers

(* The two unique indexes of control_helper_enrollments.                   *)
GrantIndexes ==
  /\ \A f, g \in Grants : heGrants[f].state = "pending" /\ heGrants[g].state = "pending" => f = g
  /\ \A f, g \in Grants : heGrants[f].op # NoOne /\ heGrants[f].op = heGrants[g].op => f = g

(* An identity was handed out for a used grant, to the key of its helper.  *)
KeysBound ==
  \A x \in heIdentities :
    /\ heGrants[x[1]].state \in {"consumed", "revoked"}
    /\ heGrants[x[1]].helper \in Helpers
    /\ heHelpers[heGrants[x[1]].helper].state \notin {"none", "pending"}
    /\ heHelpers[heGrants[x[1]].helper].key = x[2]

(* A renewed identity is the one its operation's row stores.               *)
RenewalsBound == \A x \in heRenewed : heRenewals[x[1]] = x[2]

Replaced == {h \in Helpers : heHelpers[h].state = "replaced"}

(* The connector generation counts the replacements.                       *)
GenerationCounts ==
  /\ IsFiniteSet(Replaced)
  /\ heConn = 1 + Cardinality(Replaced)
  /\ \A h \in Replaced : heHelpers[h].replacedGen \in 2..heConn
  /\ \A h, i \in Replaced : heHelpers[h].replacedGen = heHelpers[i].replacedGen => h = i

HeInv ==
  /\ HeTypeOK
  /\ CallsNamed
  /\ GrantsNamed
  /\ GrantIndexes
  /\ RevokedEnvironmentHasNoHelper
  /\ KeysBound
  /\ RenewalsBound
  /\ GenerationCounts

-----------------------------------------------------------------------------
(* What most steps do to the rows.                                         *)

(* No grant is inserted, and none becomes pending.                         *)
GrantsRetire ==
  \A g \in Grants :
    /\ heGrants'[g].op = heGrants[g].op
    /\ heGrants'[g].helper = heGrants[g].helper
    /\ \/ heGrants'[g].state = heGrants[g].state
       \/ heGrants[g].state # "none" /\ heGrants'[g].state \in {"consumed", "revoked"}

(* A helper that has a key keeps it.                                       *)
HelpersKeepKeys ==
  \A h \in Helpers :
    heHelpers[h].state \notin {"none", "pending"} =>
      heHelpers'[h].state \notin {"none", "pending"} /\ heHelpers'[h].key = heHelpers[h].key

(* No helper is replaced.                                                  *)
ReplacedStay ==
  /\ heConn' = heConn
  /\ \A h \in Helpers :
       /\ heHelpers'[h].state = "replaced" <=> heHelpers[h].state = "replaced"
       /\ heHelpers'[h].replacedGen = heHelpers[h].replacedGen

(* No helper becomes active and no revoked environment comes back.         *)
NoneActivated ==
  \/ heEnv' # "revoked"
  \/ heEnv = "revoked" /\ \A h \in Helpers : heHelpers'[h].state = "active" => heHelpers[h].state = "active"
  \/ \A h \in Helpers : heHelpers'[h].state # "active"

(* A grant that is not inserted or reopened keeps what is said of grants.  *)
LEMMA GrantsKept ==
  ASSUME HeTypeOK, HeTypeOK', GrantsNamed, GrantIndexes, GrantsRetire
  PROVE  GrantsNamed' /\ GrantIndexes'
<1>1. GrantsNamed'
  BY DEF GrantsNamed, GrantsRetire
<1>2. GrantIndexes'
  BY DEF GrantIndexes, GrantsRetire
<1> QED BY <1>1, <1>2

(* Identities handed out before the step stay bound to their keys.         *)
LEMMA KeysKept ==
  ASSUME HeTypeOK, HeTypeOK', KeysBound, GrantsRetire, HelpersKeepKeys,
         heIdentities' = heIdentities
  PROVE  KeysBound'
BY DEF HeTypeOK, KeysBound, GrantsRetire, HelpersKeepKeys

(* The set of replaced helpers is unchanged, and so is what is said of it. *)
LEMMA GenerationsKept ==
  ASSUME GenerationCounts, ReplacedStay
  PROVE  GenerationCounts'
<1>1. Replaced' = Replaced
  BY DEF Replaced, ReplacedStay
<1>2. \A h \in Replaced : heHelpers'[h].replacedGen = heHelpers[h].replacedGen
  BY DEF Replaced, ReplacedStay
<1> QED BY <1>1, <1>2 DEF GenerationCounts, ReplacedStay

(* A revoked environment gains no active helper.                           *)
LEMMA RevokedKept ==
  ASSUME RevokedEnvironmentHasNoHelper, NoneActivated
  PROVE  RevokedEnvironmentHasNoHelper'
BY DEF RevokedEnvironmentHasNoHelper, NoneActivated, GetActiveControlHelperForEnvironment

(* The invariant is kept by a step that does only these things.            *)
LEMMA QuietStep ==
  ASSUME HeInv, HeTypeOK', CallsNamed', GrantsRetire, HelpersKeepKeys, ReplacedStay,
         NoneActivated, heIdentities' = heIdentities, heRenewals' = heRenewals,
         heRenewed' = heRenewed
  PROVE  HeInv'
<1>1. RenewalsBound'
  BY DEF HeInv, RenewalsBound
<1> QED BY <1>1, GrantsKept, KeysKept, GenerationsKept, RevokedKept DEF HeInv

(* A set of which any two elements are equal has at most one.              *)
LEMMA AtMostOne ==
  ASSUME NEW S, \A x, y \in S : x = y
  PROVE  Cardinality(S) <= 1
<1>1. CASE S = {}
  BY <1>1, FS_EmptySet
<1>2. CASE S # {}
  <2>1. PICK x \in S : TRUE
    BY <1>2
  <2>2. S = {x}
    BY <2>1
  <2> QED BY <2>2, FS_Singleton
<1> QED BY <1>1, <1>2

-----------------------------------------------------------------------------
(* Rows.                                                                   *)

(* What a helper's row is after its state, and perhaps its key, was set.   *)
LEMMA HelperRowSet ==
  ASSUME NEW r \in HelperRows, NEW s \in HelperStates
  PROVE  /\ [r EXCEPT !.state = s] \in HelperRows
         /\ [r EXCEPT !.state = s].state = s
         /\ [r EXCEPT !.state = s].key = r.key
         /\ [r EXCEPT !.state = s].replacedGen = r.replacedGen
BY DEF HelperRows

(* What a grant's row is after its state was set.                          *)
LEMMA GrantRowSet ==
  ASSUME NEW r \in GrantRows, NEW s \in GrantStates
  PROVE  /\ [r EXCEPT !.state = s] \in GrantRows
         /\ [r EXCEPT !.state = s].state = s
         /\ [r EXCEPT !.state = s].helper = r.helper
         /\ [r EXCEPT !.state = s].op = r.op
BY DEF GrantRows

(* The type invariant by tables.                                           *)
LEMMA TypeOfRows ==
  HeTypeOK <=> /\ heEnv \in {"active", "suspended", "revoked"}
               /\ heHelpers \in [Helpers -> HelperRows]
               /\ heGrants \in [Grants -> GrantRows]
               /\ heConn \in Nat
               /\ heCall \in [Callers -> CallRows]
               /\ heIdentities \subseteq Grants \X Keys
               /\ heRenewals \in [OpKeys -> Callers \cup {NoOne}]
               /\ heRenewed \subseteq OpKeys \X Callers
BY DEF HeTypeOK, HelperRows, HelperStates, GrantRows, GrantStates, CallRows

(* Revoking pending grants, whichever they are.                            *)
LEMMA RevokingRetires ==
  ASSUME heGrants \in [Grants -> GrantRows], NEW R \in SUBSET Grants,
         \A g \in R : heGrants[g].state \in {"pending", "consumed"},
         heGrants' = [g \in Grants |-> IF g \in R THEN [heGrants[g] EXCEPT !.state = "revoked"]
                                        ELSE heGrants[g]]
  PROVE  heGrants' \in [Grants -> GrantRows] /\ GrantsRetire
<1>1. \A g \in R : /\ heGrants'[g] \in GrantRows
                   /\ heGrants'[g].state = "revoked"
                   /\ heGrants'[g].helper = heGrants[g].helper
                   /\ heGrants'[g].op = heGrants[g].op
  BY GrantRowSet DEF GrantStates
<1>2. \A g \in Grants \ R : heGrants'[g] = heGrants[g]
  OBVIOUS
<1> QED BY <1>1, <1>2 DEF GrantsRetire

-----------------------------------------------------------------------------
(* One lemma per action.                                                   *)

(* Issue's reads and its revocation of expired grants (also as called by   *)
(* EnsureBootGrant).                                                       *)
LEMMA IssueReadKeeps ==
  ASSUME HeInv, NEW c \in Callers, NEW op \in OpKeys, IssueRead(c, op)
  PROVE  HeInv'
<1> USE DEF HeInv
<1>1. heGrants' \in [Grants -> GrantRows] /\ GrantsRetire
  <2> DEFINE R == {g \in Grants : heGrants[g].state = "pending" /\ heGrants[g].expired}
  <2>1. heGrants' = [g \in Grants |-> IF g \in R THEN [heGrants[g] EXCEPT !.state = "revoked"]
                                       ELSE heGrants[g]]
    BY DEF IssueRead, RevokeExpiredControlHelperEnrollments, RevokeWhere
  <2> QED BY <2>1, TypeOfRows, RevokingRetires
<1>2. heCall' \in [Callers -> CallRows] /\ CallsNamed'
  BY DEF IssueRead, HeTypeOK, CallRows, CallsNamed, GetPendingControlHelperForEnvironment
<1>3. HeTypeOK'
  BY <1>1, <1>2 DEF IssueRead, HeTypeOK, GrantRows, GrantStates, CallRows
<1>4. HelpersKeepKeys /\ ReplacedStay /\ NoneActivated
  BY DEF IssueRead, HelpersKeepKeys, ReplacedStay, NoneActivated
<1> QED BY <1>1, <1>2, <1>3, <1>4, QuietStep DEF IssueRead

(* Issue's transaction: at most one pending grant, a fresh operation key.  *)
LEMMA IssueCommitKeeps ==
  ASSUME HeInv, NEW c \in Callers, IssueCommit(c)
  PROVE  HeInv'
<1> USE DEF HeInv
<1>0. heCall' \in [Callers -> CallRows] /\ CallsNamed'
  BY DEF IssueCommit, HeTypeOK, CallRows, CallsNamed, HeIdle
<1>1. CASE IssueConflicts(heCall[c].op)
  <2>1. HeTypeOK'
    BY <1>0, <1>1 DEF IssueCommit, HeTypeOK, CallRows
  <2>2. GrantsRetire /\ HelpersKeepKeys /\ ReplacedStay /\ NoneActivated
    BY <1>1 DEF IssueCommit, GrantsRetire, HelpersKeepKeys, ReplacedStay, NoneActivated
  <2> QED BY <1>0, <1>1, <2>1, <2>2, QuietStep DEF IssueCommit
<1>2. CASE ~IssueConflicts(heCall[c].op)
  <2> DEFINE op == heCall[c].op
  <2>1. PICK g \in Grants, h \in Helpers :
          /\ heGrants[g].state = "none"
          /\ heGrants' = [heGrants EXCEPT ![g] =
                [state |-> "pending", helper |-> h, op |-> op, expired |-> FALSE]]
          /\ \/ heHelpers' = heHelpers
             \/ heHelpers[h].state = "none" /\ heHelpers' = [heHelpers EXCEPT ![h].state = "pending"]
    BY <1>2 DEF IssueCommit, HeTypeOK
  <2>2. op \in OpKeys
    BY DEF IssueCommit, CallsNamed
  <2>3. heGrants' \in [Grants -> GrantRows]
    BY <2>1, <2>2 DEF HeTypeOK, GrantRows, GrantStates
  <2>4. /\ heHelpers' \in [Helpers -> HelperRows]
        /\ \A i \in Helpers :
             \/ heHelpers'[i] = heHelpers[i]
             \/ /\ heHelpers[i].state = "none" /\ heHelpers'[i].state = "pending"
                /\ heHelpers'[i].replacedGen = heHelpers[i].replacedGen
    <3>1. CASE heHelpers' = heHelpers
      BY <3>1, TypeOfRows
    <3>2. CASE heHelpers[h].state = "none" /\ heHelpers' = [heHelpers EXCEPT ![h].state = "pending"]
      <4>1. heHelpers \in [Helpers -> HelperRows]
        BY TypeOfRows
      <4>2. heHelpers' = [heHelpers EXCEPT ![h] = [heHelpers[h] EXCEPT !.state = "pending"]]
        BY <3>2
      <4>3. heHelpers[h] \in HelperRows /\ "pending" \in HelperStates
        BY <4>1 DEF HelperStates
      <4> HIDE DEF HelperRows
      <4> QED BY <3>2, <4>1, <4>2, <4>3, HelperRowSet
    <3> QED BY <2>1, <3>1, <3>2
  <2>5. HeTypeOK'
    BY <1>0, <2>3, <2>4
    DEF IssueCommit, HeTypeOK, GrantRows, GrantStates, HelperRows, HelperStates, CallRows
  <2>6. GrantsNamed'
    BY <2>1, <2>2, NoOneIsAbsent DEF GrantsNamed, HeTypeOK
  <2>7. GrantIndexes'
    BY <1>2, <2>1, <2>2
    DEF GrantIndexes, HeTypeOK, IssueConflicts, GetControlHelperEnrollmentByOperationKey,
        GetPendingControlHelperEnrollmentForEnvironment
  <2>8. RevokedEnvironmentHasNoHelper'
    <3>1. NoneActivated
      BY <2>4 DEF IssueCommit, NoneActivated
    <3> QED BY <3>1, RevokedKept
  <2>9. KeysBound'
    <3> SUFFICES ASSUME NEW x \in heIdentities
                 PROVE  /\ heGrants'[x[1]].state \in {"consumed", "revoked"}
                        /\ heGrants'[x[1]].helper \in Helpers
                        /\ heHelpers'[heGrants'[x[1]].helper].state \notin {"none", "pending"}
                        /\ heHelpers'[heGrants'[x[1]].helper].key = x[2]
      BY DEF IssueCommit, KeysBound
    <3>1. x[1] # g /\ heGrants'[x[1]] = heGrants[x[1]]
      BY <2>1 DEF HeTypeOK, KeysBound
    <3>2. heHelpers'[heGrants[x[1]].helper] = heHelpers[heGrants[x[1]].helper]
      BY <2>1 DEF HeTypeOK, KeysBound
    <3> QED BY <3>1, <3>2 DEF KeysBound
  <2>10. RenewalsBound'
    BY DEF IssueCommit, RenewalsBound
  <2>11. GenerationCounts'
    <3>1. ReplacedStay
      BY <2>4 DEF IssueCommit, ReplacedStay
    <3> QED BY <3>1, GenerationsKept
  <2> QED BY <1>0, <2>5, <2>6, <2>7, <2>8, <2>9, <2>10, <2>11
<1> QED BY <1>1, <1>2

(* Exchange: a pending grant's first key becomes its helper's key, and a   *)
(* replay changes nothing.                                                 *)
LEMMA ExchangeKeeps ==
  ASSUME HeInv, NEW g \in Grants, NEW k \in Keys, heGrants[g].helper # NoOne, Exchange(g, k)
  PROVE  HeInv'
<1> USE DEF HeInv
<1> DEFINE h == heGrants[g].helper
<1>0. h \in Helpers
  BY DEF HeTypeOK
<1>1. CASE /\ ConsumeControlHelperEnrollment(g)
           /\ ActivateControlHelper(h)
           /\ heGrants' = [heGrants EXCEPT ![g].state = "consumed"]
           /\ heHelpers' = [heHelpers EXCEPT ![h].state = "active", ![h].key = k]
  <2>1. heGrants' \in [Grants -> GrantRows] /\ GrantsRetire
    BY <1>1 DEF HeTypeOK, GrantRows, GrantStates, GrantsRetire, ConsumeControlHelperEnrollment
  <2>2. heHelpers' \in [Helpers -> HelperRows]
    <3>1. heHelpers \in [Helpers -> HelperRows]
      BY TypeOfRows
    <3>2. heHelpers' = [heHelpers EXCEPT ![h] = [heHelpers[h] EXCEPT !.state = "active", !.key = k]]
      BY <1>1
    <3>3. [heHelpers[h] EXCEPT !.state = "active", !.key = k] \in HelperRows
      BY <1>0, <3>1 DEF HelperRows, HelperStates
    <3> QED BY <3>1, <3>2, <3>3
  <2>3. heIdentities' \subseteq Grants \X Keys
    BY DEF Exchange, HeTypeOK
  <2>4. HeTypeOK'
    BY <2>1, <2>2, <2>3 DEF Exchange, HeTypeOK, GrantRows, GrantStates, HelperRows, HelperStates
  <2>5. CallsNamed' /\ RenewalsBound'
    BY DEF Exchange, CallsNamed, RenewalsBound
  <2>6. ReplacedStay /\ NoneActivated
    BY <1>0, <1>1 DEF Exchange, ReplacedStay, NoneActivated, ActivateControlHelper,
                      ConsumeControlHelperEnrollment, HeTypeOK
  <2>7. KeysBound'
    <3> SUFFICES ASSUME NEW x \in heIdentities'
                 PROVE  /\ heGrants'[x[1]].state \in {"consumed", "revoked"}
                        /\ heGrants'[x[1]].helper \in Helpers
                        /\ heHelpers'[heGrants'[x[1]].helper].state \notin {"none", "pending"}
                        /\ heHelpers'[heGrants'[x[1]].helper].key = x[2]
      BY DEF KeysBound
    <3>1. CASE x = <<g, k>>
      BY <1>0, <1>1, <3>1 DEF HeTypeOK
    <3>2. CASE x \in heIdentities
      <4>1. /\ heGrants[x[1]].state \in {"consumed", "revoked"}
            /\ heGrants[x[1]].helper \in Helpers \ {h}
        BY <1>1, <3>2 DEF KeysBound, ActivateControlHelper
      <4>2. /\ heGrants'[x[1]] = heGrants[x[1]]
            /\ heHelpers'[heGrants[x[1]].helper] = heHelpers[heGrants[x[1]].helper]
        BY <1>1, <3>2, <4>1 DEF HeTypeOK, ConsumeControlHelperEnrollment
      <4> QED BY <3>2, <4>1, <4>2 DEF KeysBound
    <3> QED BY <3>1, <3>2 DEF Exchange
  <2> QED BY <2>1, <2>4, <2>5, <2>6, <2>7, GrantsKept, GenerationsKept, RevokedKept
<1>2. CASE /\ GetConsumedControlHelperEnrollmentForReplay(g)
           /\ SameKey(h, k)
           /\ UNCHANGED <<heGrants, heHelpers>>
  <2>1. HeTypeOK'
    BY <1>2 DEF Exchange, HeTypeOK
  <2>2. KeysBound'
    BY <1>0, <1>2 DEF Exchange, KeysBound, GetConsumedControlHelperEnrollmentForReplay, SameKey
  <2>3. CallsNamed' /\ RenewalsBound'
    BY DEF Exchange, CallsNamed, RenewalsBound
  <2>4. GrantsRetire /\ ReplacedStay /\ NoneActivated
    BY <1>2 DEF Exchange, GrantsRetire, ReplacedStay, NoneActivated
  <2> QED BY <2>1, <2>2, <2>3, <2>4, GrantsKept, GenerationsKept, RevokedKept
<1> QED BY <1>1, <1>2 DEF Exchange
(* ReplaceHelper: the connector generation and the number of replaced      *)
(* helpers grow together, or nothing changes.                              *)
LEMMA ReplaceHelperKeeps ==
  ASSUME HeInv, NEW c \in Callers, ReplaceHelper(c)
  PROVE  HeInv'
<1> USE DEF HeInv
<1> DEFINE h == heCall[c].helper
           op == heCall[c].op
<1>0. /\ h \in Helpers /\ op \in OpKeys
      /\ heCall' \in [Callers -> CallRows] /\ CallsNamed'
  BY DEF ReplaceHelper, HeTypeOK, CallRows, CallsNamed, HeIdle
<1>1. CASE ~ReplaceControlHelper(h)
  <2>1. HeTypeOK'
    BY <1>0, <1>1 DEF ReplaceHelper, HeTypeOK, CallRows
  <2>2. GrantsRetire /\ HelpersKeepKeys /\ ReplacedStay /\ NoneActivated
    BY <1>1 DEF ReplaceHelper, GrantsRetire, HelpersKeepKeys, ReplacedStay, NoneActivated
  <2> QED BY <1>0, <1>1, <2>1, <2>2, QuietStep DEF ReplaceHelper
<1>2. CASE ReplaceControlHelper(h)
  <2> DEFINE row == [heHelpers[h] EXCEPT !.state = "replaced", !.replacedBy = op,
                                         !.replacedGen = heConn + 1]
  <2>1. /\ heHelpers \in [Helpers -> HelperRows] /\ heConn \in Nat
        /\ heGrants \in [Grants -> GrantRows]
    BY TypeOfRows
  <2>2. heHelpers' = [heHelpers EXCEPT ![h] = row] /\ heConn' = heConn + 1
    BY <1>2 DEF ReplaceHelper
  <2>3. /\ row \in HelperRows
        /\ row.state = "replaced"
        /\ row.key = heHelpers[h].key
        /\ row.replacedGen = heConn + 1
    <3>1. heHelpers[h] \in HelperRows /\ heConn + 1 \in Nat
      BY <1>0, <2>1
    <3>2. row = [heHelpers[h] EXCEPT !.state = "replaced", !.replacedBy = op,
                                     !.replacedGen = heConn + 1]
      OBVIOUS
    <3>3. op \in OpKeys
      BY <1>0
    <3> HIDE DEF row, h, op
    <3> QED BY ONLY <3>1, <3>2, <3>3 DEF HelperRows, HelperStates
  <2> HIDE DEF row
  <2>4. /\ heHelpers' \in [Helpers -> HelperRows]
        /\ heHelpers'[h] = row
        /\ \A i \in Helpers \ {h} : heHelpers'[i] = heHelpers[i]
    BY <1>0, <2>1, <2>2, <2>3
  <2>5. heGrants' \in [Grants -> GrantRows] /\ GrantsRetire
    <3> DEFINE R == {g \in Grants : heGrants[g].state = "pending" /\ heGrants[g].helper = h}
    <3>1. heGrants' = [g \in Grants |-> IF g \in R THEN [heGrants[g] EXCEPT !.state = "revoked"]
                                         ELSE heGrants[g]]
      BY <1>2 DEF ReplaceHelper, RevokePendingHelperEnrollments, RevokeWhere
    <3> QED BY <2>1, <3>1, RevokingRetires
  <2>6. HeTypeOK'
    BY <1>0, <2>1, <2>2, <2>4, <2>5
    DEF ReplaceHelper, HeTypeOK, GrantRows, GrantStates, HelperRows, HelperStates, CallRows
  <2>7. HelpersKeepKeys
    BY <2>3, <2>4 DEF HelpersKeepKeys
  <2>8. NoneActivated
    BY <2>3, <2>4 DEF ReplaceHelper, NoneActivated
  <2>9. RenewalsBound'
    BY DEF ReplaceHelper, RenewalsBound
  <2>10. GenerationCounts'
    <3>1. h \notin Replaced /\ Replaced' = Replaced \cup {h}
      BY <1>0, <1>2, <2>3, <2>4 DEF Replaced, ReplaceControlHelper
    <3>2. IsFiniteSet(Replaced') /\ Cardinality(Replaced') = Cardinality(Replaced) + 1
      BY <3>1, FS_AddElement DEF GenerationCounts
    <3>3. Cardinality(Replaced) \in Nat
      BY FS_CardinalityType DEF GenerationCounts
    <3>4. heConn' = 1 + Cardinality(Replaced')
      BY <2>2, <3>2, <3>3 DEF GenerationCounts
    <3>5. \A i \in Replaced : /\ heHelpers'[i].replacedGen = heHelpers[i].replacedGen
                              /\ heHelpers[i].replacedGen \in 2..heConn
      BY <2>4, <3>1 DEF GenerationCounts, Replaced
    <3>6. \A i \in Replaced' : heHelpers'[i].replacedGen \in 2..heConn'
      <4>1. 1 <= heConn
        BY <3>3 DEF GenerationCounts
      <4>2. heHelpers'[h].replacedGen \in 2..heConn'
        BY <2>1, <2>2, <2>3, <2>4, <4>1
      <4>3. \A i \in Replaced : heHelpers'[i].replacedGen \in 2..heConn'
        BY <2>1, <2>2, <3>5
      <4> QED BY <3>1, <4>2, <4>3
    <3>7. \A i, j \in Replaced' :
             heHelpers'[i].replacedGen = heHelpers'[j].replacedGen => i = j
      <4>1. \A i \in Replaced : heHelpers'[i].replacedGen # heHelpers'[h].replacedGen
        BY <2>1, <2>3, <2>4, <3>5
      <4> QED BY <3>1, <3>5, <4>1 DEF GenerationCounts
    <3> QED BY <3>2, <3>4, <3>6, <3>7 DEF GenerationCounts
  <2> QED BY <1>0, <2>5, <2>6, <2>7, <2>8, <2>9, <2>10, GrantsKept, KeysKept, RevokedKept
          DEF ReplaceHelper
<1> QED BY <1>1, <1>2

(* Renew's two steps touch the stored renewals only: an operation's row is *)
(* written once and every answer is the stored one.                        *)
LEMMA RenewKeeps ==
  ASSUME HeInv, NEW c \in Callers,
         RenewCommit(c) \/ \E op \in OpKeys : RenewRead(c, op)
  PROVE  HeInv'
<1> USE DEF HeInv
<1>1. heCall' \in [Callers -> CallRows] /\ CallsNamed'
  <2>1. CASE RenewCommit(c)
    BY <2>1 DEF RenewCommit, HeTypeOK, CallRows, CallsNamed, HeIdle
  <2>2. CASE \E op \in OpKeys : RenewRead(c, op)
    <3>1. PICK op \in OpKeys : RenewRead(c, op)
      BY <2>2
    <3>2. CASE heCall' = heCall
      BY <3>2 DEF HeTypeOK, CallRows, CallsNamed
    <3>3. CASE \E h \in Helpers :
                 heCall' = [heCall EXCEPT ![c] = [pc |-> "renew", op |-> op, helper |-> h]]
      BY <3>3 DEF HeTypeOK, CallRows, CallsNamed
    <3> QED BY <3>1, <3>2, <3>3 DEF RenewRead, GetActiveControlHelperForEnvironment
  <2> QED BY <2>1, <2>2
<1>2. /\ heRenewals' \in [OpKeys -> Callers \cup {NoOne}]
      /\ heRenewed' \subseteq OpKeys \X Callers
      /\ RenewalsBound'
  <2>1. CASE RenewCommit(c)
    <3> DEFINE op == heCall[c].op
    <3>1. op \in OpKeys
      BY <2>1 DEF RenewCommit, CallsNamed
    <3>2. /\ heRenewals' \in [OpKeys -> Callers \cup {NoOne}]
          /\ heRenewals'[op] \in Callers
          /\ \A o \in OpKeys : heRenewals[o] # NoOne => heRenewals'[o] = heRenewals[o]
      BY <2>1, <3>1, NoOneIsAbsent DEF RenewCommit, CreateHostedHelperIdentityRenewal, HeTypeOK
    <3>3. \A x \in heRenewed : x[1] \in OpKeys /\ heRenewals[x[1]] # NoOne
      BY NoOneIsAbsent DEF RenewalsBound, HeTypeOK
    <3>4. heRenewed' = heRenewed \cup {<<op, heRenewals'[op]>>}
      BY <2>1 DEF RenewCommit
    <3> QED BY <3>1, <3>2, <3>3, <3>4 DEF RenewalsBound, HeTypeOK
  <2>2. CASE \E op \in OpKeys : RenewRead(c, op)
    BY <2>2 DEF RenewRead, RenewalsBound, HeTypeOK
  <2> QED BY <2>1, <2>2
<1>3. UNCHANGED heRows
  BY DEF RenewCommit, RenewRead
<1>4. HeTypeOK'
  BY <1>1, <1>2, <1>3 DEF HeTypeOK, heRows, CallRows
<1>5. GrantsRetire /\ HelpersKeepKeys /\ ReplacedStay /\ NoneActivated
  BY <1>3 DEF heRows, GrantsRetire, HelpersKeepKeys, ReplacedStay, NoneActivated
<1> QED BY <1>1, <1>2, <1>3, <1>4, <1>5, GrantsKept, KeysKept, GenerationsKept, RevokedKept
        DEF heRows
(* The remaining steps: a replacement's read, an expiry, a death, the      *)
(* revocations of grants, helpers and the environment, a suspension.       *)
LEMMA OtherStepsKeep ==
  ASSUME HeInv,
         \/ \E c \in Callers, op \in OpKeys : ReplaceRead(c, op)
         \/ \E c \in Callers : CallerDies(c)
         \/ \E g \in Grants : GrantExpires(g)
         \/ \E h \in Helpers : FailInstallation(h)
         \/ RevokeHostAuthority
         \/ RevokeMachineEnvironmentTx
         \/ SuspendControlEnvironmentForQuota
         \/ UNCHANGED heVars
  PROVE  HeInv'
<1> USE DEF HeInv
<1>0. /\ heHelpers \in [Helpers -> HelperRows]
      /\ heGrants \in [Grants -> GrantRows]
      /\ heCall \in [Callers -> CallRows]
  BY TypeOfRows
<1>1. CASE \/ \E c \in Callers, op \in OpKeys : ReplaceRead(c, op)
           \/ \E c \in Callers : CallerDies(c)
  <2>1. heCall' \in [Callers -> CallRows] /\ CallsNamed'
    <3>1. CASE \E c \in Callers, op \in OpKeys : ReplaceRead(c, op)
      BY <1>0, <3>1 DEF ReplaceRead, CallRows, CallsNamed, GetActiveControlHelperForEnvironment
    <3>2. CASE \E c \in Callers : CallerDies(c)
      BY <1>0, <3>2 DEF CallerDies, CallRows, CallsNamed, HeIdle
    <3> QED BY <1>1, <3>1, <3>2
  <2>2. UNCHANGED heRows /\ UNCHANGED heRenewRows
    BY <1>1 DEF ReplaceRead, CallerDies, heRows, heRenewRows
  <2>3. HeTypeOK'
    BY <2>1, <2>2 DEF HeTypeOK, CallRows, heRows, heRenewRows
  <2>4. GrantsRetire /\ HelpersKeepKeys /\ ReplacedStay /\ NoneActivated
    BY <2>2 DEF heRows, GrantsRetire, HelpersKeepKeys, ReplacedStay, NoneActivated
  <2> QED BY <2>1, <2>2, <2>3, <2>4, QuietStep DEF heRows, heRenewRows
<1>2. CASE \E g \in Grants : GrantExpires(g)
  <2>1. PICK g \in Grants : GrantExpires(g)
    BY <1>2
  <2>2. /\ [heGrants[g] EXCEPT !.expired = TRUE] \in GrantRows
        /\ [heGrants[g] EXCEPT !.expired = TRUE].state = heGrants[g].state
        /\ [heGrants[g] EXCEPT !.expired = TRUE].op = heGrants[g].op
        /\ [heGrants[g] EXCEPT !.expired = TRUE].helper = heGrants[g].helper
    BY <1>0 DEF GrantRows
  <2>3. heGrants' = [heGrants EXCEPT ![g] = [heGrants[g] EXCEPT !.expired = TRUE]]
    BY <2>1 DEF GrantExpires
  <2>4. heGrants' \in [Grants -> GrantRows] /\ GrantsRetire
    BY <1>0, <2>2, <2>3 DEF GrantsRetire
  <2>5. HeTypeOK' /\ CallsNamed'
    BY <2>1, <2>4 DEF GrantExpires, HeTypeOK, GrantRows, GrantStates, CallsNamed
  <2>6. HelpersKeepKeys /\ ReplacedStay /\ NoneActivated
    BY <2>1 DEF GrantExpires, HelpersKeepKeys, ReplacedStay, NoneActivated
  <2> QED BY <2>1, <2>4, <2>5, <2>6, QuietStep DEF GrantExpires
<1>3. CASE \E h \in Helpers : FailInstallation(h)
  <2>1. PICK h \in Helpers : FailInstallation(h)
    BY <1>3
  <2>2. heGrants' \in [Grants -> GrantRows] /\ GrantsRetire
    <3> DEFINE R == {g \in Grants : heGrants[g].helper = h
                                    /\ heGrants[g].state \in {"pending", "consumed"}}
    <3>1. heGrants' = [g \in Grants |-> IF g \in R THEN [heGrants[g] EXCEPT !.state = "revoked"]
                                         ELSE heGrants[g]]
      BY <2>1 DEF FailInstallation
    <3> QED BY <1>0, <3>1, RevokingRetires
  <2>3. /\ heHelpers' \in [Helpers -> HelperRows]
        /\ heHelpers'[h].state = "revoked" /\ heHelpers'[h].key = heHelpers[h].key
        /\ heHelpers'[h].replacedGen = heHelpers[h].replacedGen
        /\ \A i \in Helpers \ {h} : heHelpers'[i] = heHelpers[i]
    <3>1. heHelpers' = [heHelpers EXCEPT ![h] = [heHelpers[h] EXCEPT !.state = "revoked"]]
      BY <2>1 DEF FailInstallation
    <3>2. heHelpers[h] \in HelperRows /\ "revoked" \in HelperStates
      BY <1>0 DEF HelperStates
    <3> QED BY <1>0, <3>1, <3>2, HelperRowSet
  <2>4. HeTypeOK' /\ CallsNamed'
    BY <2>1, <2>2, <2>3
    DEF FailInstallation, HeTypeOK, GrantRows, GrantStates, HelperRows, HelperStates, CallsNamed
  <2>5. HelpersKeepKeys /\ ReplacedStay /\ NoneActivated
    BY <2>1, <2>3 DEF FailInstallation, HelpersKeepKeys, ReplacedStay, NoneActivated
  <2> QED BY <2>1, <2>2, <2>4, <2>5, QuietStep DEF FailInstallation
<1>4. CASE RevokeHostAuthority \/ RevokeMachineEnvironmentTx
  <2>1. heGrants' \in [Grants -> GrantRows] /\ GrantsRetire
    <3> DEFINE R == {g \in Grants : heGrants[g].state = "pending"}
    <3>1. heGrants' = [g \in Grants |-> IF g \in R THEN [heGrants[g] EXCEPT !.state = "revoked"]
                                         ELSE heGrants[g]]
      BY <1>4 DEF RevokeHostAuthority, RevokeMachineEnvironmentTx,
                  RevokeControlHelperEnrollmentsForEnvironment, RevokeWhere
    <3> QED BY <1>0, <3>1, RevokingRetires
  <2>2. /\ heHelpers' \in [Helpers -> HelperRows]
        /\ HelpersKeepKeys /\ ReplacedStay /\ NoneActivated
    <3>1. CASE RevokeHostAuthority
      BY <1>0, <3>1 DEF RevokeHostAuthority, HelpersKeepKeys, ReplacedStay, NoneActivated
    <3>2. CASE RevokeMachineEnvironmentTx
      <4>1. \A h \in Helpers :
               /\ heHelpers'[h] \in HelperRows
               /\ heHelpers'[h].key = heHelpers[h].key
               /\ heHelpers'[h].replacedGen = heHelpers[h].replacedGen
               /\ heHelpers'[h].state = IF heHelpers[h].state \in {"pending", "active"}
                                        THEN "revoked" ELSE heHelpers[h].state
        <5> SUFFICES ASSUME NEW h \in Helpers
                     PROVE  /\ heHelpers'[h] \in HelperRows
                            /\ heHelpers'[h].key = heHelpers[h].key
                            /\ heHelpers'[h].replacedGen = heHelpers[h].replacedGen
                            /\ heHelpers'[h].state = IF heHelpers[h].state \in {"pending", "active"}
                                                     THEN "revoked" ELSE heHelpers[h].state
          OBVIOUS
        <5>1. heHelpers[h] \in HelperRows /\ "revoked" \in HelperStates
          BY <1>0 DEF HelperStates
        <5>2. heHelpers'[h] = IF heHelpers[h].state \in {"pending", "active"}
                              THEN [heHelpers[h] EXCEPT !.state = "revoked"] ELSE heHelpers[h]
          BY <3>2 DEF RevokeMachineEnvironmentTx, RevokeControlHelpersForEnvironment
        <5> QED BY <5>1, <5>2, HelperRowSet
      <4>2. heHelpers' \in [Helpers -> HelperRows]
        BY <3>2, <4>1 DEF RevokeMachineEnvironmentTx, RevokeControlHelpersForEnvironment
      <4> QED BY <3>2, <4>1, <4>2
              DEF RevokeMachineEnvironmentTx, HelpersKeepKeys, ReplacedStay, NoneActivated
    <3> QED BY <1>4, <3>1, <3>2
  <2>3. HeTypeOK' /\ CallsNamed'
    BY <1>4, <2>1, <2>2
    DEF RevokeHostAuthority, RevokeMachineEnvironmentTx, HeTypeOK, GrantRows, GrantStates,
        HelperRows, HelperStates, CallsNamed
  <2> QED BY <1>4, <2>1, <2>2, <2>3, QuietStep DEF RevokeHostAuthority, RevokeMachineEnvironmentTx
<1>5. CASE SuspendControlEnvironmentForQuota \/ UNCHANGED heVars
  <2>1. HeTypeOK' /\ CallsNamed'
    BY <1>5 DEF SuspendControlEnvironmentForQuota, heVars, heRows, heRenewRows, HeTypeOK, CallsNamed
  <2>2. GrantsRetire /\ HelpersKeepKeys /\ ReplacedStay /\ NoneActivated
    BY <1>5 DEF SuspendControlEnvironmentForQuota, heVars, heRows, heRenewRows, GrantsRetire,
                HelpersKeepKeys, ReplacedStay, NoneActivated
  <2> QED BY <1>5, <2>1, <2>2, QuietStep
          DEF SuspendControlEnvironmentForQuota, heVars, heRows, heRenewRows
<1> QED BY <1>1, <1>2, <1>3, <1>4, <1>5

-----------------------------------------------------------------------------
(* The invariant holds of every behaviour.                                 *)
LEMMA HelperInvariant == HeSpec => []HeInv
<1>1. HeInit => HeInv
  <2> SUFFICES ASSUME HeInit PROVE HeInv
    OBVIOUS
  <2>1. HeTypeOK
    BY DEF HeInit, HeTypeOK, NoHelper, NoGrant, HeIdle
  <2>2. CallsNamed /\ GrantsNamed /\ GrantIndexes
    BY DEF HeInit, CallsNamed, GrantsNamed, GrantIndexes, NoGrant, HeIdle
  <2>3. RevokedEnvironmentHasNoHelper /\ KeysBound /\ RenewalsBound
    BY DEF HeInit, RevokedEnvironmentHasNoHelper, KeysBound, RenewalsBound
  <2>4. GenerationCounts
    <3>1. Replaced = {}
      BY DEF HeInit, Replaced, NoHelper
    <3> QED BY <3>1, FS_EmptySet DEF HeInit, GenerationCounts
  <2> QED BY <2>1, <2>2, <2>3, <2>4 DEF HeInv
<1>2. HeInv /\ [HeNext]_heVars => HeInv'
  <2> SUFFICES ASSUME HeInv, [HeNext]_heVars PROVE HeInv'
    OBVIOUS
  <2>1. CASE \E c \in Callers, op \in OpKeys : IssueRead(c, op) \/ EnsureBootGrant(c, op)
    BY <2>1, IssueReadKeeps DEF EnsureBootGrant
  <2>2. CASE \E c \in Callers : IssueCommit(c)
    BY <2>2, IssueCommitKeeps
  <2>3. CASE \E g \in Grants, k \in Keys : heGrants[g].helper # NoOne /\ Exchange(g, k)
    BY <2>3, ExchangeKeeps
  <2>4. CASE \E c \in Callers : ReplaceHelper(c)
    BY <2>4, ReplaceHelperKeeps
  <2>5. CASE \E c \in Callers : RenewCommit(c) \/ \E op \in OpKeys : RenewRead(c, op)
    BY <2>5, RenewKeeps
  <2> QED BY <2>1, <2>2, <2>3, <2>4, <2>5, OtherStepsKeep DEF HeNext
<1> QED BY <1>1, <1>2, PTL DEF HeSpec

(* What enrollment.go promises, whatever the number of helpers, grants,    *)
(* keys, operation keys and concurrent requests: a revoked environment has *)
(* no active helper, a grant serves one key, a renewal has one identity,   *)
(* the connector generation counts the replacements, and one grant at most *)
(* can be exchanged.                                                       *)
THEOREM HelperPromisesAlways == HeSpec => []HelperPromises
<1>1. HeInv => HelperPromises
  <2> SUFFICES ASSUME HeInv PROVE HelperPromises
    OBVIOUS
  <2>1. OneKeyPerGrant
    BY DEF HeInv, KeysBound, OneKeyPerGrant
  <2>2. OneIdentityPerRenewal
    BY DEF HeInv, HeTypeOK, RenewalsBound, OneIdentityPerRenewal
  <2>3. ReplacementsAdvanceGeneration
    BY DEF HeInv, GenerationCounts, Replaced, ReplacementsAdvanceGeneration
  <2>4. OneLiveGrant
    <3>1. Cardinality(GetPendingControlHelperEnrollmentForEnvironment) <= 1
      BY AtMostOne DEF HeInv, GrantIndexes, GetPendingControlHelperEnrollmentForEnvironment
    <3>2. ASSUME NEW op \in OpKeys
          PROVE  Cardinality(GetControlHelperEnrollmentByOperationKey(op)) <= 1
      BY AtMostOne, NoOneIsAbsent
      DEF HeInv, GrantIndexes, GetControlHelperEnrollmentByOperationKey
    <3> QED BY <3>1, <3>2 DEF OneLiveGrant
  <2> QED BY <2>1, <2>2, <2>3, <2>4 DEF HeInv, HelperPromises
<1> QED BY <1>1, HelperInvariant, PTL

(* The rows that enrollment.go reads and writes keep their types.          *)
THEOREM HelperRowsTyped == HeSpec => []HeTypeOK
<1>1. HeInv => HeTypeOK
  BY DEF HeInv
<1> QED BY <1>1, HelperInvariant, PTL
=============================================================================
