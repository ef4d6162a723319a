--------------------------- MODULE RelaySelection ---------------------------
(***************************************************************************)
(* The choice of a relay region for a peer attempt (relayselection.Select  *)
(* and peersessions' selectRelayNode): each attempt brings the client's    *)
(* and the machine's latency vectors, and the choice persists with the     *)
(* hysteresis that keeps it from flapping.  Attempts arrive in any order,  *)
(* so a vector may be older than one already used.                         *)
(*                                                                         *)
(* Times are in seconds and round trips in milliseconds.  Vectors are      *)
(* within the accepted age; a region's score is the sum of its two trips.  *)
(***************************************************************************)
EXTENDS Naturals, FiniteSets

CONSTANTS
  RsRegions,     \* regions in the order Select breaks ties (naturals)
  RsTimes,       \* observation times
  RsScores,      \* possible scores of a region in one attempt
  RsMaxClientGen \* bound on a client's vector generations

RsAssumption == RsRegions \subseteq Nat \ {0} /\ RsTimes \subseteq Nat \ {0}

VARIABLES
  rsState,       \* peer_relay_selection_states
  rsTrail,       \* when the attempts were observed that, one after the other,
                 \* found the same region better by the margin (ghost)
  rsAttempt      \* the attempt last answered (ghost)

rsVars == <<rsState, rsTrail, rsAttempt>>

NoSelectionState ==
  [current |-> 0, clientGen |-> 0, clientAt |-> 0, candidate |-> 0,
   first |-> 0, last |-> 0, samples |-> 0]

NoAttempt == [scored |-> {}, observed |-> 0]

\* reset drops the candidate.
reset(s) == [s EXCEPT !.candidate = 0, !.first = 0, !.last = 0, !.samples = 0]

\* qualifies: better by 10 ms and by 15 percent.
qualifies(current, candidate) ==
  /\ candidate < current
  /\ current - candidate >= 10
  /\ (current - candidate) * 100 >= current * 15

\* The region with the best score; ties go to the smaller name.
Best(score) ==
  CHOOSE r \in DOMAIN score :
    \A q \in DOMAIN score : score[r] < score[q] \/ (score[r] = score[q] /\ r <= q)

\* The client's vector is not newer than the one the state was made from.
StaleClient(s, a) ==
  s.clientAt > 0 /\ (a.at < s.clientAt \/ (a.at = s.clientAt /\ a.gen <= s.clientGen))

\* The older of the two observations.
Observed(a) == IF a.host < a.at THEN a.host ELSE a.at

\* A further sample of the candidate counts when three seconds have passed.
SampleSpaced(s, observed) == observed >= s.last + 3

\* The candidate after an attempt that found best better by the margin.
Sampled(s, best, observed) ==
  IF s.candidate # best
  THEN [s EXCEPT !.candidate = best, !.first = observed, !.last = observed, !.samples = 1]
  ELSE IF SampleSpaced(s, observed) THEN [s EXCEPT !.last = observed, !.samples = @ + 1] ELSE s

\* Three samples over ten seconds.
RsSustained(s) == s.samples >= 3 /\ s.last >= s.first + 10

\* Whether the sample just taken was counted.
RsCounted(s, best, observed) == s.candidate = best /\ SampleSpaced(s, observed)

\* Select's state after an attempt whose vectors score the regions of a.score.
\* An unscored current region is kept on a recent relay success (a.success).
SelectState(s, a) ==
  LET observed == Observed(a)
      fresh == [s EXCEPT !.clientGen = a.gen, !.clientAt = a.at]
      best == Best(a.score)
      sampled == Sampled(fresh, best, observed)
  IN IF StaleClient(s, a) THEN s
     ELSE IF s.current # 0 /\ s.current \notin DOMAIN a.score /\ a.success THEN reset(fresh)
     ELSE IF s.current \notin DOMAIN a.score THEN [reset(fresh) EXCEPT !.current = best]
     ELSE IF best = s.current \/ ~qualifies(a.score[s.current], a.score[best]) THEN reset(fresh)
     ELSE IF RsCounted(fresh, best, observed) /\ RsSustained(sampled)
          THEN [reset(fresh) EXCEPT !.current = best]
     ELSE sampled

\* The attempts of the run that the present one belongs to.
Trail(s, a) ==
  IF StaleClient(s, a) THEN rsTrail
     ELSE IF /\ s.current \in DOMAIN a.score
             /\ qualifies(a.score[s.current], a.score[Best(a.score)])
          THEN [best |-> Best(a.score),
                at |-> (IF rsTrail.best = Best(a.score) THEN rsTrail.at ELSE {}) \cup {Observed(a)}]
     ELSE [best |-> 0, at |-> {}]

RsAttempts ==
  [at : RsTimes, host : RsTimes, gen : 1..RsMaxClientGen, success : BOOLEAN,
   score : UNION {[S -> RsScores] : S \in (SUBSET RsRegions) \ {{}}}]

GetPeerRelaySelectionStateForUpdate == rsState

UpdatePeerRelaySelectionState(s) == rsState' = s

\* One Reserve that carries latency vectors: read the row, select, write it back.
selectRelayNode(a) ==
  /\ UpdatePeerRelaySelectionState(SelectState(GetPeerRelaySelectionStateForUpdate, a))
  /\ rsTrail' = IF rsState'.current # rsState.current
                THEN [best |-> 0, at |-> {}] ELSE Trail(rsState, a)
  /\ rsAttempt' = [scored |-> DOMAIN a.score,
                   observed |-> Observed(a)]

RsTypeOK ==
  /\ rsState \in [current : RsRegions \cup {0}, clientGen : 0..RsMaxClientGen,
                  clientAt : RsTimes \cup {0}, candidate : RsRegions \cup {0},
                  first : RsTimes \cup {0}, last : RsTimes \cup {0}, samples : 0..4]
  /\ rsTrail \in [best : RsRegions \cup {0}, at : SUBSET RsTimes]

RsInit ==
  /\ rsState = NoSelectionState
  /\ rsTrail = [best |-> 0, at |-> {}]
  /\ rsAttempt = NoAttempt

RsNext == \E a \in RsAttempts : selectRelayNode(a)

RsSpec == RsInit /\ [][RsNext]_rsVars

-----------------------------------------------------------------------------
(* Properties.                                                             *)

\* No flapping: the selection leaves a region that both vectors still score only
\* after uninterrupted attempts found the new one better by the margin at three
\* observations three seconds apart over at least ten seconds.
SwitchIsSustained ==
  (/\ rsState'.current # rsState.current
   /\ rsState.current \in rsAttempt'.scored) =>
    /\ rsTrail.best = rsState'.current
    /\ \E f, m \in rsTrail.at :
         /\ f + 3 <= m /\ m + 3 <= rsAttempt'.observed
         /\ f + 10 <= rsAttempt'.observed
=============================================================================
