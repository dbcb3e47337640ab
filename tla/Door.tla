-------------------------------- MODULE Door --------------------------------
(***************************************************************************)
(* The continuity door (ds4-gateway/door.mjs): the process that keeps the  *)
(* client's port while the gateway core is replaced.  It holds requests,   *)
(* unread, while a hold is in force, forwards each at most once, and is    *)
(* released by an operator, by automation that names the hold it placed,   *)
(* or by a healthy core.                                                   *)
(*                                                                         *)
(* One callback is one action; a promise and the callers that await it are *)
(* resolved in the callback that settles it.  The core and the clients are *)
(* the environment: the core may stop and start, and executes a request it *)
(* was sent at most once (module Dispatch); clients send a request again   *)
(* on a certificate only.                                                  *)
(*                                                                         *)
(* Definitions marked "Mutant" are plausible bugs of the definition that   *)
(* follows them; PROJECT.json says which property catches which.           *)
(***************************************************************************)
EXTENDS Naturals, FiniteSets

CONSTANTS
    Request,
    Class,          \* request -> "normal", "test", "discovery" or "status"
    Limit,          \* max_held_requests
    HealthFailures, \* failed probes in a row that place a hold
    MaxSends,       \* bound: how often a client sends a request
    MaxStops        \* bound: how often the core stops

DoorGiven == /\ Limit \in Nat \ {0}
             /\ HealthFailures \in Nat \ {0}
             /\ MaxSends \in Nat \ {0}
             /\ MaxStops \in Nat
             /\ Class \in [Request -> {"normal", "test", "discovery", "status"}]

VARIABLES
    kind,       \* hold_kind; "none" when the door is not holding
    holdId,     \* hold_id, the receipt of the hold in force
    receipt,    \* the receipt automation remembers; 0 for none
    testing,    \* testing mode holds ordinary inference
    closing,
    probe,      \* the readiness probe in flight: asked, or answered with ok
    fails,      \* core_failures
    waiters,    \* /release calls that await it: 0, or the receipt they name
    rq,         \* where a request is, as its client and the door see it
    sends,      \* how often its client has sent it
    (* the environment *)
    coreUp, stops,
    cut,        \* requests whose connection died with the core
    copy,       \* the core's copy of a request
    ran,        \* how often a request was executed
    asked       \* the probe in flight began under the present hold

doorVars == <<kind, holdId, receipt, testing, closing>>
probeVars == <<probe, fails, waiters, asked>>
reqVars == <<rq, sends, cut, copy, ran>>
coreVars == <<coreUp, stops>>
vars == <<doorVars, probeVars, reqVars, coreVars>>

(* Receipts are unique: three of them serve for the hold in force, the one *)
(* that automation remembers and the next.                                 *)
Receipt == 1..3

Place == {"new", "held", "core", "stream", "answered", "broken", "unknown",
          "certified", "refused", "gone"}

FlagsOK == /\ testing \in BOOLEAN /\ closing \in BOOLEAN
           /\ coreUp \in BOOLEAN /\ asked \in BOOLEAN

FieldsOK ==
    /\ kind \in {"none", "manual", "automatic"}
    /\ holdId \in Receipt \cup {0} /\ receipt \in Receipt \cup {0}
    /\ probe \in {"none", "asked", "ok"}
    /\ fails \in 0..HealthFailures
    /\ waiters \subseteq Receipt \cup {0}
    /\ rq \in [Request -> Place]
    /\ sends \in [Request -> 0..MaxSends]
    /\ stops \in 0..MaxStops
    /\ cut \subseteq Request
    /\ copy \in [Request -> {"none", "sent", "has", "ran"}]
    /\ ran \in [Request -> Nat]

(* A receipt exists exactly while a hold is in force.                      *)
ReceiptOK == (kind = "none") <=> (holdId = 0)

(* Types, and hold_kind and hold_id go together.                           *)
TypeOK == FlagsOK /\ FieldsOK /\ ReceiptOK

----------------------------------------------------------------------------
Holding == kind # "none"
Held == {r \in Request : rq[r] = "held"}

(* shouldHold, for hold kind k and testing mode t.                         *)
ShouldHold(r, k, t) ==
    \/ k # "none" /\ Class[r] # "status"
    \/ t /\ Class[r] = "normal"

(* flushHeld: what no hold applies to any more is forwarded.               *)
Flushed(k, t) == {r \in Held : ~ShouldHold(r, k, t)}
Forward(S) ==
    /\ rq' = [r \in Request |-> IF r \in S THEN "core" ELSE rq[r]]
    /\ copy' = [r \in Request |-> IF r \in S THEN "sent" ELSE copy[r]]

(* invalidateProbe: its observation is void and whoever awaits it is told  *)
(* that the core is not ready.                                             *)
InvalidateProbe == probe' = "none" /\ waiters' = {} /\ asked' = FALSE

(* Mutant: a probe in flight survives the hold.                            *)
PlaceHoldProbing(k) ==
    /\ asked' = FALSE
    /\ UNCHANGED <<probe, waiters>>
    /\ IF kind = "manual" /\ k = "automatic" THEN UNCHANGED <<kind, holdId>>
       ELSE kind' = k /\ holdId' \in Receipt \ {holdId, receipt}

(* hold: a new receipt, unless an automatic hold meets a manual one.       *)
PlaceHold(k) ==
    /\ InvalidateProbe
    /\ IF kind = "manual" /\ k = "automatic" THEN UNCHANGED <<kind, holdId>>
       ELSE kind' = k /\ holdId' \in Receipt \ {holdId, receipt}

(* Mutant: the receipt outlives its hold.                                  *)
ReleaseKeepingReceipt ==
    /\ kind' = "none" /\ UNCHANGED holdId
    /\ Forward(Flushed("none", testing))
    /\ InvalidateProbe

(* release                                                                 *)
Release ==
    /\ kind' = "none" /\ holdId' = 0
    /\ Forward(Flushed("none", testing))
    /\ InvalidateProbe

----------------------------------------------------------------------------
(* The operator, automation and the readiness probe.                       *)

(* /hold                                                                   *)
OperatorHolds ==
    /\ PlaceHold("manual")
    /\ UNCHANGED <<receipt, testing, closing, fails, reqVars, coreVars>>

(* Automation reads the receipt of the hold in force.                      *)
ReceiptLearned ==
    /\ Holding /\ receipt # holdId
    /\ receipt' = holdId
    /\ UNCHANGED <<kind, holdId, testing, closing, probeVars, reqVars, coreVars>>

(* /release up to its await: with a receipt, the hold must be the one it   *)
(* names.  checkCore joins the probe in flight or starts one.              *)
ReleaseCalled(i) ==
    /\ ~closing
    /\ i # 0 => Holding /\ holdId = i
    /\ waiters' = waiters \cup {i}
    /\ probe' = IF probe = "none" THEN "asked" ELSE probe
    /\ asked' = IF probe = "none" THEN TRUE ELSE asked
    /\ UNCHANGED <<doorVars, fails, reqVars, coreVars>>

(* The monitor's checkCore.                                                *)
Monitor ==
    /\ ~closing /\ probe = "none"
    /\ probe' = "asked" /\ asked' = TRUE
    /\ UNCHANGED <<doorVars, fails, waiters, reqVars, coreVars>>

(* The core answers the probe; the answer is on its way.                   *)
ProbeAnswered ==
    /\ probe = "asked" /\ coreUp
    /\ probe' = "ok"
    /\ UNCHANGED <<doorVars, fails, waiters, asked, reqVars, coreVars>>

(* A good answer ends an automatic hold by itself, a manual one if a       *)
(* release without a receipt, or with that of the hold, is waiting for it. *)
Releases == kind = "automatic" \/ 0 \in waiters \/ (Holding /\ holdId \in waiters)

(* Mutant: an automatic hold waits for the operator like a manual one.     *)
ProbeSucceedsHolding ==
    /\ probe = "ok"
    /\ fails' = 0
    /\ IF 0 \in waiters \/ (Holding /\ holdId \in waiters) THEN Release
       ELSE InvalidateProbe /\ UNCHANGED <<kind, holdId, rq, copy>>
    /\ UNCHANGED <<receipt, testing, closing, sends, cut, ran, coreVars>>

(* finish(true) of checkCore and the continuations that await it.          *)
ProbeSucceeds ==
    /\ probe = "ok"
    /\ fails' = 0
    /\ IF Releases THEN Release
       ELSE InvalidateProbe /\ UNCHANGED <<kind, holdId, rq, copy>>
    /\ UNCHANGED <<receipt, testing, closing, sends, cut, ran, coreVars>>

(* finish(false): an error, a bad answer or the probe's own deadline,      *)
(* which a good answer may race with.                                      *)
ProbeFails ==
    /\ probe # "none"
    /\ fails' = IF fails < HealthFailures THEN fails + 1 ELSE fails
    /\ IF fails' >= HealthFailures THEN PlaceHold("automatic")
       ELSE InvalidateProbe /\ UNCHANGED <<kind, holdId>>
    /\ UNCHANGED <<receipt, testing, closing, reqVars, coreVars>>

(* Mutant: leaving testing mode forgets the requests it held.              *)
SetTestingUnflushed(t) ==
    /\ testing # t
    /\ testing' = t
    /\ UNCHANGED <<kind, holdId, receipt, closing, probeVars, reqVars, coreVars>>

(* setTesting                                                              *)
SetTesting(t) ==
    /\ testing # t
    /\ testing' = t
    /\ Forward(Flushed(kind, t))
    /\ UNCHANGED <<kind, holdId, receipt, closing, probeVars, sends, cut, ran, coreVars>>

(* close: whatever is held is refused with a certificate.                  *)
Close ==
    /\ ~closing
    /\ closing' = TRUE
    /\ InvalidateProbe
    /\ rq' = [r \in Request |-> IF r \in Held THEN "certified" ELSE rq[r]]
    /\ UNCHANGED <<kind, holdId, receipt, testing, fails, sends, cut, copy, ran, coreVars>>

----------------------------------------------------------------------------
(* Requests.                                                               *)

(* The request handler: reportNotForwarded, proxy or hold.                 *)
RequestArrives(r) ==
    /\ rq[r] = "new" /\ sends[r] < MaxSends
    /\ sends' = [sends EXCEPT ![r] = @ + 1]
    /\ LET Becomes(place) == rq' = [rq EXCEPT ![r] = place] /\ UNCHANGED copy
       IN  \/ closing /\ Becomes("certified")
           \/ ~closing /\ Class[r] = "test" /\ ~testing /\ Becomes("refused")
           \/ /\ ~closing /\ (Class[r] = "test" => testing)
              /\ \/ ~ShouldHold(r, kind, testing) /\ Forward({r})
                 \/ /\ ShouldHold(r, kind, testing)
                    /\ IF Cardinality(Held) >= Limit THEN Becomes("certified")
                       ELSE Becomes("held")
    /\ UNCHANGED <<doorVars, probeVars, cut, ran, coreVars>>

(* The client closes its connection.                                       *)
ClientCloses(r) ==
    /\ rq[r] \in {"held", "core", "stream"}
    /\ rq' = [rq EXCEPT ![r] = "gone"]
    /\ UNCHANGED <<doorVars, probeVars, sends, cut, copy, ran, coreVars>>

(* The client may send a certified request again.                          *)
Resends(r) ==
    /\ rq[r] = "certified" /\ sends[r] < MaxSends
    /\ rq' = [rq EXCEPT ![r] = "new"]
    /\ UNCHANGED <<doorVars, probeVars, sends, cut, copy, ran, coreVars>>

(* Mutant: a connection lost before the response is certified.             *)
CoreConnectionFailsCertified(r) ==
    /\ rq[r] \in {"core", "stream"} /\ (r \in cut \/ ~coreUp)
    /\ rq' = [rq EXCEPT ![r] = IF @ = "core" THEN "certified" ELSE "broken"]
    /\ cut' = cut \ {r}
    /\ PlaceHold("automatic")
    /\ UNCHANGED <<receipt, testing, closing, fails, sends, copy, ran, coreVars>>

(* upstream.on('error'): the core is gone, and whether it had passed the   *)
(* request on is unknown.  Later arrivals are held.                        *)
CoreConnectionFails(r) ==
    /\ rq[r] \in {"core", "stream"} /\ (r \in cut \/ ~coreUp)
    /\ rq' = [rq EXCEPT ![r] = IF @ = "core" THEN "unknown" ELSE "broken"]
    /\ cut' = cut \ {r}
    /\ PlaceHold("automatic")
    /\ UNCHANGED <<receipt, testing, closing, fails, sends, copy, ran, coreVars>>

(* responseFailed: the response broke off; the client's is cut as well.    *)
ResponseFails(r) ==
    /\ rq[r] = "stream" /\ r \in cut
    /\ rq' = [rq EXCEPT ![r] = "broken"]
    /\ cut' = cut \ {r}
    /\ UNCHANGED <<doorVars, probeVars, sends, copy, ran, coreVars>>

(* The core's response begins, and ends.                                   *)
ResponseStarts(r) ==
    /\ rq[r] = "core" /\ r \notin cut /\ copy[r] \in {"has", "ran"} /\ coreUp
    /\ rq' = [rq EXCEPT ![r] = "stream"]
    /\ UNCHANGED <<doorVars, probeVars, sends, cut, copy, ran, coreVars>>
ResponseEnds(r) ==
    /\ rq[r] = "stream" /\ r \notin cut /\ coreUp
    /\ rq' = [rq EXCEPT ![r] = "answered"]
    /\ UNCHANGED <<doorVars, probeVars, sends, cut, copy, ran, coreVars>>

----------------------------------------------------------------------------
(* The core.                                                               *)

CoreReceives(r) ==
    /\ copy[r] = "sent" /\ rq[r] \in {"core", "gone"} /\ r \notin cut /\ coreUp
    /\ copy' = [copy EXCEPT ![r] = "has"]
    /\ UNCHANGED <<doorVars, probeVars, rq, sends, cut, ran, coreVars>>

(* A worker executes it, even after the core or the client is gone.        *)
CoreExecutes(r) ==
    /\ copy[r] = "has"
    /\ copy' = [copy EXCEPT ![r] = "ran"]
    /\ ran' = [ran EXCEPT ![r] = @ + 1]
    /\ UNCHANGED <<doorVars, probeVars, rq, sends, cut, coreVars>>

(* The core's own certificate, for a request no worker has or will get.    *)
CoreCertifies(r) ==
    /\ rq[r] = "core" /\ r \notin cut /\ copy[r] = "has" /\ coreUp
    /\ rq' = [rq EXCEPT ![r] = "certified"]
    /\ copy' = [copy EXCEPT ![r] = "none"]
    /\ UNCHANGED <<doorVars, probeVars, sends, cut, ran, coreVars>>

CoreStops ==
    /\ coreUp /\ stops < MaxStops
    /\ coreUp' = FALSE /\ stops' = stops + 1
    /\ cut' = cut \cup {r \in Request : rq[r] \in {"core", "stream"}}
    /\ UNCHANGED <<doorVars, probeVars, rq, sends, copy, ran>>

CoreStarts ==
    /\ ~coreUp
    /\ coreUp' = TRUE
    /\ UNCHANGED <<doorVars, probeVars, reqVars, stops>>

----------------------------------------------------------------------------
Init ==
    /\ kind = "none" /\ holdId = 0 /\ receipt = 0
    /\ testing \in BOOLEAN /\ closing = FALSE
    /\ probe = "none" /\ fails = 0 /\ waiters = {} /\ asked = FALSE
    /\ rq = [r \in Request |-> "new"]
    /\ sends = [r \in Request |-> 0]
    /\ coreUp \in BOOLEAN /\ stops = 0
    /\ cut = {}
    /\ copy = [r \in Request |-> "none"]
    /\ ran = [r \in Request |-> 0]

Control == \/ OperatorHolds \/ ReceiptLearned \/ Close
           \/ \E i \in {0, receipt} : ReleaseCalled(i)
           \/ \E t \in BOOLEAN : SetTesting(t)
Probing == Monitor \/ ProbeAnswered \/ ProbeSucceeds \/ ProbeFails
Traffic == \E r \in Request :
              \/ RequestArrives(r) \/ ClientCloses(r) \/ Resends(r)
              \/ CoreConnectionFails(r) \/ ResponseFails(r)
              \/ ResponseStarts(r) \/ ResponseEnds(r)
Core == \/ CoreStops \/ CoreStarts
        \/ \E r \in Request : CoreReceives(r) \/ CoreExecutes(r) \/ CoreCertifies(r)

Next == Control \/ Probing \/ Traffic \/ Core

Spec == Init /\ [][Next]_vars

(* The monitor's interval comes round, a healthy core answers its probe,   *)
(* and infinitely many answers are not all beaten by the probe's deadline. *)
Fairness ==
    /\ WF_vars(Monitor)
    /\ SF_vars(ProbeAnswered)
    /\ SF_vars(ProbeSucceeds)

FairSpec == Spec /\ Fairness

----------------------------------------------------------------------------
(* Properties.                                                             *)

(* Through the door, core restarts and the client's retries a request is   *)
(* executed at most once: the door certifies only what it never forwarded  *)
(* and says "unknown" of what it lost.                                     *)
ExecutedAtMostOnce == \A r \in Request : ran[r] <= 1

(* No request is stranded: between callbacks a request is held only while  *)
(* a hold or testing mode applies to it.                                   *)
NoneStranded == \A r \in Held : ShouldHold(r, kind, testing)

(* A hold ends only on a healthy answer to a probe that began under that   *)
(* very hold, and a manual one only if a release without a receipt or with *)
(* its own asked for it: neither an answer from before the hold nor a      *)
(* release meant for an earlier hold ends it.                              *)
FencedEnd ==
    kind # "none" /\ kind' = "none" =>
        /\ asked /\ probe = "ok"
        /\ kind = "manual" => waiters \cap {0, holdId} # {}

ReleaseFenced == [][FencedEnd]_vars

(* A core that stays up gets the requests held for it: an automatic hold   *)
(* needs no operator.                                                      *)
HeldMovesOn ==
    <>[](coreUp /\ kind # "manual" /\ ~testing) =>
        \A r \in Request : rq[r] = "held" ~> rq[r] # "held"

----------------------------------------------------------------------------
(* The inductive invariant behind the safety properties.                   *)

(* The core has nothing of a request that is not sent, held, refused or    *)
(* certified.                                                              *)
NotForwarded == \A r \in Request :
    rq[r] \in {"new", "held", "certified", "refused"} => copy[r] = "none"

(* A copy that is still to be executed is of an unexecuted request.        *)
CopyUnexecuted == \A r \in Request : copy[r] # "ran" => ran[r] = 0

(* Every probe in flight began under the present hold.                     *)
ProbeCurrent == probe # "none" => asked

IInv == TypeOK /\ NoneStranded /\ NotForwarded /\ CopyUnexecuted /\ ExecutedAtMostOnce /\ ProbeCurrent
=============================================================================
