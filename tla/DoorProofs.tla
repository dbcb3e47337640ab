----------------------------- MODULE DoorProofs -----------------------------
(***************************************************************************)
(* Theorems about Door, for any number of requests, retries and core       *)
(* restarts: a request is executed at most once, none is stranded in a     *)
(* hold that is over, and a hold ends only on the evidence of a probe that *)
(* began under it.  Then about DoorStart.                                  *)
(***************************************************************************)
EXTENDS Door, DoorStart, TLAPS

LEMMA InvariantInit == DoorGiven /\ Init => IInv
<1> SUFFICES ASSUME DoorGiven, Init PROVE IInv
    OBVIOUS
<1>1. FlagsOK
      BY Zenon DEF Init, FlagsOK
<1>2. FieldsOK /\ ReceiptOK
      BY DEF DoorGiven, Init, FieldsOK, ReceiptOK, Receipt, Place
<1>3. /\ NoneStranded /\ NotForwarded /\ CopyUnexecuted
      /\ ExecutedAtMostOnce /\ ProbeCurrent
      BY DEF Init, NoneStranded, Held, NotForwarded, CopyUnexecuted, ExecutedAtMostOnce, ProbeCurrent
<1>4. QED BY <1>1, <1>2, <1>3 DEF IInv, TypeOK

(* Every flag stays a Boolean.                                             *)
LEMMA FlagsStep == FlagsOK /\ [Next]_vars => FlagsOK'
<1> SUFFICES ASSUME FlagsOK, [Next]_vars PROVE FlagsOK'
    OBVIOUS
<1> USE DEF FlagsOK, doorVars, probeVars, reqVars, coreVars
<1>1. CASE OperatorHolds
      BY <1>1, Zenon DEF OperatorHolds, PlaceHold, InvalidateProbe
<1>2. CASE ReceiptLearned
      BY <1>2, Zenon DEF ReceiptLearned, Holding
<1>3. CASE Close
      BY <1>3, Zenon DEF Close, InvalidateProbe, Held
<1>4. ASSUME NEW i \in {0, receipt}, ReleaseCalled(i) PROVE FlagsOK'
      BY <1>4, Zenon DEF ReleaseCalled, Holding
<1>5. ASSUME NEW t \in BOOLEAN, SetTesting(t) PROVE FlagsOK'
      BY <1>5, Zenon DEF SetTesting, Forward, Flushed, Held, ShouldHold
<1>6. CASE Monitor
      BY <1>6, Zenon DEF Monitor
<1>7. CASE ProbeAnswered
      BY <1>7, Zenon DEF ProbeAnswered
<1>8. CASE ProbeSucceeds
      BY <1>8, Zenon DEF ProbeSucceeds, Release, Releases, InvalidateProbe, Forward, Flushed, Held, ShouldHold, Holding
<1>9. CASE ProbeFails
      BY <1>9, Zenon DEF ProbeFails, PlaceHold, InvalidateProbe
<1>10. ASSUME NEW r \in Request, RequestArrives(r) PROVE FlagsOK'
      BY <1>10, Zenon DEF RequestArrives, Forward, ShouldHold, Held
<1>11. ASSUME NEW r \in Request, ClientCloses(r) PROVE FlagsOK'
      BY <1>11, Zenon DEF ClientCloses
<1>12. ASSUME NEW r \in Request, Resends(r) PROVE FlagsOK'
      BY <1>12, Zenon DEF Resends
<1>13. ASSUME NEW r \in Request, CoreConnectionFails(r) PROVE FlagsOK'
      BY <1>13, Zenon DEF CoreConnectionFails, PlaceHold, InvalidateProbe
<1>14. ASSUME NEW r \in Request, ResponseFails(r) PROVE FlagsOK'
      BY <1>14, Zenon DEF ResponseFails
<1>15. ASSUME NEW r \in Request, ResponseStarts(r) PROVE FlagsOK'
      BY <1>15, Zenon DEF ResponseStarts
<1>16. ASSUME NEW r \in Request, ResponseEnds(r) PROVE FlagsOK'
      BY <1>16, Zenon DEF ResponseEnds
<1>17. CASE CoreStops
      BY <1>17, Zenon DEF CoreStops
<1>18. CASE CoreStarts
      BY <1>18, Zenon DEF CoreStarts
<1>19. ASSUME NEW r \in Request, CoreReceives(r) PROVE FlagsOK'
      BY <1>19, Zenon DEF CoreReceives
<1>20. ASSUME NEW r \in Request, CoreExecutes(r) PROVE FlagsOK'
      BY <1>20, Zenon DEF CoreExecutes
<1>21. ASSUME NEW r \in Request, CoreCertifies(r) PROVE FlagsOK'
      BY <1>21, Zenon DEF CoreCertifies
<1>22. CASE UNCHANGED vars
      BY <1>22, Zenon DEF vars
<1>23. QED
      BY <1>1, <1>2, <1>3, <1>4, <1>5, <1>6, <1>7, <1>8, <1>9, <1>10, <1>11,
         <1>12, <1>13, <1>14, <1>15, <1>16, <1>17, <1>18, <1>19, <1>20, <1>21, <1>22
      DEF Next, Control, Probing, Traffic, Core

(* Every other variable keeps its type, a receipt goes with its hold.      *)
LEMMA FieldsStep == DoorGiven /\ FieldsOK /\ ReceiptOK /\ [Next]_vars => (FieldsOK /\ ReceiptOK)'
<1> SUFFICES ASSUME DoorGiven, FieldsOK /\ ReceiptOK, [Next]_vars PROVE (FieldsOK /\ ReceiptOK)'
    OBVIOUS
<1> USE DEF DoorGiven, FieldsOK, ReceiptOK, Receipt, Place, doorVars, probeVars, reqVars, coreVars
<1>1. CASE OperatorHolds
      BY <1>1 DEF OperatorHolds, PlaceHold, InvalidateProbe
<1>2. CASE ReceiptLearned
      BY <1>2 DEF ReceiptLearned, Holding
<1>3. CASE Close
      BY <1>3 DEF Close, InvalidateProbe, Held
<1>4. ASSUME NEW i \in {0, receipt}, ReleaseCalled(i) PROVE (FieldsOK /\ ReceiptOK)'
      BY <1>4 DEF ReleaseCalled, Holding
<1>5. ASSUME NEW t \in BOOLEAN, SetTesting(t) PROVE (FieldsOK /\ ReceiptOK)'
      BY <1>5 DEF SetTesting, Forward, Flushed, Held, ShouldHold
<1>6. CASE Monitor
      BY <1>6 DEF Monitor
<1>7. CASE ProbeAnswered
      BY <1>7 DEF ProbeAnswered
<1>8. CASE ProbeSucceeds
      BY <1>8 DEF ProbeSucceeds, Release, Releases, InvalidateProbe, Forward, Flushed, Held, ShouldHold, Holding
<1>9. CASE ProbeFails
      BY <1>9 DEF ProbeFails, PlaceHold, InvalidateProbe
<1>10. ASSUME NEW r \in Request, RequestArrives(r) PROVE (FieldsOK /\ ReceiptOK)'
      BY <1>10 DEF RequestArrives, Forward, ShouldHold, Held
<1>11. ASSUME NEW r \in Request, ClientCloses(r) PROVE (FieldsOK /\ ReceiptOK)'
      BY <1>11 DEF ClientCloses
<1>12. ASSUME NEW r \in Request, Resends(r) PROVE (FieldsOK /\ ReceiptOK)'
      BY <1>12 DEF Resends
<1>13. ASSUME NEW r \in Request, CoreConnectionFails(r) PROVE (FieldsOK /\ ReceiptOK)'
      BY <1>13 DEF CoreConnectionFails, PlaceHold, InvalidateProbe
<1>14. ASSUME NEW r \in Request, ResponseFails(r) PROVE (FieldsOK /\ ReceiptOK)'
      BY <1>14 DEF ResponseFails
<1>15. ASSUME NEW r \in Request, ResponseStarts(r) PROVE (FieldsOK /\ ReceiptOK)'
      BY <1>15 DEF ResponseStarts
<1>16. ASSUME NEW r \in Request, ResponseEnds(r) PROVE (FieldsOK /\ ReceiptOK)'
      BY <1>16 DEF ResponseEnds
<1>17. CASE CoreStops
      BY <1>17 DEF CoreStops
<1>18. CASE CoreStarts
      BY <1>18 DEF CoreStarts
<1>19. ASSUME NEW r \in Request, CoreReceives(r) PROVE (FieldsOK /\ ReceiptOK)'
      BY <1>19 DEF CoreReceives
<1>20. ASSUME NEW r \in Request, CoreExecutes(r) PROVE (FieldsOK /\ ReceiptOK)'
      BY <1>20 DEF CoreExecutes
<1>21. ASSUME NEW r \in Request, CoreCertifies(r) PROVE (FieldsOK /\ ReceiptOK)'
      BY <1>21 DEF CoreCertifies
<1>22. CASE UNCHANGED vars
      BY <1>22 DEF vars
<1>23. QED
      BY <1>1, <1>2, <1>3, <1>4, <1>5, <1>6, <1>7, <1>8, <1>9, <1>10, <1>11,
         <1>12, <1>13, <1>14, <1>15, <1>16, <1>17, <1>18, <1>19, <1>20, <1>21, <1>22
      DEF Next, Control, Probing, Traffic, Core

(* Whatever lifts a hold or testing mode forwards what it held.            *)
LEMMA HeldStep == FieldsOK /\ NoneStranded /\ [Next]_vars => NoneStranded'
<1> SUFFICES ASSUME FieldsOK /\ NoneStranded, [Next]_vars PROVE NoneStranded'
    OBVIOUS
<1> USE DEF FieldsOK, NoneStranded, Held, ShouldHold, doorVars, probeVars, reqVars, coreVars
<1>1. CASE OperatorHolds
      BY <1>1 DEF OperatorHolds, PlaceHold, InvalidateProbe
<1>2. CASE ReceiptLearned
      BY <1>2 DEF ReceiptLearned, Holding
<1>3. CASE Close
      BY <1>3 DEF Close, InvalidateProbe
<1>4. ASSUME NEW i \in {0, receipt}, ReleaseCalled(i) PROVE NoneStranded'
      BY <1>4 DEF ReleaseCalled, Holding
<1>5. ASSUME NEW t \in BOOLEAN, SetTesting(t) PROVE NoneStranded'
      BY <1>5 DEF SetTesting, Forward, Flushed
<1>6. CASE Monitor
      BY <1>6 DEF Monitor
<1>7. CASE ProbeAnswered
      BY <1>7 DEF ProbeAnswered
<1>8. CASE ProbeSucceeds
      BY <1>8 DEF ProbeSucceeds, Release, Releases, InvalidateProbe, Forward, Flushed, Holding
<1>9. CASE ProbeFails
      BY <1>9 DEF ProbeFails, PlaceHold, InvalidateProbe
<1>10. ASSUME NEW r \in Request, RequestArrives(r) PROVE NoneStranded'
      BY <1>10 DEF RequestArrives, Forward
<1>11. ASSUME NEW r \in Request, ClientCloses(r) PROVE NoneStranded'
      BY <1>11 DEF ClientCloses
<1>12. ASSUME NEW r \in Request, Resends(r) PROVE NoneStranded'
      BY <1>12 DEF Resends
<1>13. ASSUME NEW r \in Request, CoreConnectionFails(r) PROVE NoneStranded'
      BY <1>13 DEF CoreConnectionFails, PlaceHold, InvalidateProbe
<1>14. ASSUME NEW r \in Request, ResponseFails(r) PROVE NoneStranded'
      BY <1>14 DEF ResponseFails
<1>15. ASSUME NEW r \in Request, ResponseStarts(r) PROVE NoneStranded'
      BY <1>15 DEF ResponseStarts
<1>16. ASSUME NEW r \in Request, ResponseEnds(r) PROVE NoneStranded'
      BY <1>16 DEF ResponseEnds
<1>17. CASE CoreStops
      BY <1>17 DEF CoreStops
<1>18. CASE CoreStarts
      BY <1>18 DEF CoreStarts
<1>19. ASSUME NEW r \in Request, CoreReceives(r) PROVE NoneStranded'
      BY <1>19 DEF CoreReceives
<1>20. ASSUME NEW r \in Request, CoreExecutes(r) PROVE NoneStranded'
      BY <1>20 DEF CoreExecutes
<1>21. ASSUME NEW r \in Request, CoreCertifies(r) PROVE NoneStranded'
      BY <1>21 DEF CoreCertifies
<1>22. CASE UNCHANGED vars
      BY <1>22 DEF vars
<1>23. QED
      BY <1>1, <1>2, <1>3, <1>4, <1>5, <1>6, <1>7, <1>8, <1>9, <1>10, <1>11,
         <1>12, <1>13, <1>14, <1>15, <1>16, <1>17, <1>18, <1>19, <1>20, <1>21, <1>22
      DEF Next, Control, Probing, Traffic, Core

(* A request is certified only while the core has nothing of it.           *)
LEMMA ExecutionStep == FieldsOK /\ NotForwarded /\ CopyUnexecuted /\ ExecutedAtMostOnce /\ [Next]_vars => (NotForwarded /\ CopyUnexecuted /\ ExecutedAtMostOnce)'
<1> SUFFICES ASSUME FieldsOK /\ NotForwarded /\ CopyUnexecuted /\ ExecutedAtMostOnce, [Next]_vars PROVE (NotForwarded /\ CopyUnexecuted /\ ExecutedAtMostOnce)'
    OBVIOUS
<1> USE DEF FieldsOK, NotForwarded, CopyUnexecuted, ExecutedAtMostOnce, doorVars, probeVars, reqVars, coreVars
<1>1. CASE OperatorHolds
      BY <1>1 DEF OperatorHolds, PlaceHold, InvalidateProbe
<1>2. CASE ReceiptLearned
      BY <1>2 DEF ReceiptLearned, Holding
<1>3. CASE Close
      BY <1>3 DEF Close, InvalidateProbe, Held
<1>4. ASSUME NEW i \in {0, receipt}, ReleaseCalled(i) PROVE (NotForwarded /\ CopyUnexecuted /\ ExecutedAtMostOnce)'
      BY <1>4 DEF ReleaseCalled, Holding
<1>5. ASSUME NEW t \in BOOLEAN, SetTesting(t) PROVE (NotForwarded /\ CopyUnexecuted /\ ExecutedAtMostOnce)'
      BY <1>5 DEF SetTesting, Forward, Flushed, Held, ShouldHold
<1>6. CASE Monitor
      BY <1>6 DEF Monitor
<1>7. CASE ProbeAnswered
      BY <1>7 DEF ProbeAnswered
<1>8. CASE ProbeSucceeds
      BY <1>8 DEF ProbeSucceeds, Release, Releases, InvalidateProbe, Forward, Flushed, Held, ShouldHold, Holding
<1>9. CASE ProbeFails
      BY <1>9 DEF ProbeFails, PlaceHold, InvalidateProbe
<1>10. ASSUME NEW r \in Request, RequestArrives(r) PROVE (NotForwarded /\ CopyUnexecuted /\ ExecutedAtMostOnce)'
      BY <1>10 DEF RequestArrives, Forward, ShouldHold, Held
<1>11. ASSUME NEW r \in Request, ClientCloses(r) PROVE (NotForwarded /\ CopyUnexecuted /\ ExecutedAtMostOnce)'
      BY <1>11 DEF ClientCloses
<1>12. ASSUME NEW r \in Request, Resends(r) PROVE (NotForwarded /\ CopyUnexecuted /\ ExecutedAtMostOnce)'
      BY <1>12 DEF Resends
<1>13. ASSUME NEW r \in Request, CoreConnectionFails(r) PROVE (NotForwarded /\ CopyUnexecuted /\ ExecutedAtMostOnce)'
      BY <1>13 DEF CoreConnectionFails, PlaceHold, InvalidateProbe
<1>14. ASSUME NEW r \in Request, ResponseFails(r) PROVE (NotForwarded /\ CopyUnexecuted /\ ExecutedAtMostOnce)'
      BY <1>14 DEF ResponseFails
<1>15. ASSUME NEW r \in Request, ResponseStarts(r) PROVE (NotForwarded /\ CopyUnexecuted /\ ExecutedAtMostOnce)'
      BY <1>15 DEF ResponseStarts
<1>16. ASSUME NEW r \in Request, ResponseEnds(r) PROVE (NotForwarded /\ CopyUnexecuted /\ ExecutedAtMostOnce)'
      BY <1>16 DEF ResponseEnds
<1>17. CASE CoreStops
      BY <1>17 DEF CoreStops
<1>18. CASE CoreStarts
      BY <1>18 DEF CoreStarts
<1>19. ASSUME NEW r \in Request, CoreReceives(r) PROVE (NotForwarded /\ CopyUnexecuted /\ ExecutedAtMostOnce)'
      BY <1>19 DEF CoreReceives
<1>20. ASSUME NEW r \in Request, CoreExecutes(r) PROVE (NotForwarded /\ CopyUnexecuted /\ ExecutedAtMostOnce)'
      BY <1>20 DEF CoreExecutes
<1>21. ASSUME NEW r \in Request, CoreCertifies(r) PROVE (NotForwarded /\ CopyUnexecuted /\ ExecutedAtMostOnce)'
      BY <1>21 DEF CoreCertifies
<1>22. CASE UNCHANGED vars
      BY <1>22 DEF vars
<1>23. QED
      BY <1>1, <1>2, <1>3, <1>4, <1>5, <1>6, <1>7, <1>8, <1>9, <1>10, <1>11,
         <1>12, <1>13, <1>14, <1>15, <1>16, <1>17, <1>18, <1>19, <1>20, <1>21, <1>22
      DEF Next, Control, Probing, Traffic, Core

(* A hold voids the probe in flight.                                       *)
LEMMA ProbeStep == ProbeCurrent /\ [Next]_vars => ProbeCurrent'
<1> SUFFICES ASSUME ProbeCurrent, [Next]_vars PROVE ProbeCurrent'
    OBVIOUS
<1> USE DEF ProbeCurrent, doorVars, probeVars, reqVars, coreVars
<1>1. CASE OperatorHolds
      BY <1>1 DEF OperatorHolds, PlaceHold, InvalidateProbe
<1>2. CASE ReceiptLearned
      BY <1>2 DEF ReceiptLearned, Holding
<1>3. CASE Close
      BY <1>3 DEF Close, InvalidateProbe, Held
<1>4. ASSUME NEW i \in {0, receipt}, ReleaseCalled(i) PROVE ProbeCurrent'
      BY <1>4 DEF ReleaseCalled, Holding
<1>5. ASSUME NEW t \in BOOLEAN, SetTesting(t) PROVE ProbeCurrent'
      BY <1>5 DEF SetTesting, Forward, Flushed, Held, ShouldHold
<1>6. CASE Monitor
      BY <1>6 DEF Monitor
<1>7. CASE ProbeAnswered
      BY <1>7 DEF ProbeAnswered
<1>8. CASE ProbeSucceeds
      BY <1>8 DEF ProbeSucceeds, Release, Releases, InvalidateProbe, Forward, Flushed, Held, ShouldHold, Holding
<1>9. CASE ProbeFails
      BY <1>9 DEF ProbeFails, PlaceHold, InvalidateProbe
<1>10. ASSUME NEW r \in Request, RequestArrives(r) PROVE ProbeCurrent'
      BY <1>10 DEF RequestArrives, Forward, ShouldHold, Held
<1>11. ASSUME NEW r \in Request, ClientCloses(r) PROVE ProbeCurrent'
      BY <1>11 DEF ClientCloses
<1>12. ASSUME NEW r \in Request, Resends(r) PROVE ProbeCurrent'
      BY <1>12 DEF Resends
<1>13. ASSUME NEW r \in Request, CoreConnectionFails(r) PROVE ProbeCurrent'
      BY <1>13 DEF CoreConnectionFails, PlaceHold, InvalidateProbe
<1>14. ASSUME NEW r \in Request, ResponseFails(r) PROVE ProbeCurrent'
      BY <1>14 DEF ResponseFails
<1>15. ASSUME NEW r \in Request, ResponseStarts(r) PROVE ProbeCurrent'
      BY <1>15 DEF ResponseStarts
<1>16. ASSUME NEW r \in Request, ResponseEnds(r) PROVE ProbeCurrent'
      BY <1>16 DEF ResponseEnds
<1>17. CASE CoreStops
      BY <1>17 DEF CoreStops
<1>18. CASE CoreStarts
      BY <1>18 DEF CoreStarts
<1>19. ASSUME NEW r \in Request, CoreReceives(r) PROVE ProbeCurrent'
      BY <1>19 DEF CoreReceives
<1>20. ASSUME NEW r \in Request, CoreExecutes(r) PROVE ProbeCurrent'
      BY <1>20 DEF CoreExecutes
<1>21. ASSUME NEW r \in Request, CoreCertifies(r) PROVE ProbeCurrent'
      BY <1>21 DEF CoreCertifies
<1>22. CASE UNCHANGED vars
      BY <1>22 DEF vars
<1>23. QED
      BY <1>1, <1>2, <1>3, <1>4, <1>5, <1>6, <1>7, <1>8, <1>9, <1>10, <1>11,
         <1>12, <1>13, <1>14, <1>15, <1>16, <1>17, <1>18, <1>19, <1>20, <1>21, <1>22
      DEF Next, Control, Probing, Traffic, Core

LEMMA InvariantStep == DoorGiven /\ IInv /\ [Next]_vars => IInv'
BY FlagsStep, FieldsStep, HeldStep, ExecutionStep, ProbeStep DEF IInv, TypeOK

(* The inductive invariant holds in every reachable state of the door, for *)
(* any requests, any limit, any number of retries and core restarts.       *)
THEOREM DoorInvariant == ASSUME DoorGiven PROVE Spec => []IInv
<1>1. QED BY InvariantInit, InvariantStep, PTL DEF Spec

(* The door's types, and hold_kind and hold_id go together in every state. *)
THEOREM TypeCorrect == ASSUME DoorGiven PROVE Spec => []TypeOK
<1>1. IInv => TypeOK
      BY DEF IInv
<1>2. QED BY <1>1, DoorInvariant, PTL

(* Whatever the clients retry and however often the core is replaced, a    *)
(* request that goes through the door is executed at most once.            *)
THEOREM ExecutionCorrect == ASSUME DoorGiven PROVE Spec => []ExecutedAtMostOnce
<1>1. IInv => ExecutedAtMostOnce
      BY DEF IInv
<1>2. QED BY <1>1, DoorInvariant, PTL

(* flushHeld leaves nobody behind: a request is held only while a hold or  *)
(* testing mode applies to it.                                             *)
THEOREM HeldCorrect == ASSUME DoorGiven PROVE Spec => []NoneStranded
<1>1. IInv => NoneStranded
      BY DEF IInv
<1>2. QED BY <1>1, DoorInvariant, PTL

(* A hold ends only on a healthy probe that began under it, and a manual   *)
(* one only for a release that names it or names none.                     *)
THEOREM ReleaseCorrect == ASSUME DoorGiven PROVE Spec => ReleaseFenced
<1>1. IInv /\ [Next]_vars => [FencedEnd]_vars
  <2> SUFFICES ASSUME IInv, Next PROVE FencedEnd
      OBVIOUS
  <2> USE DEF FencedEnd, IInv, ProbeCurrent, doorVars, probeVars, reqVars, coreVars
  <2>1. CASE ProbeSucceeds
        BY <2>1 DEF ProbeSucceeds, Releases, Release, InvalidateProbe, Holding
  <2>2. CASE Control
        BY <2>2 DEF Control, OperatorHolds, ReceiptLearned, Close, ReleaseCalled, SetTesting, PlaceHold
  <2>3. CASE Monitor \/ ProbeAnswered \/ ProbeFails
        BY <2>3 DEF Monitor, ProbeAnswered, ProbeFails, PlaceHold
  <2>4. ASSUME NEW r \in Request, RequestArrives(r) \/ ClientCloses(r) \/ Resends(r)
                  \/ CoreConnectionFails(r) \/ ResponseFails(r)
                  \/ ResponseStarts(r) \/ ResponseEnds(r)
        PROVE FencedEnd
        BY <2>4 DEF RequestArrives, ClientCloses, Resends, CoreConnectionFails, PlaceHold,
                    ResponseFails, ResponseStarts, ResponseEnds
  <2>5. CASE Core
        BY <2>5 DEF Core, CoreStops, CoreStarts, CoreReceives, CoreExecutes, CoreCertifies
  <2>6. QED BY <2>1, <2>2, <2>3, <2>4, <2>5 DEF Next, Probing, Traffic
<1>2. QED BY <1>1, DoorInvariant, PTL DEF Spec, ReleaseFenced

-----------------------------------------------------------------------------
(* The start of a door: a running one keeps its control path, for any      *)
(* number of launchers, crashes and sockets.                               *)

DoorStartSpec == DoorStartInit /\ [][DoorStartNext]_doorStartVars

ClaimPlace == {"off", "probing", "refused", "absent", "failing", "bound", "serving"}

ClaimsTyped ==
  /\ path \in Nat /\ sockets \in Nat /\ path <= sockets
  /\ port \in Launcher \cup {"none"}
  /\ claim \in [Launcher -> [pc : ClaimPlace, own : Nat, before : Nat]]

\* A process has seen only sockets that were given out.
SeenGivenOut ==
  \A p \in Launcher : /\ claim[p].before <= sockets
                      /\ claim[p].pc \in {"probing", "refused"} => claim[p].before # 0

\* No two doors own a socket at the same time.
OneOwner ==
  \A p, q \in Launcher : claim[p].own # 0 /\ claim[q].own # 0 => p = q

\* A socket that refused a connection and is still at the path has no owner.
RefusedOwnerless ==
  \A p, q \in Launcher :
    claim[p].pc = "refused" /\ claim[p].before = path => claim[q].own = 0

DoorStartInv ==
  ClaimsTyped /\ SeenGivenOut /\ ControlPathKept /\ OneOwner /\ RefusedOwnerless

\* The initial state has no socket and no claim.
LEMMA DoorStartInitial == DoorStartInit => DoorStartInv
  BY DEF DoorStartInit, DoorStartInv, ClaimsTyped, SeenGivenOut, ControlPathKept, OneOwner,
         RefusedOwnerless, ClaimPlace

\* A bind at a path without an owner keeps the invariant: the new identity is no
\* identity anybody has seen.
LEMMA BindKeeps ==
  ASSUME DoorStartInv, NEW p \in Launcher, Binds(p), UNCHANGED port,
         \A q \in Launcher : claim[q].own = 0
  PROVE  DoorStartInv'
<1>1. /\ sockets' = sockets + 1 /\ path' = sockets + 1
      /\ claim' = [claim EXCEPT ![p] = [@ EXCEPT !.pc = "bound", !.own = sockets + 1]]
  BY DEF Binds
<1>2. /\ claim'[p] = [claim[p] EXCEPT !.pc = "bound", !.own = sockets + 1]
      /\ \A q \in Launcher \ {p} : claim'[q] = claim[q]
  BY <1>1 DEF DoorStartInv, ClaimsTyped
<1>3. ClaimsTyped'
  <2>0. /\ claim[p] \in [pc : ClaimPlace, own : Nat, before : Nat]
        /\ "bound" \in ClaimPlace /\ sockets + 1 \in Nat
    BY DEF DoorStartInv, ClaimsTyped, ClaimPlace
  <2>1. [claim[p] EXCEPT !.pc = "bound", !.own = sockets + 1]
          \in [pc : ClaimPlace, own : Nat, before : Nat]
    BY <2>0
  <2> QED BY <1>1, <2>1 DEF DoorStartInv, ClaimsTyped
<1>4. SeenGivenOut'
  BY <1>1, <1>2 DEF DoorStartInv, ClaimsTyped, SeenGivenOut
<1>5. ControlPathKept' /\ OneOwner'
  BY <1>1, <1>2 DEF DoorStartInv, ClaimsTyped, ControlPathKept, OneOwner
<1>6. RefusedOwnerless'
  BY <1>1, <1>2 DEF DoorStartInv, ClaimsTyped, SeenGivenOut, RefusedOwnerless
<1> QED BY <1>3, <1>4, <1>5, <1>6 DEF DoorStartInv

\* A step that changes no socket and gives nobody one, and in which whoever is newly
\* refused looked at a path without an owner.
LEMMA MoveKeeps ==
  ASSUME DoorStartInv, NEW p \in Launcher, NEW c \in [pc : ClaimPlace, own : Nat, before : Nat],
         claim' = [claim EXCEPT ![p] = c], UNCHANGED <<path, sockets>>,
         port' \in Launcher \cup {"none"},
         c.own \in {0, claim[p].own}, c.before <= sockets,
         c.pc \in {"probing", "refused"} => c.before # 0,
         c.pc = "refused" /\ c.before = path => \A q \in Launcher : claim[q].own = 0
  PROVE  DoorStartInv'
<1>1. claim'[p] = c /\ \A q \in Launcher \ {p} : claim'[q] = claim[q]
  BY DEF DoorStartInv, ClaimsTyped
<1>2. ClaimsTyped'
  BY DEF DoorStartInv, ClaimsTyped
<1>3. SeenGivenOut'
  BY <1>1 DEF DoorStartInv, SeenGivenOut
<1>4. ControlPathKept' /\ OneOwner'
  BY <1>1 DEF DoorStartInv, ControlPathKept, OneOwner
<1>5. RefusedOwnerless'
  BY <1>1 DEF DoorStartInv, RefusedOwnerless
<1> QED BY <1>2, <1>3, <1>4, <1>5 DEF DoorStartInv

\* Every step of a launcher keeps the invariant.
LEMMA DoorStartStep == DoorStartInv /\ [DoorStartNext]_doorStartVars => DoorStartInv'
<1> SUFFICES ASSUME DoorStartInv, [DoorStartNext]_doorStartVars PROVE DoorStartInv'
  OBVIOUS
<1>1. ASSUME NEW p \in Launcher, DoorLaunches(p) PROVE DoorStartInv'
  <2>1. CASE path = 0 /\ Binds(p)
    <3>1. \A q \in Launcher : claim[q].own = 0
      BY <2>1 DEF DoorStartInv, ControlPathKept
    <3> QED BY <1>1, <2>1, <3>1, BindKeeps DEF DoorLaunches
  <2>2. CASE path # 0
    <3> DEFINE c == [claim[p] EXCEPT !.pc = "probing", !.before = path]
    <3>1. claim' = [claim EXCEPT ![p] = c] /\ UNCHANGED <<path, sockets, port>>
      BY <1>1, <2>2 DEF DoorLaunches
    <3>2. /\ c \in [pc : ClaimPlace, own : Nat, before : Nat]
          /\ c.pc = "probing" /\ c.own = claim[p].own /\ c.before = path
      BY DEF DoorStartInv, ClaimsTyped, ClaimPlace
    <3> HIDE DEF c
    <3> QED BY <2>2, <3>1, <3>2, MoveKeeps DEF DoorStartInv, ClaimsTyped
  <2> QED BY <1>1, <2>1, <2>2 DEF DoorLaunches
<1>2. ASSUME NEW p \in Launcher, DoorConnects(p) PROVE DoorStartInv'
  <2>1. PICK to \in {IF Owner # {} THEN "failing" ELSE IF path = 0 THEN "absent" ELSE "refused",
                     "failing"} : claim' = [claim EXCEPT ![p].pc = to]
    BY <1>2 DEF DoorConnects
  <2> DEFINE c == [claim[p] EXCEPT !.pc = to]
  <2>2. claim' = [claim EXCEPT ![p] = c] /\ UNCHANGED <<path, sockets, port>>
    BY <1>2, <2>1 DEF DoorConnects
  <2>3. to \in ClaimPlace
    BY <2>1 DEF ClaimPlace
  <2>4. /\ c \in [pc : ClaimPlace, own : Nat, before : Nat]
        /\ c.pc = to /\ c.own = claim[p].own /\ c.before = claim[p].before
    BY <2>3 DEF DoorStartInv, ClaimsTyped
  <2>5. claim[p].before # 0 /\ claim[p].before <= sockets
    BY <1>2 DEF DoorConnects, DoorStartInv, SeenGivenOut
  <2>6. to = "refused" => \A q \in Launcher : claim[q].own = 0
    BY <2>1 DEF Owner, DoorStartInv, ControlPathKept
  <2> HIDE DEF c
  <2> QED BY <2>2, <2>4, <2>5, <2>6, MoveKeeps DEF DoorStartInv, ClaimsTyped
<1>3. ASSUME NEW p \in Launcher, DoorClaims(p) PROVE DoorStartInv'
  <2> DEFINE same == claim[p].pc = "refused" /\ path = claim[p].before
  <2>1. CASE (path = 0 \/ same) /\ Binds(p)
    <3>1. \A q \in Launcher : claim[q].own = 0
      BY <2>1 DEF DoorStartInv, ControlPathKept, RefusedOwnerless
    <3> QED BY <1>3, <2>1, <3>1, BindKeeps DEF DoorClaims
  <2>2. CASE claim' = [claim EXCEPT ![p].pc = "failing"] /\ UNCHANGED <<path, sockets>>
    <3> DEFINE c == [claim[p] EXCEPT !.pc = "failing"]
    <3>1. claim' = [claim EXCEPT ![p] = c] /\ UNCHANGED port
      BY <1>3, <2>2 DEF DoorClaims
    <3>2. /\ c \in [pc : ClaimPlace, own : Nat, before : Nat]
          /\ c.pc = "failing" /\ c.own = claim[p].own /\ c.before = claim[p].before
      BY DEF DoorStartInv, ClaimsTyped, ClaimPlace
    <3>3. claim[p].before <= sockets /\ port' \in Launcher \cup {"none"}
      BY <3>1 DEF DoorStartInv, SeenGivenOut, ClaimsTyped
    <3> HIDE DEF c
    <3> QED BY <2>2, <3>1, <3>2, <3>3, MoveKeeps
  <2> QED BY <1>3, <2>1, <2>2 DEF DoorClaims
<1>4. ASSUME NEW p \in Launcher, DoorListens(p) PROVE DoorStartInv'
  <2>1. PICK to \in {"serving", "failing"} : claim' = [claim EXCEPT ![p].pc = to]
    BY <1>4 DEF DoorListens
  <2> DEFINE c == [claim[p] EXCEPT !.pc = to]
  <2>2. claim' = [claim EXCEPT ![p] = c] /\ UNCHANGED <<path, sockets>>
    BY <1>4, <2>1 DEF DoorListens
  <2>3. /\ c \in [pc : ClaimPlace, own : Nat, before : Nat]
        /\ c.pc \notin {"probing", "refused"}
        /\ c.own = claim[p].own /\ c.before = claim[p].before
    BY <2>1 DEF DoorStartInv, ClaimsTyped, ClaimPlace
  <2>4. claim[p].before <= sockets /\ port' \in Launcher \cup {"none"}
    BY <1>4 DEF DoorListens, DoorStartInv, SeenGivenOut, ClaimsTyped
  <2> HIDE DEF c
  <2> QED BY <2>2, <2>3, <2>4, MoveKeeps
<1>5. ASSUME NEW p \in Launcher, DoorCloses(p) PROVE DoorStartInv'
  <2> DEFINE c == [pc |-> "off", own |-> 0, before |-> 0]
  <2>1. /\ claim' = [claim EXCEPT ![p] = c] /\ UNCHANGED sockets
        /\ path' = (IF claim[p].own # 0 THEN 0 ELSE path)
        /\ port' \in Launcher \cup {"none"}
    BY <1>5 DEF DoorCloses, DoorStartInv, ClaimsTyped
  <2>2. c \in [pc : ClaimPlace, own : Nat, before : Nat]
    BY DEF ClaimPlace
  <2>3. claim'[p] = c /\ \A q \in Launcher \ {p} : claim'[q] = claim[q]
    BY <2>1 DEF DoorStartInv, ClaimsTyped
  <2>4. CASE claim[p].own = 0
    <3>1. UNCHANGED <<path, sockets>>
      BY <2>1, <2>4
    <3>2. c.pc = "off" /\ c.own = 0 /\ c.before <= sockets
      BY DEF DoorStartInv, ClaimsTyped
    <3> HIDE DEF c
    <3> QED BY <2>1, <2>2, <3>1, <3>2, MoveKeeps
  <2>5. CASE claim[p].own # 0
    <3>1. \A q \in Launcher : claim'[q].own = 0
      BY <2>3, <2>5 DEF DoorStartInv, OneOwner
    <3>2. ClaimsTyped'
      BY <2>1, <2>2, <2>5 DEF DoorStartInv, ClaimsTyped
    <3>3. SeenGivenOut'
      BY <2>1, <2>3 DEF DoorStartInv, SeenGivenOut, ClaimsTyped
    <3>4. ControlPathKept' /\ OneOwner' /\ RefusedOwnerless'
      BY <3>1 DEF ControlPathKept, OneOwner, RefusedOwnerless
    <3> QED BY <3>2, <3>3, <3>4 DEF DoorStartInv
  <2>6. claim[p].own = 0 \/ claim[p].own # 0
    OBVIOUS
  <2> QED BY <2>4, <2>5, <2>6
<1>6. ASSUME NEW p \in Launcher, DoorCrashes(p) PROVE DoorStartInv'
  <2> DEFINE c == [pc |-> "off", own |-> 0, before |-> 0]
  <2>1. /\ claim' = [claim EXCEPT ![p] = c] /\ UNCHANGED <<path, sockets>>
        /\ port' \in Launcher \cup {"none"}
    BY <1>6 DEF DoorCrashes, DoorStartInv, ClaimsTyped
  <2>2. c \in [pc : ClaimPlace, own : Nat, before : Nat]
    BY DEF ClaimPlace
  <2>3. c.pc = "off" /\ c.own = 0 /\ c.before <= sockets
    BY DEF DoorStartInv, ClaimsTyped
  <2> HIDE DEF c
  <2> QED BY <2>1, <2>2, <2>3, MoveKeeps
<1>7. CASE UNCHANGED doorStartVars
  BY <1>7 DEF doorStartVars, DoorStartInv, ClaimsTyped, SeenGivenOut, ControlPathKept, OneOwner,
              RefusedOwnerless
<1> QED BY <1>1, <1>2, <1>3, <1>4, <1>5, <1>6, <1>7 DEF DoorStartNext

\* The inductive invariant of the start holds in every reachable state.
THEOREM DoorStartInvariant == DoorStartSpec => []DoorStartInv
  BY DoorStartInitial, DoorStartStep, PTL DEF DoorStartSpec

\* A running door keeps its control path (claimControlSocket), for any number of
\* launchers and crashes.
THEOREM ControlPathCorrect == DoorStartSpec => []ControlPathKept
<1>1. DoorStartInv => ControlPathKept
  BY DEF DoorStartInv
<1> QED BY <1>1, DoorStartInvariant, PTL
=============================================================================
