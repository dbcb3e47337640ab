--------------------------- MODULE DispatchProofs ---------------------------
(***************************************************************************)
(* Theorems about Dispatch: the not_dispatched certificate is never wrong, *)
(* a client that retries on it alone has its request executed at most      *)
(* once, for any number of retries, and is never left with an answer that  *)
(* nobody finishes or that ends before it is whole.                        *)
(***************************************************************************)
EXTENDS Dispatch, TLAPS

LEMMA InvariantInit == Init => IInv
<1> SUFFICES ASSUME Init PROVE IInv
    OBVIOUS
<1>1. FlagsOK
      BY Zenon DEF Init, FlagsOK
<1>2. FieldsOK
      BY TriesAssumption DEF Init, FieldsOK, Rejections
<1>3. /\ Undispatched /\ ReachedConnected /\ CertifiedOver
      /\ CertifiedNeverReached /\ RejectedUnexecuted /\ ExecutionCurrent
      BY DEF Init, Undispatched, ReachedConnected, CertifiedOver,
             CertifiedNeverReached, RejectedUnexecuted, ExecutionCurrent
<1>4. SettledAnswered /\ AnswerBegun
      BY DEF Init, SettledAnswered, AnswerBegun
<1>5. QED BY <1>1, <1>2, <1>3, <1>4 DEF IInv, TypeOK

(* Every flag stays a Boolean.                                             *)
LEMMA FlagsStep == FlagsOK /\ [Next]_vars => FlagsOK'
<1> SUFFICES ASSUME FlagsOK, [Next]_vars PROVE FlagsOK'
    OBVIOUS
<1> USE DEF FlagsOK, Issue, Finish, Answer, clientVars, bodyVars, sockVars, workVars
<1>1. CASE Dispatches
      BY <1>1, Zenon DEF Dispatches
<1>2. CASE AdmissionRefuses
      BY <1>2, Zenon DEF AdmissionRefuses
<1>3. CASE UploadEnds
      BY <1>3, Zenon DEF UploadEnds
<1>4. CASE ClientCancels
      BY <1>4, Zenon DEF ClientCancels
<1>5. CASE Resends
      BY <1>5, Zenon DEF Resends
<1>6. CASE SocketAssigned
      BY <1>6, Zenon DEF SocketAssigned
<1>7. CASE Connects
      BY <1>7, Zenon DEF Connects
<1>8. CASE ConnectFails
      BY <1>8, Zenon DEF ConnectFails, UpstreamError
<1>9. CASE SocketFails
      BY <1>9, Zenon DEF SocketFails, UpstreamError
<1>10. CASE ResponseAborts
      BY <1>10, Zenon DEF ResponseAborts, UpstreamError
<1>11. CASE DestroyedCloses
      BY <1>11, Zenon DEF DestroyedCloses
<1>12. CASE DeadlineFires
      BY <1>12, Zenon DEF DeadlineFires, UpstreamError
<1>13. CASE BodyFlushed
      BY <1>13, Zenon DEF BodyFlushed
<1>14. CASE WorkerReads
      BY <1>14, Zenon DEF WorkerReads
<1>15. CASE WorkerExecutes
      BY <1>15, Zenon DEF WorkerExecutes
<1>16. CASE ResponseStarts
      BY <1>16, Zenon DEF ResponseStarts
<1>17. CASE BufferOverflows
      BY <1>17, Zenon DEF BufferOverflows
<1>18. CASE ForwardEnds
      BY <1>18, Zenon DEF ForwardEnds, Released
<1>19. CASE BufferEnds
      BY <1>19, Zenon DEF BufferEnds, Released, SendBuffered, SendGuidance
<1>20. CASE CaptureContinues
      BY <1>20, Zenon DEF CaptureContinues, Repairs, SendBuffered, SendGuidance
<1>21. CASE NormalizeReturns
      BY <1>21, Zenon DEF NormalizeReturns, SendGuidance
<1>22. CASE UNCHANGED vars
      BY <1>22, Zenon DEF vars
<1>23. QED BY <1>1, <1>2, <1>3, <1>4, <1>5, <1>6, <1>7, <1>8, <1>9, <1>10, <1>11, <1>12,
                <1>13, <1>14, <1>15, <1>16, <1>17, <1>18, <1>19, <1>20, <1>21, <1>22 DEF Next

(* Every other variable keeps its type.                                    *)
LEMMA FieldsStep == FieldsOK /\ [Next]_vars => FieldsOK'
<1> SUFFICES ASSUME FieldsOK, [Next]_vars PROVE FieldsOK'
    OBVIOUS
<1> USE DEF FieldsOK, Rejections, Issue, Finish, Answer, clientVars, bodyVars, sockVars, workVars
<1>1. CASE Dispatches
      BY <1>1 DEF Dispatches
<1>2. CASE AdmissionRefuses
      BY <1>2 DEF AdmissionRefuses
<1>3. CASE UploadEnds
      BY <1>3 DEF UploadEnds
<1>4. CASE ClientCancels
      BY <1>4 DEF ClientCancels
<1>5. CASE Resends
      BY <1>5, TriesAssumption DEF Resends
<1>6. CASE SocketAssigned
      BY <1>6 DEF SocketAssigned
<1>7. CASE Connects
      BY <1>7 DEF Connects
<1>8. CASE ConnectFails
      BY <1>8 DEF ConnectFails, UpstreamError
<1>9. CASE SocketFails
      BY <1>9 DEF SocketFails, UpstreamError
<1>10. CASE ResponseAborts
      BY <1>10 DEF ResponseAborts, UpstreamError
<1>11. CASE DestroyedCloses
      BY <1>11 DEF DestroyedCloses
<1>12. CASE DeadlineFires
      BY <1>12 DEF DeadlineFires, UpstreamError
<1>13. CASE BodyFlushed
      BY <1>13 DEF BodyFlushed
<1>14. CASE WorkerReads
      BY <1>14 DEF WorkerReads
<1>15. CASE WorkerExecutes
      BY <1>15 DEF WorkerExecutes
<1>16. CASE ResponseStarts
      BY <1>16 DEF ResponseStarts
<1>17. CASE BufferOverflows
      BY <1>17 DEF BufferOverflows
<1>18. CASE ForwardEnds
      BY <1>18 DEF ForwardEnds, Released
<1>19. CASE BufferEnds
      BY <1>19 DEF BufferEnds, Released, SendBuffered, SendGuidance
<1>20. CASE CaptureContinues
      BY <1>20 DEF CaptureContinues, Repairs, SendBuffered, SendGuidance
<1>21. CASE NormalizeReturns
      BY <1>21 DEF NormalizeReturns, SendGuidance
<1>22. CASE UNCHANGED vars
      BY <1>22 DEF vars
<1>23. QED BY <1>1, <1>2, <1>3, <1>4, <1>5, <1>6, <1>7, <1>8, <1>9, <1>10, <1>11, <1>12,
                <1>13, <1>14, <1>15, <1>16, <1>17, <1>18, <1>19, <1>20, <1>21, <1>22 DEF Next

(* No step reaches a worker with a certified request, lets a rejected one  *)
(* be executed or loses track of an execution.                             *)
LEMMA UpstreamStep ==
    ASSUME IInv, [Next]_vars
    PROVE  (/\ Undispatched /\ ReachedConnected /\ CertifiedOver
            /\ CertifiedNeverReached /\ RejectedUnexecuted /\ ExecutionCurrent)'
<1> USE DEF IInv, TypeOK, FlagsOK, FieldsOK, Undispatched, ReachedConnected, CertifiedOver,
            CertifiedNeverReached, RejectedUnexecuted, ExecutionCurrent,
            Issue, Finish, Answer, clientVars, bodyVars, sockVars, workVars
<1>1. CASE Dispatches \/ AdmissionRefuses \/ UploadEnds \/ ClientCancels
      BY <1>1 DEF Dispatches, AdmissionRefuses, UploadEnds, ClientCancels
<1>2. CASE Resends
      BY <1>2 DEF Resends
<1>3. CASE SocketAssigned \/ Connects
      BY <1>3 DEF SocketAssigned, Connects
<1>4. CASE ConnectFails \/ SocketFails \/ ResponseAborts \/ DeadlineFires
  <2>1. UNCHANGED <<attempt, connected, up, cont, reached, running, executed>>
        BY <1>4 DEF ConnectFails, SocketFails, ResponseAborts, DeadlineFires
  <2>2. CASE \E code : UpstreamError(code)
    <3>1. PICK code : UpstreamError(code)
          BY <2>2
    <3>2. certified' => certified \/ NeverConnected(code)
          BY <3>1, Zenon DEF UpstreamError
    <3>3. res' # "open" /\ sock' = "closed" /\ deadline' = "off"
          BY <3>1 DEF UpstreamError
    <3>4. NeverConnected(code) => attempt = 1 /\ up = "none" /\ ~connected
          BY Zenon DEF NeverConnected
    <3>5. NeverConnected(code) => ~reached
          BY <3>4
    <3>6. attempt # 0
          BY <1>4, <3>1 DEF ConnectFails, SocketFails, ResponseAborts, DeadlineFires
    <3>7. QED BY <2>1, <3>2, <3>3, <3>4, <3>5, <3>6
  <2>3. CASE UNCHANGED certified /\ res' = "destroyed" /\ sock' = "closed"
                  /\ sock = "open" /\ deadline' = "off"
        BY <2>1, <2>3
  <2>4. CASE UNCHANGED <<certified, res, sock>> /\ deadline = "armed"
        BY <2>1, <2>4
  <2>5. QED BY <1>4, <2>2, <2>3, <2>4 DEF ConnectFails, SocketFails, ResponseAborts, DeadlineFires
<1>5. CASE DestroyedCloses \/ BodyFlushed
      BY <1>5 DEF DestroyedCloses, BodyFlushed
<1>6. CASE WorkerReads \/ WorkerExecutes \/ ResponseStarts \/ BufferOverflows
      BY <1>6 DEF WorkerReads, WorkerExecutes, ResponseStarts, BufferOverflows, Rejections
<1>7. CASE ForwardEnds \/ BufferEnds
      BY <1>7 DEF ForwardEnds, BufferEnds, Released, SendBuffered, SendGuidance
<1>8. CASE CaptureContinues
      BY <1>8 DEF CaptureContinues, Repairs, SendBuffered, SendGuidance, Idle
<1>9. CASE NormalizeReturns
      BY <1>9 DEF NormalizeReturns, SendGuidance
<1>10. CASE UNCHANGED vars
      BY <1>10 DEF vars
<1>11. QED BY <1>1, <1>2, <1>3, <1>4, <1>5, <1>6, <1>7, <1>8, <1>9, <1>10 DEF Next

(* A failed upstream ends or breaks the client's answer and the exchange.  *)
LEMMA ErrorAnswers ==
    ASSUME AnswerBegun, NEW code, UpstreamError(code), UNCHANGED <<up, cancelled>>
    PROVE  SettledAnswered' /\ AnswerBegun'
BY DEF UpstreamError, SettledAnswered, AnswerBegun

(* finish is called only when the client's answer is ended or broken.      *)
LEMMA AnswerStep ==
    ASSUME IInv, [Next]_vars
    PROVE  SettledAnswered' /\ AnswerBegun'
<1> USE DEF IInv, TypeOK, FieldsOK, SettledAnswered, AnswerBegun, RejectedUnexecuted,
            Issue, Finish, Answer, clientVars, bodyVars, sockVars, workVars
<1>1. CASE Dispatches \/ AdmissionRefuses \/ UploadEnds
      BY <1>1 DEF Dispatches, AdmissionRefuses, UploadEnds, Undispatched
<1>2. CASE ClientCancels
      BY <1>2 DEF ClientCancels
<1>3. CASE Resends
      BY <1>3 DEF Resends
<1>4. CASE SocketAssigned \/ Connects \/ WorkerReads \/ WorkerExecutes \/ BodyFlushed
      BY <1>4 DEF SocketAssigned, Connects, WorkerReads, WorkerExecutes, BodyFlushed
<1>5. CASE ConnectFails \/ SocketFails \/ ResponseAborts \/ DeadlineFires
  <2>1. UNCHANGED <<up, cancelled>>
        BY <1>5 DEF ConnectFails, SocketFails, ResponseAborts, DeadlineFires
  <2>2. CASE \E code : UpstreamError(code)
        BY <2>1, <2>2, ErrorAnswers
  <2>3. CASE res' = "destroyed" /\ sock' = "closed"
        BY <2>1, <2>3
  <2>4. CASE UNCHANGED <<res, settled, sock>>
        BY <2>1, <2>4
  <2>5. QED BY <1>5, <2>2, <2>3, <2>4 DEF ConnectFails, SocketFails, ResponseAborts, DeadlineFires
<1>6. CASE DestroyedCloses
      BY <1>6 DEF DestroyedCloses
<1>7. CASE ResponseStarts \/ BufferOverflows
      BY <1>7 DEF ResponseStarts, BufferOverflows, Rejections
<1>8. CASE ForwardEnds \/ BufferEnds
      BY <1>8 DEF ForwardEnds, BufferEnds, Released, SendBuffered, SendGuidance
<1>9. CASE CaptureContinues
      BY <1>9 DEF CaptureContinues, Repairs, SendBuffered, SendGuidance, Idle
<1>10. CASE NormalizeReturns
      BY <1>10 DEF NormalizeReturns, SendGuidance
<1>11. CASE UNCHANGED vars
      BY <1>11 DEF vars
<1>12. QED BY <1>1, <1>2, <1>3, <1>4, <1>5, <1>6, <1>7, <1>8, <1>9, <1>10, <1>11 DEF Next

LEMMA InvariantStep == IInv /\ [Next]_vars => IInv'
<1> SUFFICES ASSUME IInv, [Next]_vars PROVE IInv'
    OBVIOUS
<1>1. TypeOK'
      BY FlagsStep, FieldsStep DEF IInv, TypeOK
<1>2. QED BY <1>1, UpstreamStep, AnswerStep DEF IInv

(* The inductive invariant holds in every reachable state.                 *)
THEOREM DispatchInvariant == Spec => []IInv
BY InvariantInit, InvariantStep, PTL DEF Spec

(* Types; in particular the gateway never makes a third attempt: one       *)
(* repair is all (issue is called with retry once).                        *)
THEOREM TypeCorrect == Spec => []TypeOK
<1>1. IInv => TypeOK
      BY DEF IInv
<1>2. QED BY <1>1, DispatchInvariant, PTL

(* A certificate is given (reject after a refused connection, or by the    *)
(* scheduler) only for a request no worker has seen.                       *)
THEOREM CertificateCorrect == Spec => []CertifiedNeverReached
<1>1. IInv => CertifiedNeverReached
      BY DEF IInv
<1>2. QED BY <1>1, DispatchInvariant, PTL

(* continuityFetch's retries and the gateway's repaired attempt together   *)
(* execute the client's request at most once.                              *)
THEOREM ExecutionCorrect == Spec => []ExecutedAtMostOnce
<1>1. IInv => ExecutedAtMostOnce
      BY DEF IInv, ExecutionCurrent, ExecutedAtMostOnce
<1>2. QED BY <1>1, DispatchInvariant, PTL

(* When finish gives the slot back, the client has a complete answer or a  *)
(* broken connection, whichever of error, abort, close, cancellation and   *)
(* deadline came first.                                                    *)
THEOREM AnswerCorrect == Spec => []SettledAnswered
<1>1. IInv => SettledAnswered
      BY DEF IInv
<1>2. QED BY <1>1, DispatchInvariant, PTL

(* An answer the worker began is ended only with the worker's own end.     *)
THEOREM WholeCorrect == Spec => EndedIsWhole
<1> DEFINE Whole == res = "headers" /\ res' = "ended" => up' = "ended"
<1>1. IInv /\ [Next]_vars => [Whole]_vars
  <2> SUFFICES ASSUME IInv, Next, res = "headers", res' = "ended" PROVE up' = "ended"
      OBVIOUS
  <2> USE DEF Answer, clientVars, bodyVars, sockVars, workVars
  <2>1. \A code : ~UpstreamError(code)
        BY DEF UpstreamError
  <2>2. ForwardEnds \/ BufferEnds \/ CaptureContinues \/ NormalizeReturns
        BY <2>1 DEF Next, Dispatches, AdmissionRefuses, UploadEnds, ClientCancels, Resends,
           SocketAssigned, Connects, ConnectFails, SocketFails, ResponseAborts,
           DestroyedCloses, DeadlineFires, BodyFlushed, WorkerReads, WorkerExecutes,
           ResponseStarts, BufferOverflows
  <2>3. CASE ForwardEnds \/ BufferEnds
        BY <2>3 DEF ForwardEnds, BufferEnds
  <2>4. CASE CaptureContinues \/ NormalizeReturns
    <3>1. up = "ended"
          BY <2>4 DEF CaptureContinues, NormalizeReturns, Idle, IInv, RejectedUnexecuted
    <3>2. UNCHANGED res \/ UNCHANGED up
          BY <2>4 DEF CaptureContinues, NormalizeReturns
    <3>3. QED BY <3>1, <3>2
  <2>5. QED BY <2>2, <2>3, <2>4
<1>2. QED BY <1>1, DispatchInvariant, PTL DEF Spec, EndedIsWhole
=============================================================================
