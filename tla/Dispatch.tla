------------------------------ MODULE Dispatch ------------------------------
(***************************************************************************)
(* One request between a patient client, the gateway and a worker:         *)
(* dispatch in ds4-gateway/gateway.mjs, with the answers it buffers to     *)
(* repair a rejected image request once (vision-protection.mjs), and the   *)
(* retry loop of continuity-client.mjs, which sends the request again when *)
(* a certificate says that no worker has seen it.                          *)
(*                                                                         *)
(* The sockets are Node's: an upstream request that fails reports 'error'  *)
(* and then 'close', a destroyed one as well, and one that is over reports *)
(* nothing more.  The worker and the network are the environment.          *)
(*                                                                         *)
(* Definitions marked "Mutant" are plausible bugs of the definition that   *)
(* follows them; PROJECT.json says which property catches which.           *)
(***************************************************************************)
EXTENDS Naturals

CONSTANT MaxTries   \* bound: how often the client sends the request

ASSUME TriesAssumption == MaxTries \in Nat \ {0}

VARIABLES
    tries,      \* how often the client has sent the request
    res,        \* the response to the client
    certified,  \* it carries the not_dispatched certificate
    upload,     \* the request body, as it arrives from the client
    captures,   \* captureLimit: the body is kept for a repair
    capture,    \* bodyReady: pending, the body or null
    cancelled, settled,
    deadline,   \* job.deadline
    attempt,    \* 0 before dispatch, 1 the original, 2 the repaired request
    sock,       \* job.upstream's socket
    fresh,      \* freshConnectingSocket
    connected,
    flushed,    \* the whole body was handed to the worker's socket
    up,         \* what is done with the worker's response; gotResponse once
                \* it is not "none"
    kind,       \* visionRejectionKind of a buffered response
    cont,       \* the await a buffered response is suspended in
    (* what the worker knows; the gateway cannot see it *)
    reached,    \* a byte of this attempt, or of the one before it, arrived
    running,    \* it has begun to execute this attempt
    executed    \* how often it has executed the client's request

clientVars == <<tries, certified>>
bodyVars == <<upload, captures>>
sockVars == <<attempt, fresh, connected>>
workVars == <<reached, running, executed>>
vars == <<clientVars, res, bodyVars, capture, cancelled, settled, deadline,
          sockVars, sock, flushed, up, kind, cont, workVars>>

Rejections == {"image_limit", "gif", "jpeg"}

FlagsOK ==
    /\ certified \in BOOLEAN /\ captures \in BOOLEAN
    /\ cancelled \in BOOLEAN /\ settled \in BOOLEAN
    /\ fresh \in BOOLEAN /\ connected \in BOOLEAN /\ flushed \in BOOLEAN
    /\ reached \in BOOLEAN /\ running \in BOOLEAN

FieldsOK ==
    /\ tries \in 1..MaxTries
    /\ res \in {"open", "headers", "ended", "destroyed"}
    /\ upload \in {"flowing", "ended", "aborted"}
    /\ capture \in {"pending", "body", "null"}
    /\ deadline \in {"off", "armed", "fired"}
    /\ attempt \in 0..2
    /\ sock \in {"none", "connecting", "open", "destroyed", "closed"}
    /\ up \in {"none", "forward", "buffer", "pass", "ended"}
    /\ kind \in Rejections \cup {"none", "other"}
    /\ cont \in {"none", "capture", "normalize"}
    /\ executed \in Nat

TypeOK == FlagsOK /\ FieldsOK

----------------------------------------------------------------------------
(* A continuation whose promise is resolved runs before any other event.   *)
Idle == ~(cont = "capture" /\ capture # "pending")

(* finish: it clears the deadline and resolves a pending capture.          *)
Finish ==
    /\ settled' = TRUE
    /\ deadline' = "off"
    /\ capture' = IF capture = "pending" THEN "null" ELSE capture

(* A whole answer of the gateway: res.writeHead and res.end.               *)
Answer == res' = IF res = "destroyed" THEN res ELSE "ended"

(* issue: the state of a new upstream request.                             *)
Issue(n) ==
    /\ attempt' = n
    /\ sock' = "none"
    /\ fresh' = FALSE /\ connected' = FALSE
    /\ flushed' = FALSE
    /\ up' = "none" /\ kind' = "none"
    /\ running' = FALSE

----------------------------------------------------------------------------
(* The client.                                                             *)

(* The request passes admission and the scheduler dispatches it.           *)
Dispatches ==
    /\ attempt = 0 /\ res = "open"
    /\ Issue(1)
    /\ deadline' = "armed"
    /\ UNCHANGED <<clientVars, res, bodyVars, capture, cancelled, settled,
                   cont, reached, executed>>

(* The scheduler refuses it: reject, with the certificate.                 *)
AdmissionRefuses ==
    /\ attempt = 0 /\ res = "open"
    /\ certified' = TRUE
    /\ res' = "ended"
    /\ settled' = TRUE
    /\ UNCHANGED <<tries, bodyVars, capture, cancelled, deadline, sockVars,
                   sock, flushed, up, kind, cont, workVars>>

(* bodyEnded: the upload is complete; the capture is null when there is no *)
(* limit or the body exceeded it.  A closed upstream stops the upload.     *)
UploadEnds ==
    /\ Idle /\ attempt > 0 /\ ~settled
    /\ upload = "flowing" /\ sock # "closed"
    /\ upload' = "ended"
    /\ capture' \in IF captures THEN {"body", "null"} ELSE {"null"}
    /\ UNCHANGED <<clientVars, res, captures, cancelled, settled, deadline,
                   sockVars, sock, flushed, up, kind, cont, workVars>>

(* Mutant: only job.upstream is destroyed.  Once it has a response, that   *)
(* does not reliably close its socket.                                     *)
ClientCancelsOutbound ==
    /\ Idle /\ ~settled /\ ~cancelled
    /\ cancelled' = TRUE
    /\ res' = "destroyed"
    /\ upload' = IF upload = "flowing" THEN "aborted" ELSE upload
    /\ capture' = IF upload = "flowing" /\ capture = "pending" THEN "null" ELSE capture
    /\ settled' = (attempt = 0)
    /\ sock' = IF attempt = 0 \/ sock = "closed" \/ up # "none" THEN sock ELSE "destroyed"
    /\ UNCHANGED <<clientVars, captures, deadline, sockVars, flushed,
                   up, kind, cont, workVars>>

(* cancel and bodyAborted: the client's connection closed before the       *)
(* answer was finished.  A request not yet dispatched is over; otherwise   *)
(* both halves of the upstream are destroyed.                              *)
ClientCancels ==
    /\ Idle /\ ~settled /\ ~cancelled
    /\ cancelled' = TRUE
    /\ res' = "destroyed"
    /\ upload' = IF upload = "flowing" THEN "aborted" ELSE upload
    /\ capture' = IF upload = "flowing" /\ capture = "pending" THEN "null" ELSE capture
    /\ settled' = (attempt = 0)
    /\ sock' = IF attempt = 0 \/ sock = "closed" THEN sock ELSE "destroyed"
    /\ UNCHANGED <<clientVars, captures, deadline, sockVars, flushed,
                   up, kind, cont, workVars>>

(* Mutant: any answer without a result is taken for a certificate.         *)
ResendsUncertified ==
    /\ res = "ended" /\ up = "none" /\ tries < MaxTries
    /\ tries' = tries + 1
    /\ res' = "open" /\ certified' = FALSE
    /\ upload' = "flowing" /\ capture' = "pending"
    /\ settled' = FALSE
    /\ Issue(0)
    /\ cont' = "none" /\ reached' = FALSE
    /\ UNCHANGED <<captures, cancelled, deadline, executed>>

(* continuityFetch: the exact certificate, and nothing else, makes the     *)
(* client send the same request again.                                     *)
Resends ==
    /\ certified /\ res = "ended" /\ tries < MaxTries
    /\ tries' = tries + 1
    /\ res' = "open" /\ certified' = FALSE
    /\ upload' = "flowing" /\ capture' = "pending"
    /\ settled' = FALSE
    /\ Issue(0)
    /\ cont' = "none" /\ reached' = FALSE
    /\ UNCHANGED <<captures, cancelled, deadline, executed>>

----------------------------------------------------------------------------
(* The upstream connection.                                                *)

(* 'socket': a pooled connection, or a new one that is connecting.         *)
SocketAssigned ==
    /\ Idle /\ attempt > 0 /\ sock = "none"
    /\ \/ sock' = "open" /\ connected' = TRUE /\ UNCHANGED fresh
       \/ sock' = "connecting" /\ fresh' = TRUE /\ UNCHANGED connected
    /\ UNCHANGED <<clientVars, res, bodyVars, capture, cancelled, settled,
                   deadline, attempt, flushed, up, kind, cont, workVars>>

(* 'connect'                                                               *)
Connects ==
    /\ Idle /\ sock = "connecting"
    /\ sock' = "open" /\ connected' = TRUE
    /\ UNCHANGED <<clientVars, res, bodyVars, capture, cancelled, settled,
                   deadline, attempt, fresh, flushed, up, kind, cont, workVars>>

(* Mutant: the connection of a repaired request is taken as evidence too.  *)
NeverConnectedEver(code) ==
    /\ ~settled /\ ~cancelled /\ res = "open"
    /\ up = "none" /\ fresh /\ ~connected /\ code = "ECONNREFUSED"

(* Only the original request on a new socket that never connected proves   *)
(* that no worker has it.                                                  *)
NeverConnected(code) ==
    /\ ~settled /\ ~cancelled /\ res = "open"
    /\ attempt = 1
    /\ up = "none" /\ fresh /\ ~connected /\ code = "ECONNREFUSED"

(* Mutant: an answer already begun is left as it is.                       *)
UpstreamErrorLeaving(code) ==
    /\ certified' = (certified \/ NeverConnected(code))
    /\ IF res = "open" THEN res' = "ended" ELSE UNCHANGED res
    /\ Finish
    /\ sock' = "closed"

(* upstream.on('error'): the certificate, a 502, or the end of an answer   *)
(* already begun.                                                          *)
UpstreamError(code) ==
    /\ certified' = (certified \/ NeverConnected(code))
    /\ res' = IF res = "open" THEN "ended" ELSE "destroyed"
    /\ Finish
    /\ sock' = "closed"

(* The connection is refused, or not made within connect_timeout_ms.       *)
ConnectFails ==
    /\ Idle /\ sock = "connecting"
    /\ \E code \in {"ECONNREFUSED", "CONNECT_TIMEOUT"} : UpstreamError(code)
    /\ UNCHANGED <<tries, bodyVars, cancelled, sockVars, flushed, up, kind,
                   cont, workVars>>

(* The connection is lost before the response, or while the upload goes on *)
(* after an early one.                                                     *)
SocketFails ==
    /\ Idle /\ sock = "open"
    /\ up = "none" \/ (up = "ended" /\ ~flushed)
    /\ UpstreamError("ECONNRESET")
    /\ UNCHANGED <<tries, bodyVars, cancelled, sockVars, flushed, up, kind,
                   cont, workVars>>

(* Mutant: a broken stream is closed like a complete one.                  *)
ResponseAbortsEnding ==
    /\ Idle /\ sock = "open" /\ up \in {"forward", "buffer", "pass"}
    /\ res' = "ended"
    /\ Finish
    /\ sock' = "closed"
    /\ UNCHANGED <<clientVars, bodyVars, cancelled, sockVars, flushed, up, kind,
                   cont, workVars>>

(* It is lost within the response: up reports 'aborted' or 'error', unless *)
(* the upstream request reports its own error first.                       *)
ResponseAborts ==
    /\ Idle /\ sock = "open" /\ up \in {"forward", "buffer", "pass"}
    /\ \/ UpstreamError("ECONNRESET")
       \/ /\ res' = "destroyed"
          /\ Finish
          /\ sock' = "closed"
          /\ UNCHANGED certified
    /\ UNCHANGED <<tries, bodyVars, cancelled, sockVars, flushed, up, kind,
                   cont, workVars>>

(* A destroyed upstream reports its end: 'error' or 'aborted', and 'close'. *)
DestroyedCloses ==
    /\ Idle /\ sock = "destroyed"
    /\ Finish
    /\ sock' = "closed"
    /\ UNCHANGED <<clientVars, res, bodyVars, cancelled, sockVars, flushed, up,
                   kind, cont, workVars>>

(* job.deadline destroys the current upstream; one that is over ignores it. *)
DeadlineFires ==
    /\ Idle /\ deadline = "armed"
    /\ \/ /\ sock \in {"none", "connecting", "open"}
          /\ UpstreamError("REQUEST_DEADLINE")
       \/ /\ sock \in {"destroyed", "closed"}
          /\ deadline' = "fired"
          /\ UNCHANGED <<certified, res, settled, capture, sock>>
    /\ UNCHANGED <<tries, bodyVars, cancelled, sockVars, flushed, up, kind,
                   cont, workVars>>

(* The body, the client's or the repaired one, is completely sent.  If the *)
(* response was there already the socket is free now.                      *)
BodyFlushed ==
    /\ Idle /\ sock = "open" /\ ~flushed
    /\ upload = "ended" \/ attempt = 2
    /\ flushed' = TRUE
    /\ sock' = IF up = "ended" THEN "closed" ELSE sock
    /\ UNCHANGED <<clientVars, res, bodyVars, capture, cancelled, settled,
                   deadline, sockVars, up, kind, cont, workVars>>

----------------------------------------------------------------------------
(* The worker.                                                             *)

(* Some of the request arrives, perhaps after the connection is gone.      *)
WorkerReads ==
    /\ connected /\ ~reached
    /\ reached' = TRUE
    /\ UNCHANGED <<clientVars, res, bodyVars, capture, cancelled, settled,
                   deadline, sockVars, sock, flushed, up, kind, cont, running,
                   executed>>

(* It executes a complete request, whatever became of the connection.      *)
WorkerExecutes ==
    /\ reached /\ flushed /\ ~running /\ up = "none"
    /\ running' = TRUE
    /\ executed' = executed + 1
    /\ UNCHANGED <<clientVars, res, bodyVars, capture, cancelled, settled,
                   deadline, sockVars, sock, flushed, up, kind, cont, reached>>

(* Its response begins, perhaps before it has the whole body.  A 400       *)
(* rejects the request before execution; it is buffered if the request     *)
(* could be repaired or already was, and any other response is forwarded.  *)
ResponseStarts ==
    /\ Idle /\ sock = "open" /\ up = "none"
    /\ reached
    /\ \/ /\ up' = "forward"
          /\ res' = IF res = "open" THEN "headers" ELSE res
          /\ UNCHANGED kind
       \/ /\ ~running /\ (captures \/ attempt = 2)
          /\ up' = "buffer"
          /\ kind' \in Rejections \cup {"other"}
          /\ UNCHANGED res
    /\ UNCHANGED <<clientVars, bodyVars, capture, cancelled, settled, deadline,
                   sockVars, sock, flushed, cont, workVars>>

----------------------------------------------------------------------------
(* The worker's response.                                                  *)

(* beginPassthrough: the 400 is too long to be inspected.                  *)
BufferOverflows ==
    /\ Idle /\ sock = "open" /\ up = "buffer"
    /\ up' = "pass"
    /\ res' = IF res = "open" THEN "headers" ELSE res
    /\ UNCHANGED <<clientVars, bodyVars, capture, cancelled, settled, deadline,
                   sockVars, sock, flushed, kind, cont, workVars>>

(* The socket of a response that is complete: free, unless the upload goes *)
(* on.                                                                     *)
Released == IF flushed THEN "closed" ELSE sock

(* A forwarded response is complete.                                       *)
ForwardEnds ==
    /\ Idle /\ sock = "open" /\ up \in {"forward", "pass"}
    /\ up' = "ended"
    /\ res' = IF res = "headers" THEN "ended" ELSE res
    /\ Finish
    /\ sock' = Released
    /\ UNCHANGED <<clientVars, bodyVars, cancelled, sockVars, flushed, kind,
                   cont, workVars>>

(* sendBuffered: the 400 is passed on as it came.                          *)
SendBuffered == Answer /\ Finish

(* sendGuidance                                                            *)
SendGuidance ==
    \/ settled /\ UNCHANGED <<res, settled, deadline, capture>>
    \/ ~settled /\ Finish /\ (IF cancelled THEN UNCHANGED res ELSE Answer)

(* A buffered response is complete.  An image rejection of the original    *)
(* request, and every GIF rejection, first waits for the captured body.    *)
BufferEnds ==
    /\ Idle /\ sock = "open" /\ up = "buffer"
    /\ up' = "ended"
    /\ sock' = Released
    /\ \/ /\ kind = "other"
          /\ SendBuffered
          /\ UNCHANGED cont
       \/ /\ attempt = 2 /\ kind \in {"image_limit", "jpeg"}
          /\ SendGuidance \/ (kind = "image_limit" /\ SendBuffered)
          /\ UNCHANGED cont
       \/ /\ kind = "gif" \/ (attempt = 1 /\ kind \in {"image_limit", "jpeg"})
          /\ cont' = "capture"
          /\ UNCHANGED <<res, settled, deadline, capture>>
    /\ UNCHANGED <<clientVars, bodyVars, cancelled, sockVars, flushed, kind,
                   workVars>>

(* Mutant: a repaired request that is rejected is repaired again.          *)
RepairsAgain ==
    /\ kind \in {"image_limit", "gif"} /\ capture = "body"
    /\ Issue(attempt + 1)

(* recoverImageLimit, recoverGif: the original request is sent once more   *)
(* without the images the worker rejected.                                 *)
Repairs ==
    /\ kind \in {"image_limit", "gif"} /\ capture = "body"
    /\ attempt = 1
    /\ Issue(2)

(* The continuation of await bodyReady.                                    *)
CaptureContinues ==
    /\ ~Idle
    /\ \/ /\ cancelled
          /\ Finish
          /\ cont' = "none"
          /\ UNCHANGED <<res, sockVars, sock, flushed, up, kind, running>>
       \/ /\ ~cancelled
          /\ Repairs
          /\ cont' = "none"
          /\ UNCHANGED <<res, settled, deadline, capture>>
       \/ /\ ~cancelled /\ kind = "gif" /\ attempt = 2 /\ capture = "body"
          /\ SendGuidance
          /\ cont' = "none"
          /\ UNCHANGED <<sockVars, sock, flushed, up, kind, running>>
       \/ /\ ~cancelled /\ kind \in {"image_limit", "gif"}
          /\ SendBuffered
          /\ cont' = "none"
          /\ UNCHANGED <<sockVars, sock, flushed, up, kind, running>>
       \/ /\ ~cancelled /\ kind = "jpeg"
          /\ \/ SendGuidance /\ cont' = "none"
             \/ /\ capture = "body"
                /\ cont' = "normalize"
                /\ UNCHANGED <<res, settled, deadline, capture>>
          /\ UNCHANGED <<sockVars, sock, flushed, up, kind, running>>
    /\ UNCHANGED <<clientVars, bodyVars, cancelled, reached, executed>>

(* The image helper returned or failed.                                    *)
NormalizeReturns ==
    /\ Idle /\ cont = "normalize"
    /\ cont' = "none"
    /\ \/ /\ cancelled
          /\ Finish
          /\ UNCHANGED <<res, sockVars, sock, flushed, up, kind, running>>
       \/ /\ ~cancelled
          /\ Issue(2)
          /\ UNCHANGED <<res, settled, deadline, capture>>
       \/ /\ SendGuidance
          /\ UNCHANGED <<sockVars, sock, flushed, up, kind, running>>
    /\ UNCHANGED <<clientVars, bodyVars, cancelled, reached, executed>>

----------------------------------------------------------------------------
Init ==
    /\ tries = 1
    /\ res = "open" /\ certified = FALSE
    /\ upload = "flowing" /\ captures \in BOOLEAN /\ capture = "pending"
    /\ cancelled = FALSE /\ settled = FALSE /\ deadline = "off"
    /\ attempt = 0 /\ sock = "none"
    /\ fresh = FALSE /\ connected = FALSE /\ flushed = FALSE
    /\ up = "none" /\ kind = "none" /\ cont = "none"
    /\ reached = FALSE /\ running = FALSE /\ executed = 0

Next == \/ Dispatches \/ AdmissionRefuses \/ UploadEnds \/ ClientCancels \/ Resends
        \/ SocketAssigned \/ Connects \/ ConnectFails \/ SocketFails
        \/ ResponseAborts \/ DestroyedCloses \/ DeadlineFires \/ BodyFlushed
        \/ WorkerReads \/ WorkerExecutes \/ ResponseStarts
        \/ BufferOverflows \/ ForwardEnds \/ BufferEnds
        \/ CaptureContinues \/ NormalizeReturns

Spec == Init /\ [][Next]_vars

(* A request gets a socket, which connects or not within its timeout, a    *)
(* destroyed socket closes, promises that are resolved continue, and the   *)
(* image helper returns: its own timeout ends it.  Nothing is assumed of   *)
(* clients and workers.                                                    *)
Fairness ==
    /\ WF_vars(SocketAssigned)
    /\ WF_vars(Connects \/ ConnectFails)
    /\ WF_vars(DestroyedCloses)
    /\ WF_vars(CaptureContinues)
    /\ WF_vars(NormalizeReturns)

FairSpec == Spec /\ Fairness

----------------------------------------------------------------------------
(* Properties.                                                             *)

(* The certificate is never wrong: when the client is told that it may     *)
(* send the request again, no worker has seen a byte of it.                *)
CertifiedNeverReached == certified => ~reached

(* A client's request is executed at most once, through its own retries    *)
(* and the gateway's repair of it.                                         *)
ExecutedAtMostOnce == executed <= 1

(* The inductive invariant behind these and the next.                      *)

(* Nothing has happened upstream before dispatch.                          *)
Undispatched ==
    attempt = 0 => /\ ~connected /\ ~reached /\ ~running
                   /\ sock = "none" /\ up = "none" /\ deadline = "off"

(* Bytes travel over connections only: the current one, or the one of the  *)
(* attempt that was repaired.                                              *)
ReachedConnected == reached => connected \/ attempt = 2

(* A certified exchange is over: no event of it can still reach a worker.  *)
CertifiedOver ==
    certified => /\ ~connected /\ res # "open" /\ up = "none" /\ deadline = "off"
                 /\ attempt = 0 \/ (attempt = 1 /\ sock = "closed")

(* What the worker executes it does not reject, and what is suspended to   *)
(* be repaired it has rejected.                                            *)
RejectedUnexecuted ==
    /\ up \in {"buffer", "pass"} => ~running
    /\ cont # "none" => up = "ended" /\ ~running

(* An execution belongs to the current attempt.                            *)
ExecutionCurrent == /\ running => reached
                    /\ executed = 0 \/ (executed = 1 /\ running)

(* When the exchange is over and its slot is given to another request, the *)
(* client has a complete answer or a broken connection: it never waits on  *)
(* a response that nobody will finish.                                     *)
SettledAnswered == settled => res \in {"ended", "destroyed"}

(* Why: a forwarded response has begun the answer, and only a client that  *)
(* has gone, and whose answer is broken, has its upstream destroyed.       *)
AnswerBegun ==
    /\ up \in {"forward", "pass"} => res # "open"
    /\ sock = "destroyed" => cancelled
    /\ cancelled => res = "destroyed"

IInv == /\ TypeOK /\ Undispatched /\ ReachedConnected /\ CertifiedOver
        /\ CertifiedNeverReached /\ RejectedUnexecuted /\ ExecutionCurrent
        /\ SettledAnswered /\ AnswerBegun

(* An answer the worker began is ended only when the worker's is complete: *)
(* one that breaks off is not passed off as whole.                         *)
EndedIsWhole == [][res = "headers" /\ res' = "ended" => up' = "ended"]_vars

(* A request whose client has gone gives its slot back.                    *)
CancelledSettles == cancelled ~> settled
=============================================================================
