------------------------------- MODULE Images --------------------------------
(***************************************************************************)
(* The repairs of ds4-gateway/vision-protection.mjs: what is sent to the   *)
(* engine when it refused the images of a request.  A request is a list of *)
(* messages, a message a list of blocks; the engine, external, refuses too *)
(* many images, any GIF, and JPEGs it cannot read, and says one of these.  *)
(***************************************************************************)
EXTENDS Naturals, Sequences
LOCAL INSTANCE FiniteSetsExt
LOCAL INSTANCE SequencesExt
LOCAL INSTANCE Functions

CONSTANTS MaxMessages, MaxBlocks,     \* bounds: messages, blocks of one
          ImageLimit                  \* 16 images of one submitted conversation

Gifs == {"gif", "badgif"}                       \* a bad one is not a GIF inside
Jpegs == {"jpeg", "badjpeg", "wide"}            \* "wide": its PNG is over the bounds
Pictures == Gifs \cup Jpegs \cup {"png"}        \* typed image blocks
ImageBlock == Pictures \cup {"text"}

VARIABLES original,   \* the captured body of the request
          passedOn,       \* the body the engine was last given, <<>> before
          repair,     \* visionNormalized.kind, "none" for the first attempt
          verdict,    \* what the engine said of it, or the end of the request
          reason,     \* the reason the gateway's own message gives
          unread, converter
imageVars == <<original, passedOn, repair, verdict, reason, unread, converter>>

ImagesInit ==
    /\ original \in BoundedSeq(BoundedSeq(ImageBlock, MaxBlocks), MaxMessages) \ {<<>>}
    /\ passedOn = original /\ repair = "none" /\ verdict = "none" /\ reason = "none"
    /\ unread \in BOOLEAN          \* external: whether the engine reads JPEGs
    /\ converter \in BOOLEAN       \* commandFor: an image converter is installed

Flat(p) == FlattenSeq(p)
Count(p, kinds) == Len(SelectSeq(Flat(p), LAMBDA b : b \in kinds))
HasAny(p, kinds) == Range(Flat(p)) \cap kinds # {}

(* The engine's answer, and visionRejectionKind of it.                     *)
EngineReasons(p) ==
    {k \in {"image_limit", "gif", "jpeg"} :
        CASE k = "image_limit" -> Count(p, Pictures) > ImageLimit
          [] k = "gif" -> HasAny(p, Gifs)
          [] k = "jpeg" -> unread /\ HasAny(p, Jpegs)}
Answered ==
    /\ verdict = "none"
    /\ verdict' \in IF EngineReasons(passedOn) = {} THEN {"accepted"} ELSE EngineReasons(passedOn)
    /\ UNCHANGED <<original, passedOn, repair, reason, unread, converter>>

----------------------------------------------------------------------------
(* A message that loses all of its blocks keeps a placeholder, and the     *)
(* agent is told in a message of its own.                                  *)
WithheldEmptied(m, kinds) == SelectSeq(m, LAMBDA b : b \notin kinds)             \* mutant
Withheld(m, kinds) ==
    LET left == SelectSeq(m, LAMBDA b : b \notin kinds) IN
    IF left = <<>> /\ m # <<>> THEN <<"placeholder">> ELSE left
Without(p, kinds) == Append([i \in 1..Len(p) |-> Withheld(p[i], kinds)], <<"notice">>)

(* recoverImageLimit and recoverGif work on the original, and refuse when  *)
(* it does not prove the engine's reason.                                  *)
RecoverImageLimit(p) == IF Count(p, Pictures) <= ImageLimit THEN <<>> ELSE Without(p, Pictures)
RecoverGif(p) == IF ~HasAny(p, {"gif"}) \/ HasAny(p, {"badgif"}) THEN <<>> ELSE Without(p, {"gif"})

(* normalize: every JPEG becomes a PNG where it stands, or nothing does.   *)
(* A request with a GIF, or a JPEG that is not one, is left alone.         *)
Normalize(p) ==
    IF ~HasAny(p, Jpegs) \/ HasAny(p, Gifs \cup {"badjpeg", "wide"}) \/ ~converter THEN <<>>
    ELSE [i \in 1..Len(p) |-> [j \in 1..Len(p[i]) |-> IF p[i][j] = "jpeg" THEN "png" ELSE p[i][j]]]

Repaired == CASE verdict = "image_limit" -> RecoverImageLimit(original)
              [] verdict = "gif" -> RecoverGif(original)
              [] verdict = "jpeg" -> Normalize(original)

(* bufferCandidate: one repair.  A refused repair, and a JPEG that cannot  *)
(* be repaired, end in a message of the gateway's own that names a reason; *)
(* a reason the request does not prove leaves the engine's answer as it is.*)
Refused == verdict \in {"image_limit", "gif", "jpeg"}
ImageRepair ==
    /\ Refused /\ repair = "none" /\ Repaired # <<>>
    /\ passedOn' = Repaired /\ repair' = verdict /\ verdict' = "none"
    /\ UNCHANGED <<original, reason, unread, converter>>
Guidance ==
    CASE verdict = "image_limit" /\ repair = "none" -> "none"
      [] verdict = "image_limit" /\ repair # "none" ->
            IF repair = "image_limit" \/ Count(passedOn, Pictures) > ImageLimit
            THEN "image_limit" ELSE "none"
      [] verdict = "gif" -> IF repair # "none" /\ RecoverGif(original) # <<>> THEN "gif" ELSE "none"
      [] verdict = "jpeg" /\ repair # "none" -> repair
      [] verdict = "jpeg" /\ repair = "none" ->
            IF HasAny(original, Gifs) THEN "gif" ELSE "jpeg"
ImageGuidance ==
    /\ Refused /\ (repair # "none" \/ Repaired = <<>>)
    /\ reason' = Guidance /\ verdict' = IF Guidance = "none" THEN "passed on" ELSE "guided"
    /\ UNCHANGED <<original, passedOn, repair, unread, converter>>

ImagesNext == Answered \/ ImageRepair \/ ImageGuidance

----------------------------------------------------------------------------
(* A repaired request says everything the client wrote in its order, drops *)
(* no message, leaves none without content, and announces exactly the      *)
(* repairs that withheld images; the engine cannot refuse it for what was  *)
(* repaired.  A message of the gateway's own gives a reason that is true of*)
(* the request.                                                            *)
KeepsText(p, q) == SelectSeq(Flat(p), LAMBDA b : b = "text") = SelectSeq(Flat(q), LAMBDA b : b = "text")
ImagesSound ==
    /\ repair # "none" =>
        /\ KeepsText(original, passedOn)
        /\ \A i \in 1..Len(original) : (passedOn[i] = <<>>) = (original[i] = <<>>)
        /\ IF Len(passedOn) > Len(original) THEN Count(passedOn, Pictures) < Count(original, Pictures)
           ELSE Count(passedOn, Pictures) = Count(original, Pictures)
        /\ repair \notin EngineReasons(passedOn)
    /\ reason = "image_limit" => Count(original, Pictures) > ImageLimit
    /\ reason = "gif" => HasAny(original, Gifs)
    /\ reason = "jpeg" => HasAny(original, Jpegs)
=============================================================================
