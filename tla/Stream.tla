------------------------------- MODULE Stream -------------------------------
(***************************************************************************)
(* UsageObserver (gateway.mjs): what the gateway learns from the bytes of  *)
(* a streamed answer while it forwards them.  The answer arrives in chunks *)
(* cut anywhere, inside a line, between CR and LF, inside a character.     *)
(* Letters stand for texts: F, C and U are data lines with a finish        *)
(* reason, with content and with usage only, E an error, D the [DONE]      *)
(* marker, S the closing event of the other routes, "sp" a blank, and m1,  *)
(* m2 the two bytes of a character m that starts no data line.             *)
(***************************************************************************)
EXTENDS Integers, Sequences, SequencesExt

CONSTANTS Letter,     \* what a stream is made of, m1 and m2 aside
          MaxStream,  \* bound: letters of a stream
          MaxLine     \* characters of a line that are buffered (1048576 in the code)

VARIABLES route,  \* the chat and completion routes, or another one
          bytes,  \* history: the stream so far
          seen    \* the observer

streamVars == <<route, bytes, seen>>

Fresh == [pending |-> <<>>, partial |-> <<>>, afterCR |-> FALSE, skipping |-> FALSE,
          eventBoundary |-> TRUE, limited |-> FALSE, failed |-> FALSE, done |-> FALSE,
          finish_reason |-> FALSE, singleChoiceFinish |-> FALSE,
          reasonEofAmbiguous |-> FALSE, reasonEventDataLines |-> 0,
          usage |-> FALSE, semanticCharacters |-> 0]

\* The decoder holds back an incomplete character.
HeldBack(bs) == IF bs # <<>> /\ Last(bs) = "m1" THEN <<"m1">> ELSE <<>>
Decoded(bs) == LET whole == SelectSeq(bs, LAMBDA b : b # "m1")
               IN [i \in DOMAIN whole |-> IF whole[i] = "m2" THEN "m" ELSE whole[i]]

\* text.split: CR, LF and CRLF end a line.
LineEnds(t) == {i \in DOMAIN t : t[i] = "CR" \/ (t[i] = "LF" /\ (i = 1 \/ t[i - 1] # "CR"))}
Split(t) == LET ends == SetToSortSeq(LineEnds(t), <)
                from(k) == IF k = 1 THEN 1 ELSE ends[k - 1] + 1
                upto(k) == IF k > Len(ends) THEN Len(t) ELSE ends[k]
            IN [k \in 1..(Len(ends) + 1) |->
                  SelectSeq(SubSeq(t, from(k), upto(k)), LAMBDA c : c \notin {"CR", "LF"})]

Trimmed(p) == LET solid == {i \in DOMAIN p : p[i] # "sp"}
              IN IF solid = {} THEN <<>>
                 ELSE SubSeq(p, CHOOSE i \in solid : \A j \in solid : i <= j,
                                CHOOSE i \in solid : \A j \in solid : i >= j)
Blank(p) == Trimmed(p) = <<>>

\* A data line's payload, parsed: one letter, or text that is no JSON.
Payload(o, letter) ==
  CASE letter = "D" -> [o EXCEPT !.done = @ \/ route = "chat"]
    [] letter = "F" /\ route = "chat" ->
         [o EXCEPT !.reasonEofAmbiguous = @ \/ o.singleChoiceFinish,
                   !.singleChoiceFinish = TRUE, !.finish_reason = TRUE]
    [] letter = "C" ->
         [o EXCEPT !.reasonEofAmbiguous = @ \/ (route = "chat" /\ o.singleChoiceFinish),
                   !.semanticCharacters = @ + 1]
    [] letter = "U" -> [o EXCEPT !.usage = @ \/ route = "chat"]
    [] letter = "E" -> [o EXCEPT !.failed = TRUE, !.reasonEofAmbiguous = @ \/ route = "chat"]
    [] letter = "S" ->
         IF route = "chat" THEN [o EXCEPT !.reasonEofAmbiguous = TRUE]
         ELSE [o EXCEPT !.done = TRUE, !.finish_reason = TRUE]
    [] OTHER -> o

\* line(): p is the completed line.
Line(o, p) ==
  LET line == Trimmed(p)
      counted == [o EXCEPT !.reasonEventDataLines = @ + 1,
                           !.reasonEofAmbiguous = @ \/ p[1] = "sp" \/ o.reasonEventDataLines > 0]
  IN CASE line = <<>> -> [o EXCEPT !.reasonEventDataLines = 0,
                                   !.reasonEofAmbiguous = @ \/ p # <<>>]
       [] line # <<>> /\ line[1] = "m" -> o
       [] Len(line) = 1 /\ line[1] # "m" -> Payload(counted, line[1])
       [] OTHER -> [counted EXCEPT !.reasonEofAmbiguous = TRUE]

\* The end of a line.
EndLine(o) ==
  LET over == IF o.skipping THEN [o EXCEPT !.eventBoundary = FALSE]
              ELSE [Line(o, o.pending) EXCEPT !.eventBoundary = Blank(o.pending)]
  IN [over EXCEPT !.pending = <<>>, !.skipping = FALSE]

\* A part of a line: buffered, or the rest of the line is skipped.
Buffer(o, part) ==
  IF o.skipping THEN o
  ELSE IF Len(o.pending) + Len(part) > MaxLine
       THEN [o EXCEPT !.pending = <<>>, !.skipping = TRUE, !.limited = TRUE]
       ELSE [o EXCEPT !.pending = @ \o part]

\* Mutation: the LF of a CRLF that is cut in two ends a line of its own.
AcceptCutting(o, chunk) ==
  LET all == o.partial \o chunk
      text == Decoded(all)
      parts == Split(text)
      ended == FoldLeft(LAMBDA a, part : Buffer(EndLine(a), part), Buffer(o, parts[1]), Tail(parts))
  IN IF text = <<>> THEN [o EXCEPT !.partial = HeldBack(all)]
     ELSE [ended EXCEPT !.partial = HeldBack(all), !.afterCR = Last(text) = "CR"]

\* accept(): the LF of a CRLF cut in two is swallowed.
Accept(o, chunk) ==
  LET all == o.partial \o chunk
      raw == Decoded(all)
      text == IF o.afterCR /\ raw # <<>> /\ raw[1] = "LF" THEN Tail(raw) ELSE raw
      parts == Split(text)
      ended == FoldLeft(LAMBDA a, part : Buffer(EndLine(a), part), Buffer(o, parts[1]), Tail(parts))
  IN IF raw = <<>> THEN [o EXCEPT !.partial = HeldBack(all)]
     ELSE [ended EXCEPT !.partial = HeldBack(all),
                        !.afterCR = text # <<>> /\ Last(text) = "CR"]

\* Mutation: the last event need not be complete.
FinishStateAnywhere(o, cleanEOF) ==
  CASE o.failed -> "engine_error"
    [] ~o.failed /\ o.done -> "terminal"
    [] OTHER -> IF cleanEOF /\ o.singleChoiceFinish /\ ~o.reasonEofAmbiguous
                THEN "terminal_without_done" ELSE "clean_eof_no_terminal"

\* finishState(): what the stream's end means.
FinishState(o, cleanEOF) ==
  LET closed == Buffer(o, o.partial)
  IN CASE o.failed -> "engine_error"
       [] ~o.failed /\ o.done ->
            IF route # "chat" \/ o.finish_reason THEN "terminal"
            ELSE IF closed.limited THEN "terminal_reason_unobserved"
            ELSE "terminal_without_finish_reason"
       [] OTHER ->
            IF closed.limited THEN "observation_limited"
            ELSE IF closed.pending # <<>> \/ ~o.eventBoundary THEN "partial_sse_event"
            ELSE IF cleanEOF /\ o.singleChoiceFinish /\ ~o.reasonEofAmbiguous
                 THEN "terminal_without_done" ELSE "clean_eof_no_terminal"

StreamInit ==
  /\ route \in {"chat", "other"}
  /\ bytes = <<>>
  /\ seen = Fresh

Chunk == UNION {[1..n -> Letter \cup {"m1", "m2"}] : n \in 1..3}
WellFormed(bs) == \A i \in DOMAIN bs : (bs[i] = "m2") = (i > 1 /\ bs[i - 1] = "m1")

\* The worker's next chunk.
ChunkArrives ==
  /\ Len(bytes) < MaxStream
  /\ \E chunk \in Chunk :
       /\ Len(bytes) + Len(chunk) <= MaxStream
       /\ WellFormed(bytes \o chunk)
       /\ bytes' = bytes \o chunk
       /\ seen' = Accept(seen, chunk)
  /\ UNCHANGED route

StreamNext == ChunkArrives

------------------------------------------------------------------------------
Text == Decoded(bytes)
Lines == Front(Split(Text))

\* The observer's definition over the whole stream at once: its lines, one after the
\* other, those too long left out.
Whole ==
  LET lines == Lines
      rest == Last(Split(Text))
      read(o, p) == IF Len(p) > MaxLine THEN [o EXCEPT !.limited = TRUE, !.eventBoundary = FALSE]
                    ELSE [Line(o, p) EXCEPT !.eventBoundary = Blank(p)]
      o == FoldLeft(read, Fresh, lines)
  IN [o EXCEPT !.partial = HeldBack(bytes),
               !.afterCR = Text # <<>> /\ Last(Text) = "CR",
               !.pending = IF Len(rest) > MaxLine THEN <<>> ELSE rest,
               !.skipping = Len(rest) > MaxLine,
               !.limited = @ \/ Len(rest) > MaxLine]

\* What the gateway records of a stream does not depend on how the network cut it:
\* neither a split CRLF, nor a split character, nor a line that overflows the buffer
\* across chunks changes the lines that are seen (gateway.mjs, the comments of accept).
ChunkIndependent == seen = Whole

\* "Never infer completion from partial events, multiple choices, malformed data, or
\* more output after the finish": an end without [DONE] counts as complete only when
\* the stream ends in a blank line and holds one finish that no other choice follows,
\* and every data line is whole; a marker counts only as a complete line.
CompletionEarned ==
  /\ FinishState(seen, TRUE) = "terminal_without_done" =>
       /\ HeldBack(bytes) = <<>> /\ Last(Split(Text)) = <<>> /\ Last(Lines) = <<>>
       /\ \E i \in DOMAIN Lines :
            /\ Trimmed(Lines[i]) = <<"F">>
            /\ \A j \in DOMAIN Lines :
                 /\ Blank(Lines[j]) \/ Trimmed(Lines[j])[1] = "m" \/ Len(Trimmed(Lines[j])) = 1
                 /\ j # i => Trimmed(Lines[j]) # <<"F">>
                 /\ j > i => Trimmed(Lines[j]) # <<"C">>
  /\ FinishState(seen, FALSE) = "terminal" =>
       \E i \in DOMAIN Lines : Trimmed(Lines[i]) \in {<<"D">>, <<"S">>}

\* What the gateway records of an answer is what the whole answer says, however it was
\* cut, and says "complete" only of a complete one.
StreamUnderstood == ChunkIndependent /\ CompletionEarned
=============================================================================
