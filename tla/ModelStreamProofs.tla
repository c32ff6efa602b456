--------------------------- MODULE ModelStreamProofs ---------------------------
(***************************************************************************)
(* Proofs about ModelStream: for any number of routes, retries and pieces, *)
(* what a request passes on comes from one attempt and is what its reply   *)
(* says.                                                                   *)
(***************************************************************************)
EXTENDS ModelStream, TLAPS

(* What Times returns.                                                     *)
LEMMA TimesFacts ==
  ASSUME NEW S, NEW a \in S, NEW n \in Nat
  PROVE  /\ Times(a, n) \in Seq(S)
         /\ Len(Times(a, n)) = n
         /\ DOMAIN Times(a, n) = 1 .. n
         /\ \A i \in 1 .. n : Times(a, n)[i] = a
         /\ << >> \o Times(a, n) = Times(a, n)
  BY DEF Times

LEMMA TimesNone == \A a : Times(a, 0) = << >>
  BY DEF Times

LEMMA TimesOneMore ==
  ASSUME NEW S, NEW a \in S, NEW n \in Nat
  PROVE  Append(Times(a, n), a) = Times(a, n + 1)
  BY DEF Times

-----------------------------------------------------------------------------
LEMMA Bounds ==
  /\ Routes \in Nat /\ Routes >= 1 /\ MaxRetries \in Nat /\ MaxPieces \in Nat
  /\ \A r \in 1 .. Routes, n \in 1 .. MaxRetries + 1 : <<r, n>> \in Attempts
  /\ \A r, n : <<r, n>> \in Attempts => r \in 1 .. Routes /\ n \in 1 .. MaxRetries + 1
  /\ \A a \in Attempts, n \in 0 .. MaxPieces : Text(a, n) \in Texts
  /\ NoText \in Texts
  <1>1. Routes \in Nat /\ Routes >= 1 /\ MaxRetries \in Nat /\ MaxPieces \in Nat
    BY StreamAssumption
  <1>2. QED BY <1>1 DEF Attempts, Text, Texts, NoText, NoAttempt

LEMMA InitInv == Init => StreamInv
  <1> SUFFICES ASSUME Init PROVE StreamInv
    OBVIOUS
  <1>1. StreamTypeOK
    <2>1. attempt \in Attempts
      BY Bounds DEF Init, attempt
    <2>2. reply \in [stop : {"none", "stop", "aborted", "error"}, content : Texts, calls : BOOLEAN]
      BY Bounds DEF Init, NoReply
    <2>3. emitted \in Seq(Attempts)
      BY DEF Init
    <2>4. failure \in [retryable : BOOLEAN, emitted : BOOLEAN]
      BY DEF Init, Fine
    <2>5. /\ buffer \in BOOLEAN /\ cancelled \in BOOLEAN /\ calls \in BOOLEAN /\ cut \in BOOLEAN
          /\ emittedOutput \in BOOLEAN
      BY Zenon DEF Init
    <2>6. pieces \in 0 .. MaxPieces
      BY Bounds DEF Init
    <2>7. QED BY <2>1, <2>2, <2>3, <2>4, <2>5, <2>6, Bounds DEF Init, StreamTypeOK
  <1>2. OutputOfOneAttempt /\ OutputIsReply /\ NothingBetween /\ FlagTells /\ PassedOnAsItComes
    BY DEF Init, NoReply, NoText, Text, OutputOfOneAttempt, OutputIsReply, NothingBetween, FlagTells,
           PassedOnAsItComes
  <1>3. QED BY <1>1, <1>2 DEF StreamInv

(* What the invariant says of the present attempt.                         *)
LEMMA Present ==
  ASSUME StreamInv
  PROVE  /\ attempt \in Attempts /\ pieces \in Nat /\ pieces <= MaxPieces
         /\ Text(attempt, pieces) \in Texts /\ Text(attempt, 0) \in Texts
         /\ Times(attempt, pieces) \in Seq(Attempts)
         /\ partial \in Texts /\ partial.text \in Nat
         /\ partial.text = 0 => Times(partial.from, partial.text) = << >>
  <1>1. attempt \in Attempts /\ pieces \in 0 .. MaxPieces /\ partial \in Texts
    BY DEF StreamInv, StreamTypeOK
  <1>2. Times(attempt, pieces) \in Seq(Attempts)
    BY <1>1, TimesFacts, Bounds
  <1>3. Text(attempt, pieces) \in Texts /\ Text(attempt, 0) \in Texts
    BY <1>1, Bounds
  <1>4. partial.text \in Nat
    BY <1>1, Bounds DEF Texts
  <1>5. QED BY <1>1, <1>2, <1>3, <1>4, TimesNone, Bounds

(* The types: first of the ways an attempt ends,                           *)
LEMMA AbortTypes ==
  ASSUME StreamInv, NEW c \in Texts, Abort(c), Keep
  PROVE  StreamTypeOK'
  <1>1. reply' \in [stop : {"none", "stop", "aborted", "error"}, content : Texts, calls : BOOLEAN]
    BY DEF Abort, End
  <1>2. attempt' = attempt
    BY DEF Keep, attempt
  <1>3. StreamTypeOK
    BY DEF StreamInv
  <1>4. QED BY <1>1, <1>2, <1>3 DEF Abort, End, Keep, StreamTypeOK, streamVars

LEMMA FailTypes ==
  ASSUME StreamInv, NEW b \in BOOLEAN, Fail(b) \/ Break(b), Keep
  PROVE  StreamTypeOK'
  <1>1. failure' \in [retryable : BOOLEAN, emitted : BOOLEAN]
    <2>1. CASE Fail(b) /\ pieces > 0
      BY <2>1 DEF Fail
    <2>2. CASE Fail(b) /\ ~(pieces > 0)
      BY <2>2 DEF Fail
    <2>3. CASE Break(b)
      BY <2>3 DEF Break
    <2>4. QED BY <2>1, <2>2, <2>3
  <1>2. attempt' = attempt
    BY DEF Keep, attempt
  <1>3. partial' \in Texts
    BY Present DEF Fail, Break
  <1>4. StreamTypeOK
    BY DEF StreamInv
  <1>5. QED BY <1>1, <1>2, <1>3, <1>4 DEF Fail, Break, Keep, StreamTypeOK, streamVars

(* then of every action.                                                   *)
LEMMA StepTypes == StreamInv /\ [Next]_vars => StreamTypeOK'
  <1> SUFFICES ASSUME StreamInv, [Next]_vars PROVE StreamTypeOK'
    OBVIOUS
  <1>0. StreamTypeOK
    BY DEF StreamInv
  <1>1. CASE Send
    <2>1. CASE Abort(partial)
      BY <1>1, <2>1, Present, AbortTypes DEF Send
    <2>2. CASE ~Abort(partial)
      <3>1. pieces' \in 0 .. MaxPieces
        BY <1>1, <2>2, Bounds DEF Send
      <3>2. calls' \in BOOLEAN
        BY <1>1, <2>2, Zenon DEF Send
      <3>3. QED BY <1>0, <1>1, <2>2, <3>1, <3>2 DEF Send, Keep, StreamTypeOK, attempt
    <2>3. QED BY <2>1, <2>2
  <1>2. CASE Headers
    <2>1. CASE pc' = "stream" /\ UNCHANGED <<failure, emittedOutput, partial, emitted, reply, cut, streamVars>>
      BY <1>0, <1>2, <2>1 DEF Headers, Keep, StreamTypeOK, attempt, streamVars
    <2>2. CASE Abort(partial) \/ Abort(Text(attempt, 0))
      BY <1>2, <2>2, Present, AbortTypes DEF Headers
    <2>3. CASE \E b \in BOOLEAN : Fail(b) \/ Break(b)
      BY <1>2, <2>3, FailTypes DEF Headers
    <2>4. QED BY <1>2, <2>1, <2>2, <2>3 DEF Headers
  <1>3. CASE StreamFails
    <2>1. CASE Abort(Text(attempt, pieces))
      BY <1>3, <2>1, Present, AbortTypes DEF StreamFails
    <2>2. CASE \E b \in BOOLEAN : Fail(b) \/ Break(b)
      BY <1>3, <2>2, FailTypes DEF StreamFails
    <2>3. QED BY <1>3, <2>1, <2>2 DEF StreamFails
  <1>4. CASE LastLine
    BY <1>0, <1>4 DEF LastLine, Keep, streamVars, StreamTypeOK, attempt
  <1>5. CASE Complete
    <2>1. CASE calls /\ Fail(FALSE)
      BY <1>5, <2>1, FailTypes DEF Complete
    <2>2. CASE ~(calls /\ Fail(FALSE))
      <3>1. reply' \in [stop : {"none", "stop", "aborted", "error"}, content : Texts, calls : BOOLEAN]
        <4>1. reply' = [stop |-> "stop", content |-> Text(attempt, pieces), calls |-> calls]
          BY <1>5, <2>2 DEF Complete, End
        <4>2. calls \in BOOLEAN
          BY <1>0 DEF StreamTypeOK
        <4>3. QED BY <4>1, <4>2, Present
      <3>2. emitted' \in Seq(Attempts)
        <4>1. emitted' = Flushed
          BY <1>5, <2>2 DEF Complete
        <4>2. QED BY <1>0, <4>1, Present DEF Flushed, StreamTypeOK
      <3>3. emittedOutput' \in BOOLEAN
        BY <1>0, <1>5, <2>2 DEF Complete, StreamTypeOK
      <3>4. /\ pc' = "done" /\ attempt' = attempt
            /\ UNCHANGED <<pieces, calls, failure, partial, cut, buffer, cancelled>>
        BY <1>5, <2>2 DEF Complete, End, Keep, streamVars, attempt
      <3>5. QED BY <1>0, <3>1, <3>2, <3>3, <3>4 DEF StreamTypeOK
    <2>3. QED BY <1>5, <2>1, <2>2 DEF Complete
  <1>6. CASE GiveUp
    <2>1. reply' \in [stop : {"none", "stop", "aborted", "error"}, content : Texts, calls : BOOLEAN]
      BY <1>6, Present DEF GiveUp, End
    <2>2. emittedOutput' \in BOOLEAN
      BY <1>0, <1>6 DEF GiveUp, OutputSeen, StreamTypeOK
    <2>3. QED BY <1>0, <1>6, <2>1, <2>2 DEF GiveUp, End, Keep, streamVars, StreamTypeOK, attempt
  <1>7. CASE Retry
    BY <1>0, <1>7 DEF Retry, Keep, streamVars, StreamTypeOK, attempt
  <1>8. CASE Fallback
    <2>1. attempt' \in Attempts
      BY <1>0, <1>8, Bounds DEF Fallback, StreamTypeOK, attempt
    <2>2. QED BY <1>0, <1>8, <2>1 DEF Fallback, streamVars, StreamTypeOK
  <1>9. CASE Backoff
    <2>1. CASE Abort(partial) /\ retry' = retry
      BY <1>9, <2>1, Present, AbortTypes DEF Backoff, Keep
    <2>2. CASE ~(Abort(partial) /\ retry' = retry)
      <3>1. attempt' \in Attempts
        BY <1>0, <1>9, <2>2, Bounds DEF Backoff, NextTry, StreamTypeOK, attempt, StreamInv, NothingBetween
      <3>2. QED BY <1>0, <1>9, <2>2, <3>1 DEF Backoff, streamVars, StreamTypeOK
    <2>3. QED BY <2>1, <2>2
  <1>10. CASE Piece
    <2>1. emitted' \in Seq(Attempts)
      BY <1>0, <1>10 DEF Piece, StreamTypeOK
    <2>2. pieces' \in 0 .. MaxPieces /\ emittedOutput' \in BOOLEAN
      BY <1>0, <1>10, Bounds DEF Piece, StreamTypeOK
    <2>3. QED BY <1>0, <1>10, <2>1, <2>2 DEF Piece, Keep, StreamTypeOK, attempt
  <1>11. CASE CallPart
    BY <1>0, <1>11 DEF CallPart, Keep, StreamTypeOK, attempt
  <1>12. CASE Cancel
    BY <1>0, <1>12 DEF Cancel, streamVars, StreamTypeOK, attempt
  <1>13. CASE UNCHANGED vars
    BY <1>0, <1>13 DEF vars, streamVars, StreamTypeOK, attempt
  <1>14. QED BY <1>1, <1>2, <1>3, <1>4, <1>5, <1>6, <1>7, <1>8, <1>9, <1>10, <1>11, <1>12, <1>13 DEF Next, Step

-----------------------------------------------------------------------------
(* The parts that say what was passed on.                                  *)
Outputs == OutputOfOneAttempt /\ OutputIsReply /\ NothingBetween /\ PassedOnAsItComes /\ FlagTells

LEMMA AbortOutputs ==
  ASSUME StreamInv, NEW c, Abort(c), Keep, pc # "done",
         ~buffer => emitted = Times(c.from, c.text)
  PROVE  Outputs'
  <1>1. attempt' = attempt
    BY DEF Keep, attempt
  <1>2. OutputOfOneAttempt'
    BY <1>1 DEF Abort, StreamInv, OutputOfOneAttempt
  <1>3. OutputIsReply'
    BY DEF Abort, End, Keep, StreamInv, OutputIsReply, FlagTells, Times
  <1>4. pc' = "done"
    BY DEF Abort, End
  <1>5. QED BY <1>2, <1>3, <1>4 DEF Outputs, NothingBetween, PassedOnAsItComes, FlagTells

LEMMA FailOutputs ==
  ASSUME StreamInv, NEW b, Fail(b) \/ Break(b), Keep, pc \in {"headers", "stream", "complete"}
  PROVE  Outputs'
  <1>1. attempt' = attempt /\ pc' = "failed" /\ reply' = reply /\ reply.stop = "none"
        /\ UNCHANGED <<emitted, emittedOutput, buffer>>
    BY DEF Keep, attempt, Fail, Break, StreamInv, FlagTells
  <1>2. OutputOfOneAttempt' /\ OutputIsReply' /\ NothingBetween' /\ FlagTells'
    BY <1>1 DEF StreamInv, OutputOfOneAttempt, OutputIsReply, NothingBetween, FlagTells
  <1>3. PassedOnAsItComes'
    <2>1. CASE Fail(b)
      <3>1. ~buffer => emitted = Times(attempt, pieces)
        BY TimesNone DEF StreamInv, PassedOnAsItComes, NothingBetween
      <3>2. partial'.from = attempt /\ partial'.text = pieces
        BY <2>1 DEF Fail, Text
      <3>3. emitted' = emitted /\ (~buffer)' = ~buffer /\ pc' = "failed"
        BY <1>1
      <3>4. QED BY <3>1, <3>2, <3>3 DEF PassedOnAsItComes, Times
    <2>2. CASE Break(b)
      BY <1>1, <2>2 DEF Break, PassedOnAsItComes
    <2>3. QED BY <2>1, <2>2
  <1>4. QED BY <1>2, <1>3 DEF Outputs

LEMMA StepOutputs == StreamInv /\ [Next]_vars => Outputs'
  <1> SUFFICES ASSUME StreamInv, [Next]_vars PROVE Outputs'
    OBVIOUS
  <1>0. StreamTypeOK /\ Outputs
    BY DEF StreamInv, Outputs
  <1>1. CASE Send
    <2>1. emitted = << >> /\ (~buffer => partial.text = 0) /\ pc = "start" /\ reply.stop = "none"
      BY <1>0, <1>1 DEF Send, Outputs, NothingBetween, FlagTells
    <2>2. CASE Abort(partial)
      BY <1>1, <2>1, <2>2, Present, AbortOutputs DEF Send
    <2>3. CASE ~Abort(partial)
      BY <1>1, <2>1, <2>3 DEF Send, Keep, Outputs, OutputOfOneAttempt, OutputIsReply, NothingBetween,
           PassedOnAsItComes, FlagTells
    <2>4. QED BY <2>2, <2>3
  <1>2. CASE Headers
    <2>1. emitted = << >> /\ (~buffer => partial.text = 0) /\ pieces = 0 /\ pc = "headers"
          /\ reply.stop = "none"
      BY <1>0, <1>2 DEF Headers, Outputs, NothingBetween, FlagTells
    <2>2. CASE pc' = "stream" /\ UNCHANGED <<failure, emittedOutput, partial, emitted, reply, cut, streamVars>>
      <3>1. emitted' = << >> /\ Times(attempt', pieces') = << >> /\ pc' = "stream" /\ reply'.stop = "none"
        BY <2>1, <2>2, TimesNone DEF streamVars
      <3>2. QED BY <3>1 DEF Outputs, OutputOfOneAttempt, OutputIsReply, NothingBetween,
                  PassedOnAsItComes, FlagTells
    <2>3. CASE Abort(partial)
      BY <1>2, <2>1, <2>3, Present, AbortOutputs DEF Headers
    <2>4. CASE Abort(Text(attempt, 0))
      <3>1. Times(Text(attempt, 0).from, Text(attempt, 0).text) = << >>
        BY TimesNone DEF Text
      <3>2. QED BY <1>2, <2>1, <2>4, <3>1, AbortOutputs DEF Headers
    <2>5. CASE \E b \in BOOLEAN : Fail(b) \/ Break(b)
      BY <1>2, <2>1, <2>5, FailOutputs DEF Headers
    <2>6. QED BY <1>2, <2>2, <2>3, <2>4, <2>5 DEF Headers
  <1>3. CASE StreamFails
    <2>1. CASE Abort(Text(attempt, pieces))
      <3>1. Text(attempt, pieces).from = attempt /\ Text(attempt, pieces).text = pieces
        BY DEF Text
      <3>2. ~buffer => emitted = Times(attempt, pieces)
        BY <1>0, <1>3 DEF StreamFails, Outputs, PassedOnAsItComes
      <3>3. QED BY <1>3, <2>1, <3>1, <3>2, AbortOutputs DEF StreamFails
    <2>2. CASE \E b \in BOOLEAN : Fail(b) \/ Break(b)
      BY <1>3, <2>2, FailOutputs DEF StreamFails
    <2>3. QED BY <1>3, <2>1, <2>2 DEF StreamFails
  <1>4. CASE LastLine
    BY <1>0, <1>4 DEF LastLine, Keep, streamVars, attempt, Outputs, OutputOfOneAttempt, OutputIsReply,
         NothingBetween, PassedOnAsItComes, FlagTells, Times
  <1>5. CASE Complete
    <2>1. CASE calls /\ Fail(FALSE)
      BY <1>5, <2>1, FailOutputs DEF Complete
    <2>2. CASE ~(calls /\ Fail(FALSE))
      <3>1. Flushed = Times(attempt, pieces)
        <4>1. CASE buffer
          <5>1. emitted = << >>
            BY <1>0, <1>5, <4>1 DEF Complete, Outputs, FlagTells
          <5>2. QED BY <4>1, <5>1, Present, TimesFacts DEF Flushed
        <4>2. CASE ~buffer
          BY <1>0, <1>5, <4>2 DEF Complete, Outputs, PassedOnAsItComes, Flushed
        <4>3. QED BY <4>1, <4>2
      <3>2. /\ emitted' = Times(attempt, pieces) /\ pc' = "done" /\ attempt' = attempt
            /\ reply'.stop = "stop" /\ reply'.content = Text(attempt, pieces)
        <4>1. End("stop", Text(attempt, pieces), calls) /\ emitted' = Flushed /\ Keep
          BY <1>5, <2>2 DEF Complete
        <4>2. reply' = [stop |-> "stop", content |-> Text(attempt, pieces), calls |-> calls]
          BY <4>1 DEF End
        <4>3. attempt' = attempt /\ pc' = "done"
          BY <4>1 DEF Keep, attempt, End
        <4>4. QED BY <3>1, <4>1, <4>2, <4>3
      <3>3. reply'.content.from = attempt /\ reply'.content.text = pieces
        BY <3>2 DEF Text
      <3>4. OutputIsReply'
        BY <3>2, <3>3 DEF OutputIsReply, Times
      <3>5. OutputOfOneAttempt'
        BY <3>2 DEF OutputOfOneAttempt, Times
      <3>6. QED BY <3>2, <3>4, <3>5 DEF Outputs, NothingBetween, PassedOnAsItComes, FlagTells
    <2>3. QED BY <2>1, <2>2
  <1>6. CASE GiveUp
    <2>1. /\ pc = "failed" /\ pc' = "done" /\ attempt' = attempt
          /\ reply'.stop = "error" /\ reply'.content = partial
          /\ UNCHANGED <<emitted, cut, buffer>>
      BY <1>6 DEF GiveUp, End, Keep, attempt
    <2>2. QED BY <1>0, <2>1 DEF Outputs, OutputOfOneAttempt, OutputIsReply, NothingBetween,
                PassedOnAsItComes, FlagTells, Times
  <1>7. CASE Retry
    <2>1. emitted = << >> /\ (~buffer => partial.text = 0) /\ retry <= MaxRetries
      BY <1>0, <1>7, Present DEF Retry, OutputSeen, Retryable, Outputs, FlagTells
    <2>2. QED BY <1>0, <1>7, <2>1 DEF Retry, Keep, Outputs, OutputOfOneAttempt, OutputIsReply,
                NothingBetween, PassedOnAsItComes, FlagTells
  <1>8. CASE Fallback
    <2>1. emitted = << >> /\ (~buffer => partial.text = 0)
      BY <1>0, <1>8, Present DEF Fallback, OutputSeen, Outputs, FlagTells
    <2>2. QED BY <1>0, <1>8, <2>1 DEF Fallback, Outputs, OutputOfOneAttempt, OutputIsReply,
                NothingBetween, PassedOnAsItComes, FlagTells
  <1>9. CASE Backoff
    <2>1. emitted = << >> /\ (~buffer => partial.text = 0) /\ pc = "backoff" /\ reply.stop = "none"
      BY <1>0, <1>9 DEF Backoff, Outputs, NothingBetween, FlagTells
    <2>2. CASE Abort(partial) /\ retry' = retry
      BY <1>9, <2>1, <2>2, Present, AbortOutputs DEF Backoff, Keep
    <2>3. CASE ~(Abort(partial) /\ retry' = retry)
      BY <1>9, <2>1, <2>3 DEF Backoff, Outputs, OutputOfOneAttempt, OutputIsReply, NothingBetween,
           PassedOnAsItComes, FlagTells
    <2>4. QED BY <2>2, <2>3
  <1>10. CASE Piece
    <2>1. /\ pc = "stream" /\ pc' = "stream" /\ attempt' = attempt /\ pieces' = pieces + 1
          /\ reply' = reply /\ buffer' = buffer /\ reply.stop = "none"
          /\ emitted' = IF buffer THEN emitted ELSE Append(emitted, attempt)
          /\ emittedOutput' = (emittedOutput \/ ~buffer)
      BY <1>0, <1>10 DEF Piece, Keep, attempt, Outputs, FlagTells
    <2>2. CASE buffer
      BY <1>0, <2>1, <2>2 DEF Outputs, OutputOfOneAttempt, OutputIsReply, NothingBetween,
           PassedOnAsItComes, FlagTells
    <2>3. CASE ~buffer
      <3>1. emitted' = Times(attempt, pieces')
        <4>1. emitted = Times(attempt, pieces)
          BY <1>0, <2>1, <2>3 DEF Outputs, PassedOnAsItComes
        <4>2. attempt \in Attempts /\ pieces \in Nat
          BY Present
        <4>3. Append(Times(attempt, pieces), attempt) = Times(attempt, pieces + 1)
          BY <4>2, TimesOneMore
        <4>4. QED BY <2>1, <2>3, <4>1, <4>3
      <3>2. OutputOfOneAttempt'
        BY <2>1, <3>1 DEF OutputOfOneAttempt, Times
      <3>3. PassedOnAsItComes'
        BY <2>1, <3>1 DEF PassedOnAsItComes, Times
      <3>4. QED BY <2>1, <2>3, <3>2, <3>3 DEF Outputs, OutputIsReply, NothingBetween, FlagTells
    <2>4. QED BY <2>2, <2>3
  <1>11. CASE CallPart
    BY <1>0, <1>11 DEF CallPart, Keep, attempt, Outputs, OutputOfOneAttempt, OutputIsReply,
         NothingBetween, PassedOnAsItComes, FlagTells, Times
  <1>12. CASE Cancel
    BY <1>0, <1>12 DEF Cancel, streamVars, attempt, Outputs, OutputOfOneAttempt, OutputIsReply,
         NothingBetween, PassedOnAsItComes, FlagTells, Times
  <1>13. CASE UNCHANGED vars
    BY <1>0, <1>13 DEF vars, streamVars, attempt, Outputs, OutputOfOneAttempt, OutputIsReply,
         NothingBetween, PassedOnAsItComes, FlagTells, Times
  <1>14. QED BY <1>1, <1>2, <1>3, <1>4, <1>5, <1>6, <1>7, <1>8, <1>9, <1>10, <1>11, <1>12, <1>13 DEF Next, Step

-----------------------------------------------------------------------------
(* The invariant, for any number of routes, retries and pieces, whether    *)
(* output is buffered or not and whenever the request is cancelled.        *)
THEOREM StreamInvariant == Spec => []StreamInv
  <1>1. StreamInv /\ [Next]_vars => StreamInv'
    BY StepTypes, StepOutputs DEF Outputs, StreamInv
  <1>2. QED BY InitInv, <1>1, PTL DEF Spec

(* An attempt that has shown anything is the last one.                     *)
THEOREM OneAttemptShown == Spec => []OutputOfOneAttempt
  <1>1. StreamInv => OutputOfOneAttempt
    BY DEF StreamInv
  <1>2. QED BY StreamInvariant, <1>1, PTL

(* What was shown is what the reply says.                                  *)
THEOREM ShownIsReply == Spec => []OutputIsReply
  <1>1. StreamInv => OutputIsReply
    BY DEF StreamInv
  <1>2. QED BY StreamInvariant, <1>1, PTL
===============================================================================
