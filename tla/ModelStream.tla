------------------------------ MODULE ModelStream ------------------------------
(***************************************************************************)
(* One request to a model: OpenAICompatibleClient.stream and its attempts  *)
(* (llm/openai_compatible.py).  A request is tried on the primary route    *)
(* and then on the fallback routes, several times on each; the pieces of   *)
(* the answer are passed on as they come, or kept until an attempt has     *)
(* succeeded; the run's token may be cancelled at any moment.              *)
(*                                                                         *)
(* A piece of text stands for the attempt it came from.                    *)
(***************************************************************************)
EXTENDS Naturals, Sequences

CONSTANTS
  Routes,      \* number of routes
  MaxRetries,  \* retries on a route
  MaxPieces    \* bound on the pieces of text of an answer

ASSUME StreamAssumption == Routes \in Nat \ {0} /\ {MaxRetries, MaxPieces} \subseteq Nat

VARIABLES
  pc,          \* where the request is
  buffer,      \* buffer_output: pass nothing on before an attempt succeeded
  route, retry,\* the attempt
  pieces,      \* pieces of text the attempt has received
  calls,       \* has it received parts of tool calls?
  failure,     \* what it failed of, as far as the next step depends on it
  emittedOutput, \* the flag that ends the attempts
  partial,     \* partial_reply: its attempt, and how much text it has
  emitted,     \* the output passed on: for each piece, its attempt
  reply,       \* the reply of the completed event
  cut,         \* did an error of the connection end the last attempt?
  cancelled    \* the token

attempt == <<route, retry>>
streamVars == <<pieces, calls>>
vars == <<pc, buffer, route, retry, streamVars, failure, emittedOutput, partial, emitted, reply,
          cut, cancelled>>

NoAttempt == <<0, 0>>
Text(a, n) == [from |-> a, text |-> n]
NoText == Text(NoAttempt, 0)
Fine == [retryable |-> FALSE, emitted |-> FALSE]
NoReply == [stop |-> "none", content |-> NoText, calls |-> FALSE]

Init ==
  /\ pc = "start" /\ buffer \in BOOLEAN /\ route = 1 /\ retry = 1
  /\ pieces = 0 /\ calls = FALSE /\ failure = Fine /\ emittedOutput = FALSE
  /\ partial = NoText /\ emitted = << >> /\ reply = NoReply /\ cut = FALSE /\ cancelled = FALSE

-----------------------------------------------------------------------------
(* How an attempt ends. *)

Times(a, n) == [i \in 1 .. n |-> a]

(* An error of _stream_attempt itself carries what was received so far.    *)
Fail(retryable) ==
  /\ pc' = "failed"
  /\ failure' = [retryable |-> retryable, emitted |-> pieces > 0]
  /\ partial' = Text(attempt, pieces)
  /\ cut' = FALSE
  /\ UNCHANGED <<emitted, emittedOutput, reply, streamVars>>

(* An error of the connection, or before there are headers, carries none.  *)
Break(retryable) ==
  /\ pc' = "failed"
  /\ failure' = [retryable |-> retryable, emitted |-> FALSE]
  /\ cut' = TRUE
  /\ UNCHANGED <<partial, emitted, emittedOutput, reply, streamVars>>

End(stop, content, c) ==
  /\ pc' = "done"
  /\ reply' = [stop |-> stop, content |-> content, calls |-> c]

(* The token is cancelled while the request waits for something.           *)
Abort(content) ==
  /\ cancelled
  /\ End("aborted", content, FALSE)
  /\ partial' = content
  /\ cut' = FALSE
  /\ UNCHANGED <<emitted, emittedOutput, failure, streamVars>>

Keep == UNCHANGED <<buffer, route, retry, cancelled>>

-----------------------------------------------------------------------------
(* attempt_started, and the request is sent; a cancelled token keeps it    *)
(* from being sent.                                                        *)
Send ==
  /\ pc = "start"
  /\ \/ Abort(partial)
     \/ /\ ~cancelled
        /\ pc' = "headers" /\ pieces' = 0 /\ calls' = FALSE
        /\ UNCHANGED <<failure, emittedOutput, partial, emitted, reply, cut>>
  /\ Keep

(* The response, an error of the server in it, or none in time.            *)
Headers ==
  /\ pc = "headers"
  /\ \/ Abort(partial) \/ Abort(Text(attempt, 0))
     \/ Break(TRUE) \/ Break(FALSE)
     \/ Fail(TRUE) \/ Fail(FALSE)
     \/ pc' = "stream" /\ UNCHANGED <<failure, emittedOutput, partial, emitted, reply, cut, streamVars>>
  /\ Keep

(* A piece of text is passed on or kept. *)
Piece ==
  /\ pc = "stream" /\ ~cancelled /\ pieces < MaxPieces
  /\ pieces' = pieces + 1
  /\ emitted' = IF buffer THEN emitted ELSE Append(emitted, attempt)
  /\ emittedOutput' = (emittedOutput \/ ~buffer)
  /\ UNCHANGED <<pc, calls, failure, partial, reply, cut>>
  /\ Keep

(* A part of a tool call is kept until the end in any case.                *)
CallPart ==
  /\ pc = "stream" /\ ~cancelled
  /\ calls' = TRUE
  /\ UNCHANGED <<pc, pieces, failure, emittedOutput, partial, emitted, reply, cut>>
  /\ Keep

(* Timeouts, a connection closed too early, an error event, nonsense.      *)
StreamFails ==
  /\ pc = "stream"
  /\ \/ Abort(Text(attempt, pieces))
     \/ ~cancelled /\ \E retryable \in BOOLEAN : Fail(retryable) \/ Break(retryable)
  /\ Keep

(* The end of the answer has been read. *)
LastLine ==
  /\ pc = "stream" /\ ~cancelled
  /\ pc' = "complete"
  /\ UNCHANGED <<streamVars, failure, emittedOutput, partial, emitted, reply, cut>>
  /\ Keep

(* A faulty variant of Flushed: what was kept is not passed on. *)
NotFlushed == emitted

(* The tool calls, and what has been kept of the text.                     *)
Flushed == IF buffer THEN emitted \o Times(attempt, pieces) ELSE emitted

(* The reply is put together, unless the arguments of a call are invalid.  *)
Complete ==
  /\ pc = "complete"
  /\ \/ calls /\ Fail(FALSE)
     \/ /\ End("stop", Text(attempt, pieces), calls)
        /\ emitted' = Flushed
        /\ emittedOutput' = (emittedOutput \/ (calls /\ ~buffer))
        /\ UNCHANGED <<failure, partial, cut, streamVars>>
  /\ Keep

-----------------------------------------------------------------------------
(* After a failed attempt.                                                 *)

(* A faulty variant of OutputSeen: only the error tells. *)
OutputInError == ~buffer /\ failure.emitted

OutputSeen == emittedOutput \/ (~buffer /\ (failure.emitted \/ partial.text > 0))

Retryable == failure.retryable /\ retry <= MaxRetries

(* The request has failed: output was passed on, or no attempt is left.    *)
GiveUp ==
  /\ pc = "failed"
  /\ OutputSeen \/ (~Retryable /\ route = Routes)
  /\ End("error", partial, FALSE)
  /\ emittedOutput' = OutputSeen
  /\ UNCHANGED <<streamVars, failure, partial, emitted, cut>>
  /\ Keep

Retry ==
  /\ pc = "failed" /\ ~OutputSeen /\ Retryable
  /\ pc' = "backoff"
  /\ UNCHANGED <<streamVars, failure, emittedOutput, partial, emitted, reply, cut>>
  /\ Keep

Fallback ==
  /\ pc = "failed" /\ ~OutputSeen /\ ~Retryable /\ route < Routes
  /\ pc' = "start" /\ route' = route + 1 /\ retry' = 1
  /\ UNCHANGED <<buffer, streamVars, failure, emittedOutput, partial, emitted, reply, cut, cancelled>>

(* A faulty variant of NextTry: the retries are not counted. *)
SameTry == retry

NextTry == retry + 1

(* The delay before a retry. *)
Backoff ==
  /\ pc = "backoff"
  /\ \/ Abort(partial) /\ retry' = retry
     \/ /\ ~cancelled
        /\ pc' = "start" /\ retry' = NextTry
        /\ UNCHANGED <<streamVars, failure, emittedOutput, partial, emitted, reply, cut>>
  /\ UNCHANGED <<buffer, route, cancelled>>

Cancel ==
  /\ pc # "done" /\ ~cancelled
  /\ cancelled' = TRUE
  /\ UNCHANGED <<pc, buffer, route, retry, streamVars, failure, emittedOutput, partial, emitted,
                 reply, cut>>

Step ==
  Send \/ Headers \/ StreamFails \/ LastLine \/ Complete \/ GiveUp \/ Retry \/ Fallback \/ Backoff

Next == Step \/ Piece \/ CallPart \/ Cancel

(* Every wait has a deadline: the event loop makes the step it ends with.  *)
Spec == Init /\ [][Next]_vars /\ WF_vars(Step)

-----------------------------------------------------------------------------
Attempts == (1 .. Routes) \X (1 .. MaxRetries + 1)
Texts == [from : Attempts \cup {NoAttempt}, text : 0 .. MaxPieces]

StreamTypeOK ==
  /\ pc \in {"start", "headers", "stream", "complete", "failed", "backoff", "done"}
  /\ buffer \in BOOLEAN /\ cancelled \in BOOLEAN /\ calls \in BOOLEAN /\ cut \in BOOLEAN
  /\ emittedOutput \in BOOLEAN
  /\ attempt \in Attempts
  /\ pieces \in 0 .. MaxPieces
  /\ failure \in [retryable : BOOLEAN, emitted : BOOLEAN]
  /\ partial \in Texts
  /\ emitted \in Seq(Attempts)
  /\ reply \in [stop : {"none", "stop", "aborted", "error"}, content : Texts, calls : BOOLEAN]

(* Output that has been passed on is of one attempt, the current one: an   *)
(* attempt that has shown something is never tried again or replaced by    *)
(* another route (openai_compatible.py 447-448, 493-494), and nothing is   *)
(* shown of an attempt that failed while output is buffered (341-375).     *)
OutputOfOneAttempt == \A i \in DOMAIN emitted : emitted[i] = attempt

(* The reply is what was passed on: all of it when an attempt succeeded;   *)
(* what had come when it was cut short (393-402, 501-511), unless it was   *)
(* an error of the connection, whose text is lost; and nothing when output *)
(* is buffered.                                                            *)
OutputIsReply ==
  /\ reply.stop = "stop" => emitted = Times(reply.content.from, reply.content.text)
  /\ reply.stop \in {"aborted", "error"} /\ buffer => emitted = << >>
  /\ reply.stop \in {"aborted", "error"} /\ ~buffer /\ ~cut =>
       emitted = Times(reply.content.from, reply.content.text)

(* Why both hold.  Between the attempts nothing has been passed on, nor is *)
(* there any text to report; *)
NothingBetween ==
  pc \in {"start", "headers", "backoff"} =>
    /\ emitted = << >>
    /\ buffer \/ partial.text = 0
    /\ pc = "headers" => pieces = 0
    /\ pc = "backoff" => retry <= MaxRetries

(* in an attempt, exactly its pieces; after it failed, exactly what it      *)
(* reports, if it reports anything; *)
PassedOnAsItComes ==
  ~buffer =>
    /\ pc \in {"stream", "complete"} => emitted = Times(attempt, pieces)
    /\ pc = "failed" /\ ~cut => emitted = Times(partial.from, partial.text)

(* the flag tells whether it is anything; output that is buffered waits for *)
(* the end, and the reply comes with it.                                    *)
FlagTells ==
  pc # "done" =>
    /\ emitted # << >> => emittedOutput
    /\ buffer => emitted = << >>
    /\ reply.stop = "none"

StreamInv ==
  /\ StreamTypeOK /\ OutputOfOneAttempt /\ OutputIsReply
  /\ NothingBetween /\ PassedOnAsItComes /\ FlagTells

(* Every request ends, with one reply (265-511): the retries are counted,  *)
(* and so are the routes.                                                  *)
RequestEnds == <>(pc = "done")
===============================================================================
