---------------------- MODULE ValidatorExecutionProofs ----------------------
(***************************************************************************)
(* TypeOK, SuccessIsComplete, CheckAccountedFor and the refinement of      *)
(* ValidatorJob for every set of executions, checks and consumers and      *)
(* every number of exceptions, crashes and re-runs.                        *)
(*                                                                         *)
(* The argument: from the moment the finaliser of an execution exists, the *)
(* list of required checks in the cache and the checks with a result cover *)
(* all checks (Covered).  A poll removes from the list only checks it saw  *)
(* completed, and results are never removed, so the same holds of the      *)
(* copies a running finaliser has read, however stale they are.            *)
(*                                                                         *)
(* The second part is about CoreNodes, which shares nothing with it.       *)
(***************************************************************************)
EXTENDS ValidatorExecution, CoreNodes, FiniteSetTheorems, TLAPS

FinalizeSteps == {"read", "mark", "required", "completed", "save_failure", "missing",
                  "resend", "finish"}
RequestSteps == {"fetch", "reset", "store_checks", "send"}

(* checks, together with the checks that have a result, are all the checks.  *)
Covered(checks, e) == \A c \in Check : c \in checks \/ result[e][c] # "none"

(* A consumer executes the handler of the message it holds.                  *)
HandlerOK ==
  \A w \in Worker :
    /\ pc[w] # "idle" => msg[w] \in Msg
    /\ pc[w] = "check" => msg[w] \in CheckMsg
    /\ pc[w] \in RequestSteps => msg[w] \in RequestMsg
    /\ pc[w] \in {"store_checks", "send"} => exec[w] \in Exec
    /\ pc[w] \in FinalizeSteps => msg[w] \in FinalizeMsg

(* The list in the cache covers the execution once its finaliser may exist.  *)
ListCovers ==
  /\ \A m \in FinalizeMsg : queue[m] > 0 => Covered(required[m.e], m.e)
  /\ \A w \in Worker : msg[w] \in FinalizeMsg => Covered(required[msg[w].e], msg[w].e)
  /\ \A w \in Worker : pc[w] = "send" => Covered(required[exec[w]], exec[w])

(* ... and so do the lists a running finaliser works with.                   *)
PollCovers ==
  \A w \in Worker :
    /\ pc[w] = "completed" => Covered(need[w], msg[w].e)
    /\ pc[w] \in {"save_failure", "missing", "resend", "finish"} => Covered(miss[w], msg[w].e)

SuccessCovers ==
  validator.conclusion = "success" => validator.by \in Exec /\ Covered({}, validator.by)

IInv == TypeOK /\ HandlerOK /\ ListCovers /\ PollCovers /\ SuccessCovers

-----------------------------------------------------------------------------
USE CheckAssumption, NoExecAssumption, BoundAssumption

(* Messages of different types are different, and none of them is NoMsg.     *)
LEMMA MsgTypes ==
  /\ \A m \in RequestMsg : m.type = "request" /\ m.retry \in 0..RetryLimit
  /\ \A m \in CheckMsg : m.type = "check" /\ m.e \in Exec /\ m.c \in Check
                         /\ m.retry \in 0..RetryLimit
  /\ \A m \in FinalizeMsg : m.type = "finalize" /\ m.e \in Exec /\ m.retry \in 0..RetryLimit
  /\ NoMsg \notin Msg /\ NoMsg \notin FinalizeMsg
  /\ RequestMsg \subseteq Msg /\ CheckMsg \subseteq Msg /\ FinalizeMsg \subseteq Msg
  /\ \A m \in Msg : /\ m.type \in {"request", "check", "finalize"}
                    /\ m.retry \in 0..RetryLimit
                    /\ m.type = "request" => m \in RequestMsg
                    /\ m.type = "check" => m \in CheckMsg
                    /\ m.type = "finalize" => m \in FinalizeMsg
BY DEF RequestMsg, CheckMsg, FinalizeMsg, Msg, NoMsg

LEMMA NewMessages ==
  /\ request \in RequestMsg
  /\ \A e \in Exec : finalize_message(e) \in FinalizeMsg /\ finalize_message(e).e = e
  /\ \A e \in Exec, c \in Check : check_message(e, c) \in CheckMsg
BY DEF request, finalize_message, check_message, RequestMsg, FinalizeMsg, CheckMsg, RetryLimit

(* A message below the retry limit stays a message of its type when the      *)
(* count goes up.                                                            *)
LEMMA RetryInRange ==
  ASSUME NEW m \in Msg, ~reached_max_retries(m)
  PROVE  LET r == [m EXCEPT !.retry = @ + 1]
         IN  /\ r \in Msg
             /\ r \in FinalizeMsg => m \in FinalizeMsg /\ r.e = m.e
<1>1. m.retry \in 0..RetryLimit /\ m.retry + 1 \in 0..RetryLimit
  BY MsgTypes DEF reached_max_retries, RetryLimit
<1>2. CASE m \in RequestMsg
  BY <1>1, <1>2 DEF RequestMsg, CheckMsg, FinalizeMsg, Msg
<1>3. CASE m \in CheckMsg
  BY <1>1, <1>3 DEF RequestMsg, CheckMsg, FinalizeMsg, Msg
<1>4. CASE m \in FinalizeMsg
  BY <1>1, <1>4 DEF RequestMsg, CheckMsg, FinalizeMsg, Msg
<1> QED
  BY <1>2, <1>3, <1>4 DEF Msg

LEMMA InitIInv == Init => IInv
<1> SUFFICES ASSUME Init PROVE IInv
  OBVIOUS
<1>1. request \in RequestMsg
  BY NewMessages
<1>2. TypeOK
  BY <1>1 DEF Init, TypeOK, Unread, ValidatorState, Conclusion, Steps, Msg
<1>3. HandlerOK
  BY DEF Init, HandlerOK, RequestSteps, FinalizeSteps
<1>4. ListCovers
  BY <1>1, MsgTypes DEF Init, ListCovers, Msg
<1>5. PollCovers /\ SuccessCovers
  BY DEF Init, PollCovers, SuccessCovers
<1> QED
  BY <1>2, <1>3, <1>4, <1>5 DEF IInv

LEMMA NextIInv == IInv /\ [Next]_vars => IInv'
<1> SUFFICES ASSUME IInv, [Next]_vars PROVE IInv'
  OBVIOUS
<1> USE MsgTypes, NewMessages DEF IInv, TypeOK, HandlerOK, ListCovers, PollCovers, SuccessCovers, Covered, RequestSteps, FinalizeSteps,
         vars, finaliserVars, requestVars, cacheVars, handlerVars, boundVars
<1>1. ASSUME NEW w \in Worker, Receive(w) PROVE IInv'
  <2>1. TypeOK'
    BY <1>1 DEF Receive, Steps, Conclusion, ValidatorState
  <2>2. HandlerOK'
    BY <1>1 DEF Receive
  <2>3. ListCovers'
    BY <1>1 DEF Receive
  <2>4. PollCovers'
    BY <1>1 DEF Receive
  <2>5. SuccessCovers'
    BY <1>1 DEF Receive
  <2> QED
    BY <2>1, <2>2, <2>3, <2>4, <2>5
<1>2. ASSUME NEW w \in Worker, Ack(w) PROVE IInv'
  <2>1. TypeOK'
    BY <1>2 DEF Ack, DropLocals, Unread, Steps, Conclusion, ValidatorState
  <2>2. HandlerOK'
    BY <1>2 DEF Ack, DropLocals
  <2>3. ListCovers'
    BY <1>2 DEF Ack, DropLocals
  <2>4. PollCovers'
    BY <1>2 DEF Ack, DropLocals
  <2>5. SuccessCovers'
    BY <1>2 DEF Ack, DropLocals
  <2> QED
    BY <2>1, <2>2, <2>3, <2>4, <2>5
<1>3. ASSUME NEW w \in Worker, Crash(w) PROVE IInv'
  <2>1. TypeOK'
    BY <1>3 DEF Crash, DropLocals, Unread, Send, Steps, Conclusion, ValidatorState
  <2>2. HandlerOK'
    BY <1>3 DEF Crash, DropLocals, Send
  <2>3. ListCovers'
    BY <1>3 DEF Crash, DropLocals, Send
  <2>4. PollCovers'
    BY <1>3 DEF Crash, DropLocals, Send
  <2>5. SuccessCovers'
    BY <1>3 DEF Crash, DropLocals, Send
  <2> QED
    BY <2>1, <2>2, <2>3, <2>4, <2>5
<1>4. ASSUME NEW w \in Worker, HandlerException(w) PROVE IInv'
  <2> DEFINE r == [msg[w] EXCEPT !.retry = @ + 1]
  <2>1. msg[w] \in Msg /\ pc' = [pc EXCEPT ![w] = "ack"]
    BY <1>4 DEF HandlerException
  <2>2. CASE reached_max_retries(msg[w])
    <3>1. queue' = queue /\ result' \in [Exec -> [Check -> {"none", "success", "failure"}]]
          /\ \A e \in Exec, c \in Check : result[e][c] # "none" => result'[e][c] # "none"
      <4>1. queue' = queue /\ set_check_status(msg[w], "failure")
        BY <1>4, <2>2 DEF HandlerException
      <4>2. CASE msg[w].type = "check" /\ msg[w].c \in MetaCheck
        <5>1. msg[w].e \in Exec /\ msg[w].c \in Check
          BY <2>1, <4>2
        <5>2. result' = [result EXCEPT ![msg[w].e][msg[w].c] = "failure"]
          BY <4>1, <4>2 DEF set_check_status
        <5> QED
          BY <4>1, <5>1, <5>2
      <4>3. CASE ~(msg[w].type = "check" /\ msg[w].c \in MetaCheck)
        BY <4>1, <4>3 DEF set_check_status
      <4> QED
        BY <4>2, <4>3
    <3>2. TypeOK'
      BY <1>4, <2>1, <3>1 DEF HandlerException, Steps
    <3>3. HandlerOK'
      BY <1>4, <2>1, <3>1 DEF HandlerException
    <3>4. ListCovers'
      BY <1>4, <2>1, <3>1 DEF HandlerException
    <3>5. PollCovers' /\ SuccessCovers'
      BY <1>4, <2>1, <3>1 DEF HandlerException
    <3> QED
      BY <3>2, <3>3, <3>4, <3>5
  <2>3. CASE ~reached_max_retries(msg[w])
    <3>1. /\ r \in Msg
          /\ r \in FinalizeMsg => msg[w] \in FinalizeMsg /\ r.e = msg[w].e
      BY <2>1, <2>3, RetryInRange
    <3>2. queue' = [queue EXCEPT ![r] = @ + 1] /\ result' = result
      BY <1>4, <2>3 DEF HandlerException, Send
    <3> HIDE DEF r
    <3>3. TypeOK'
      BY <1>4, <2>1, <3>1, <3>2 DEF HandlerException, Steps
    <3>4. HandlerOK'
      BY <1>4, <2>1, <3>2 DEF HandlerException
    <3>5. ListCovers'
      BY <1>4, <2>1, <3>1, <3>2 DEF HandlerException
    <3>6. PollCovers' /\ SuccessCovers'
      BY <1>4, <2>1, <3>2 DEF HandlerException
    <3> QED
      BY <3>3, <3>4, <3>5, <3>6
  <2> QED
    BY <2>2, <2>3
<1>5. ASSUME NEW w \in Worker, RequestReset(w) PROVE IInv'
  <2>1. TypeOK'
    <3>1. PICK e \in Exec : used' = used \cup {e} /\ exec' = [exec EXCEPT ![w] = e]
      BY <1>5 DEF RequestReset
    <3>2. validator' \in [state : ValidatorState, conclusion : Conclusion, by : Exec \cup {NoExec}]
      BY <1>5 DEF RequestReset, save, ValidatorState, Conclusion
    <3> QED
      BY <1>5, <3>1, <3>2 DEF RequestReset, Unread, Steps, ValidatorState, Conclusion
  <2>2. HandlerOK'
    BY <1>5 DEF RequestReset
  <2>3. ListCovers'
    BY <1>5 DEF RequestReset
  <2>4. PollCovers'
    BY <1>5 DEF RequestReset
  <2>5. SuccessCovers'
    BY <1>5 DEF RequestReset, save
  <2> QED
    BY <2>1, <2>2, <2>3, <2>4, <2>5
<1>6. ASSUME NEW w \in Worker, RequestStoreChecks(w) PROVE IInv'
  <2>1. TypeOK'
    BY <1>6 DEF RequestStoreChecks, Steps, Conclusion, ValidatorState
  <2>2. HandlerOK'
    BY <1>6 DEF RequestStoreChecks
  <2>3. ListCovers'
    BY <1>6 DEF RequestStoreChecks
  <2>4. PollCovers'
    BY <1>6 DEF RequestStoreChecks
  <2>5. SuccessCovers'
    BY <1>6 DEF RequestStoreChecks
  <2> QED
    BY <2>1, <2>2, <2>3, <2>4, <2>5
<1>7. ASSUME NEW w \in Worker, RequestSendCheck(w) PROVE IInv'
  <2>1. TypeOK'
    BY <1>7 DEF RequestSendCheck, Send, Steps, Conclusion, ValidatorState
  <2>2. HandlerOK'
    BY <1>7 DEF RequestSendCheck, Send
  <2>3. ListCovers'
    BY <1>7 DEF RequestSendCheck, Send
  <2>4. PollCovers'
    BY <1>7 DEF RequestSendCheck, Send
  <2>5. SuccessCovers'
    BY <1>7 DEF RequestSendCheck, Send
  <2> QED
    BY <2>1, <2>2, <2>3, <2>4, <2>5
<1>8. ASSUME NEW w \in Worker, RequestSendFinalize(w) PROVE IInv'
  <2>1. TypeOK'
    BY <1>8 DEF RequestSendFinalize, Send, Steps, Conclusion, ValidatorState
  <2>2. HandlerOK'
    BY <1>8 DEF RequestSendFinalize, Send
  <2>3. ListCovers'
    BY <1>8 DEF RequestSendFinalize, Send
  <2>4. PollCovers'
    BY <1>8 DEF RequestSendFinalize, Send
  <2>5. SuccessCovers'
    BY <1>8 DEF RequestSendFinalize, Send
  <2> QED
    BY <2>1, <2>2, <2>3, <2>4, <2>5
<1>9. ASSUME NEW w \in Worker, RunCheck(w) PROVE IInv'
  <2>1. TypeOK'
    BY <1>9 DEF RunCheck, Steps, Conclusion, ValidatorState
  <2>2. HandlerOK'
    BY <1>9 DEF RunCheck
  <2>3. ListCovers'
    BY <1>9 DEF RunCheck
  <2>4. PollCovers'
    BY <1>9 DEF RunCheck
  <2>5. SuccessCovers'
    BY <1>9 DEF RunCheck
  <2> QED
    BY <2>1, <2>2, <2>3, <2>4, <2>5
<1>10. ASSUME NEW w \in Worker, FinalizeRead(w) PROVE IInv'
  <2>1. TypeOK'
    BY <1>10 DEF FinalizeRead, Get, Steps, Conclusion, ValidatorState
  <2>2. HandlerOK'
    BY <1>10 DEF FinalizeRead
  <2>3. ListCovers'
    BY <1>10 DEF FinalizeRead
  <2>4. PollCovers'
    BY <1>10 DEF FinalizeRead
  <2>5. SuccessCovers'
    BY <1>10 DEF FinalizeRead
  <2> QED
    BY <2>1, <2>2, <2>3, <2>4, <2>5
<1>11. ASSUME NEW w \in Worker, FinalizeMark(w) PROVE IInv'
  <2>1. TypeOK'
    <3>1. validator' \in [state : ValidatorState, conclusion : Conclusion, by : Exec \cup {NoExec}]
      BY <1>11 DEF FinalizeMark, save, Conclusion, ValidatorState
    <3> QED
      BY <1>11, <3>1 DEF FinalizeMark, Steps
  <2>2. HandlerOK'
    BY <1>11 DEF FinalizeMark
  <2>3. ListCovers'
    BY <1>11 DEF FinalizeMark
  <2>4. PollCovers'
    BY <1>11 DEF FinalizeMark
  <2>5. SuccessCovers'
    BY <1>11 DEF FinalizeMark, save
  <2> QED
    BY <2>1, <2>2, <2>3, <2>4, <2>5
<1>12. ASSUME NEW w \in Worker, FinalizeRequired(w) PROVE IInv'
  <2>1. TypeOK'
    BY <1>12 DEF FinalizeRequired, Steps, Conclusion, ValidatorState
  <2>2. HandlerOK'
    BY <1>12 DEF FinalizeRequired
  <2>3. ListCovers'
    BY <1>12 DEF FinalizeRequired
  <2>4. PollCovers'
    BY <1>12 DEF FinalizeRequired
  <2>5. SuccessCovers'
    BY <1>12 DEF FinalizeRequired
  <2> QED
    BY <2>1, <2>2, <2>3, <2>4, <2>5
<1>13. ASSUME NEW w \in Worker, FinalizeCompleted(w) PROVE IInv'
  <2>1. TypeOK'
    BY <1>13 DEF FinalizeCompleted, missing_checks, completed_checks, failed_check, Steps, Conclusion, ValidatorState
  <2>2. HandlerOK'
    BY <1>13 DEF FinalizeCompleted, missing_checks, completed_checks, failed_check
  <2>3. ListCovers'
    BY <1>13 DEF FinalizeCompleted, missing_checks, completed_checks, failed_check
  <2>4. PollCovers'
    BY <1>13 DEF FinalizeCompleted, missing_checks, completed_checks, failed_check
  <2>5. SuccessCovers'
    BY <1>13 DEF FinalizeCompleted, missing_checks, completed_checks, failed_check
  <2> QED
    BY <2>1, <2>2, <2>3, <2>4, <2>5
<1>14. ASSUME NEW w \in Worker, FinalizeSaveFailure(w) PROVE IInv'
  <2>1. TypeOK'
    <3>1. validator' \in [state : ValidatorState, conclusion : Conclusion, by : Exec \cup {NoExec}]
      BY <1>14 DEF FinalizeSaveFailure, save, Conclusion, ValidatorState
    <3> QED
      BY <1>14, <3>1 DEF FinalizeSaveFailure, Steps
  <2>2. HandlerOK'
    BY <1>14 DEF FinalizeSaveFailure
  <2>3. ListCovers'
    BY <1>14 DEF FinalizeSaveFailure
  <2>4. PollCovers'
    BY <1>14 DEF FinalizeSaveFailure
  <2>5. SuccessCovers'
    BY <1>14 DEF FinalizeSaveFailure, save
  <2> QED
    BY <2>1, <2>2, <2>3, <2>4, <2>5
<1>15. ASSUME NEW w \in Worker, FinalizeMissing(w) PROVE IInv'
  <2>1. TypeOK'
    BY <1>15 DEF FinalizeMissing, Steps, Conclusion, ValidatorState
  <2>2. HandlerOK'
    BY <1>15 DEF FinalizeMissing
  <2>3. ListCovers'
    BY <1>15 DEF FinalizeMissing
  <2>4. PollCovers'
    BY <1>15 DEF FinalizeMissing
  <2>5. SuccessCovers'
    BY <1>15 DEF FinalizeMissing
  <2> QED
    BY <2>1, <2>2, <2>3, <2>4, <2>5
<1>16. ASSUME NEW w \in Worker, FinalizeResend(w) PROVE IInv'
  <2>1. TypeOK'
    BY <1>16 DEF FinalizeResend, Send, Steps, Conclusion, ValidatorState
  <2>2. HandlerOK'
    BY <1>16 DEF FinalizeResend, Send
  <2>3. ListCovers'
    BY <1>16 DEF FinalizeResend, Send
  <2>4. PollCovers'
    BY <1>16 DEF FinalizeResend, Send
  <2>5. SuccessCovers'
    BY <1>16 DEF FinalizeResend, Send
  <2> QED
    BY <2>1, <2>2, <2>3, <2>4, <2>5
<1>17. ASSUME NEW w \in Worker, FinalizeFinish(w) PROVE IInv'
  <2>1. TypeOK'
    <3>1. validator' \in [state : ValidatorState, conclusion : Conclusion, by : Exec \cup {NoExec}]
      BY <1>17 DEF FinalizeFinish, final_conclusion, save, Conclusion, ValidatorState
    <3> QED
      BY <1>17, <3>1 DEF FinalizeFinish, Steps
  <2>2. HandlerOK'
    BY <1>17 DEF FinalizeFinish, final_conclusion
  <2>3. ListCovers'
    BY <1>17 DEF FinalizeFinish, final_conclusion
  <2>4. PollCovers'
    BY <1>17 DEF FinalizeFinish, final_conclusion
  <2>5. SuccessCovers'
    BY <1>17 DEF FinalizeFinish, final_conclusion, save
  <2> QED
    BY <2>1, <2>2, <2>3, <2>4, <2>5
<1>18. CASE Rerun
  <2>1. TypeOK'
    BY <1>18 DEF Rerun, Send
  <2>2. HandlerOK' /\ PollCovers' /\ SuccessCovers'
    BY <1>18 DEF Rerun
  <2>3. ListCovers'
    BY <1>18 DEF Rerun, Send
  <2> QED
    BY <2>1, <2>2, <2>3
<1>21. ASSUME NEW w \in Worker, RequestFetch(w) PROVE IInv'
  <2>1. TypeOK'
    BY <1>21 DEF RequestFetch, Get, Steps, Conclusion, ValidatorState
  <2>2. HandlerOK'
    BY <1>21 DEF RequestFetch
  <2>3. ListCovers'
    BY <1>21 DEF RequestFetch
  <2>4. PollCovers' /\ SuccessCovers'
    BY <1>21 DEF RequestFetch
  <2> QED
    BY <2>1, <2>2, <2>3, <2>4
<1>19. ASSUME NEW e \in Exec, DeadlinePasses(e) PROVE IInv'
  BY <1>19 DEF DeadlinePasses
<1>20. CASE UNCHANGED vars
  BY <1>20
<1> QED
  BY <1>1, <1>2, <1>3, <1>4, <1>5, <1>6, <1>7, <1>8, <1>9, <1>10, <1>11, <1>12, <1>13, <1>14, <1>15, <1>16, <1>17, <1>18, <1>19, <1>20, <1>21 DEF Next, Handle

(* Every reachable state is well typed.                                      *)
THEOREM TypeCorrect == Spec => []TypeOK
<1>1. IInv => TypeOK
  BY DEF IInv
<1> QED
  BY <1>1, InitIInv, NextIInv, PTL DEF Spec

(* A validator whose conclusion is success has a result for every check of   *)
(* the execution whose finaliser wrote it, also when that finaliser or a     *)
(* later one left out what it took to be there.                              *)
THEOREM SuccessIsCompleteAlways == Spec => []SuccessIsComplete
<1>1. IInv => SuccessIsComplete
  BY DEF IInv, TypeOK, SuccessCovers, Covered, SuccessIsComplete, completed_checks
<1> QED
  BY <1>1, InitIInv, NextIInv, PTL DEF Spec

-----------------------------------------------------------------------------
(* ValidatorExecution implements ValidatorJob, and no check is lost.  Every  *)
(* message in flight belongs to an execution that was requested (Requested), *)
(* and a poll that saves a failure has seen a result (FailureSeen); with the *)
(* invariant above, which covers the checks of a success, every step of a    *)
(* handler is a step of the job or leaves what shows of it unchanged.        *)

(* The messages that carry an execution id.                                  *)
TargetMsg == CheckMsg \cup FinalizeMsg

(* No handler works for an execution that no request has drawn.              *)
Requested ==
  /\ \A m \in TargetMsg : queue[m] > 0 => m.e \in used
  /\ \A w \in Worker : msg[w] \in TargetMsg => msg[w].e \in used
  /\ \A w \in Worker : pc[w] \in {"store_checks", "send"} => exec[w] \in used

(* Some check of the execution has been recorded.                            *)
HasResult(e) == \E c \in Check : result[e][c] # "none"

(* A poll saves a failure only for an execution with a result.               *)
FailureSeen ==
  \A w \in Worker : pc[w] = "save_failure" => HasResult(msg[w].e)

USE CheckAssumption, NoExecAssumption, BoundAssumption

(* A retried message keeps its type, its execution and its check.            *)
LEMMA RetryKeepsTarget ==
  ASSUME NEW m \in Msg, ~reached_max_retries(m)
  PROVE  LET r == [m EXCEPT !.retry = @ + 1]
         IN  /\ r \in Msg
             /\ r \in TargetMsg => m \in TargetMsg /\ r.e = m.e
             /\ m \in CheckMsg => r \in CheckMsg /\ r.e = m.e /\ r.c = m.c
<1>1. m.retry \in 0..RetryLimit /\ m.retry + 1 \in 0..RetryLimit
  BY MsgTypes DEF reached_max_retries, RetryLimit
<1>2. CASE m \in RequestMsg
  BY <1>1, <1>2 DEF RequestMsg, CheckMsg, FinalizeMsg, Msg, TargetMsg
<1>3. CASE m \in CheckMsg
  BY <1>1, <1>3 DEF RequestMsg, CheckMsg, FinalizeMsg, Msg, TargetMsg
<1>4. CASE m \in FinalizeMsg
  BY <1>1, <1>4 DEF RequestMsg, CheckMsg, FinalizeMsg, Msg, TargetMsg
<1> QED
  BY <1>2, <1>3, <1>4 DEF Msg

(* What a message that reaches its last retry leaves of the results.         *)
LEMMA GivenUp ==
  ASSUME TypeOK, NEW m \in Msg, set_check_status(m, "failure")
  PROVE  /\ \A e \in Exec, c \in Check : result[e][c] # "none" => result'[e][c] # "none"
         /\ m \in CheckMsg /\ m.c \in MetaCheck => result'[m.e][m.c] # "none"
         /\ \/ result' = result
            \/ m \in CheckMsg /\ result' = [result EXCEPT ![m.e][m.c] = "failure"]
<1>1. CASE m.type = "check" /\ m.c \in MetaCheck
  <2>1. m \in CheckMsg /\ m.e \in Exec /\ m.c \in Check
    BY <1>1, MsgTypes
  <2>2. result' = [result EXCEPT ![m.e][m.c] = "failure"]
    BY <1>1 DEF set_check_status
  <2> QED
    BY <2>1, <2>2 DEF TypeOK
<1>2. CASE ~(m.type = "check" /\ m.c \in MetaCheck)
  BY <1>2, MsgTypes DEF set_check_status
<1> QED
  BY <1>1, <1>2

-----------------------------------------------------------------------------
(* The three invariants hold before the first request is handled.            *)
LEMMA InitRequested == Init => Requested /\ FailureSeen /\ CheckAccountedFor
BY MsgTypes, NewMessages DEF Init, Requested, FailureSeen, CheckAccountedFor, TargetMsg, Msg

(* Every handler passes on the execution of the message it was given, and a  *)
(* redelivered or retried message still belongs to the one it was sent for.  *)
LEMMA NextRequested == IInv /\ Requested /\ [Next]_vars => Requested'
<1> SUFFICES ASSUME IInv, Requested, [Next]_vars PROVE Requested'
  OBVIOUS
<1> USE MsgTypes, NewMessages DEF IInv, TypeOK, HandlerOK, Requested, TargetMsg, RequestSteps, FinalizeSteps,
         vars, finaliserVars, requestVars, cacheVars, handlerVars, boundVars
<1>1. ASSUME NEW w \in Worker, Receive(w) PROVE Requested'
  BY <1>1 DEF Receive
<1>2. ASSUME NEW w \in Worker, Ack(w) PROVE Requested'
  BY <1>2 DEF Ack, DropLocals
<1>3. ASSUME NEW w \in Worker, Crash(w) PROVE Requested'
  BY <1>3 DEF Crash, DropLocals, Send
<1>4. ASSUME NEW w \in Worker, HandlerException(w) PROVE Requested'
  <2> DEFINE r == [msg[w] EXCEPT !.retry = @ + 1]
  <2>1. msg[w] \in Msg /\ pc' = [pc EXCEPT ![w] = "ack"]
    BY <1>4 DEF HandlerException
  <2>2. CASE reached_max_retries(msg[w])
    <3>1. set_check_status(msg[w], "failure") /\ queue' = queue
      BY <1>4, <2>2 DEF HandlerException
    <3>2. /\ \A e \in Exec, c \in Check : result[e][c] # "none" => result'[e][c] # "none"
          /\ msg[w] \in CheckMsg /\ msg[w].c \in MetaCheck => result'[msg[w].e][msg[w].c] # "none"
      BY <2>1, <3>1, GivenUp
    <3> QED
      BY <1>4, <2>1, <3>1, <3>2 DEF HandlerException
  <2>3. CASE ~reached_max_retries(msg[w])
    <3>1. /\ r \in Msg
          /\ r \in TargetMsg => msg[w] \in TargetMsg /\ r.e = msg[w].e
          /\ msg[w] \in CheckMsg => r \in CheckMsg /\ r.e = msg[w].e /\ r.c = msg[w].c
      BY <2>1, <2>3, RetryKeepsTarget
    <3>2. queue' = [queue EXCEPT ![r] = @ + 1] /\ result' = result
      BY <1>4, <2>3 DEF HandlerException, Send
    <3> HIDE DEF r
    <3> QED
      BY <1>4, <2>1, <3>1, <3>2 DEF HandlerException
  <2> QED
    BY <2>2, <2>3
<1>5. ASSUME NEW w \in Worker, RequestReset(w) PROVE Requested'
  BY <1>5 DEF RequestReset
<1>6. ASSUME NEW w \in Worker, RequestStoreChecks(w) PROVE Requested'
  BY <1>6 DEF RequestStoreChecks
<1>7. ASSUME NEW w \in Worker, RequestSendCheck(w) PROVE Requested'
  <2>1. PICK x \in unsent[w] : queue' = [queue EXCEPT ![check_message(exec[w], x)] = @ + 1]
    BY <1>7 DEF RequestSendCheck, Send
  <2>2. x \in Check /\ exec[w] \in Exec /\ exec[w] \in used
        /\ check_message(exec[w], x) \in CheckMsg /\ check_message(exec[w], x).e = exec[w]
    BY <1>7 DEF RequestSendCheck, check_message
  <2> QED
    BY <1>7, <2>1, <2>2 DEF RequestSendCheck
<1>8. ASSUME NEW w \in Worker, RequestSendFinalize(w) PROVE Requested'
  BY <1>8 DEF RequestSendFinalize, Send
<1>9. ASSUME NEW w \in Worker, RunCheck(w) PROVE Requested'
  BY <1>9 DEF RunCheck
<1>10. ASSUME NEW w \in Worker, FinalizeRead(w) PROVE Requested'
  BY <1>10 DEF FinalizeRead
<1>11. ASSUME NEW w \in Worker, FinalizeMark(w) PROVE Requested'
  BY <1>11 DEF FinalizeMark
<1>12. ASSUME NEW w \in Worker, FinalizeRequired(w) PROVE Requested'
  BY <1>12 DEF FinalizeRequired
<1>13. ASSUME NEW w \in Worker, FinalizeCompleted(w) PROVE Requested'
  BY <1>13 DEF FinalizeCompleted, missing_checks, completed_checks, failed_check
<1>14. ASSUME NEW w \in Worker, FinalizeSaveFailure(w) PROVE Requested'
  BY <1>14 DEF FinalizeSaveFailure
<1>15. ASSUME NEW w \in Worker, FinalizeMissing(w) PROVE Requested'
  BY <1>15 DEF FinalizeMissing
<1>16. ASSUME NEW w \in Worker, FinalizeResend(w) PROVE Requested'
  BY <1>16 DEF FinalizeResend, Send
<1>17. ASSUME NEW w \in Worker, FinalizeFinish(w) PROVE Requested'
  BY <1>17 DEF FinalizeFinish, final_conclusion
<1>18. CASE Rerun
  BY <1>18 DEF Rerun, Send
<1>21. ASSUME NEW w \in Worker, RequestFetch(w) PROVE Requested'
  BY <1>21 DEF RequestFetch
<1>19. ASSUME NEW e \in Exec, DeadlinePasses(e) PROVE Requested'
  BY <1>19 DEF DeadlinePasses
<1>20. CASE UNCHANGED vars
  BY <1>20
<1> QED
  BY <1>1, <1>2, <1>3, <1>4, <1>5, <1>6, <1>7, <1>8, <1>9, <1>10, <1>11, <1>12, <1>13, <1>14, <1>15, <1>16, <1>17, <1>18, <1>19, <1>20, <1>21 DEF Next, Handle

(* A result stays.                                                           *)
LEMMA ResultsStay ==
  IInv /\ [Next]_vars =>
    \A e \in Exec, c \in Check : result[e][c] # "none" => result'[e][c] # "none"
<1> SUFFICES ASSUME IInv, [Next]_vars
             PROVE  \A e \in Exec, c \in Check : result[e][c] # "none" => result'[e][c] # "none"
  OBVIOUS
<1> USE DEF IInv, HandlerOK, vars, finaliserVars, requestVars, cacheVars, handlerVars, boundVars
<1>1. CASE result' = result
  BY <1>1
<1>2. ASSUME NEW w \in Worker, RunCheck(w)
      PROVE  \A e \in Exec, c \in Check : result[e][c] # "none" => result'[e][c] # "none"
  BY <1>2, MsgTypes DEF RunCheck, TypeOK
<1>3. ASSUME NEW w \in Worker, HandlerException(w)
      PROVE  \A e \in Exec, c \in Check : result[e][c] # "none" => result'[e][c] # "none"
  <2>1. msg[w] \in Msg
    BY <1>3 DEF HandlerException
  <2>2. result' = result \/ set_check_status(msg[w], "failure")
    BY <1>3 DEF HandlerException
  <2> QED
    BY <2>1, <2>2, GivenUp
<1>4. \/ result' = result
      \/ \E w \in Worker : RunCheck(w) \/ HandlerException(w)
  BY DEF Next, Handle, Rerun, Receive, Ack, Crash, RequestFetch, RequestReset, RequestStoreChecks,
         RequestSendCheck, RequestSendFinalize, FinalizeRead, FinalizeMark, FinalizeRequired,
         FinalizeCompleted, FinalizeSaveFailure, FinalizeMissing, FinalizeResend, FinalizeFinish,
         DeadlinePasses
<1> QED
  BY <1>1, <1>2, <1>3, <1>4

(* A result is never taken back, so what a poll has seen is still there when *)
(* it saves.                                                                 *)
LEMMA NextFailureSeen == IInv /\ FailureSeen /\ [Next]_vars => FailureSeen'
<1> SUFFICES ASSUME IInv, FailureSeen, [Next]_vars, NEW v \in Worker, pc'[v] = "save_failure"
             PROVE  HasResult(msg[v].e)'
  BY DEF FailureSeen
<1> USE MsgTypes DEF IInv, TypeOK, HandlerOK, FinalizeSteps,
        vars, finaliserVars, requestVars, cacheVars, handlerVars, boundVars
<1>1. \A e \in Exec : HasResult(e) => HasResult(e)'
  BY ResultsStay DEF HasResult
<1>2. pc[v] = "save_failure" => msg[v].e \in Exec /\ HasResult(msg[v].e)
  BY DEF FailureSeen
<1>3. ASSUME FinalizeCompleted(v) PROVE HasResult(msg[v].e)'
  BY <1>3 DEF FinalizeCompleted, failed_check, completed_checks, HasResult
<1>4. FinalizeCompleted(v) \/ (pc'[v] = pc[v] /\ msg'[v] = msg[v])
  <2>1. ASSUME NEW w \in Worker, Receive(w) \/ Ack(w) \/ Crash(w) \/ HandlerException(w)
        PROVE  pc'[v] = pc[v] /\ msg'[v] = msg[v]
    BY <2>1 DEF Receive, Ack, Crash, HandlerException
  <2>2. ASSUME NEW w \in Worker, RequestFetch(w) \/ RequestReset(w) \/ RequestStoreChecks(w)
                                 \/ RequestSendCheck(w)
                                 \/ RequestSendFinalize(w) \/ RunCheck(w)
        PROVE  pc'[v] = pc[v] /\ msg'[v] = msg[v]
    BY <2>2 DEF RequestFetch, RequestReset, RequestStoreChecks, RequestSendCheck, RequestSendFinalize, RunCheck
  <2>3. ASSUME NEW w \in Worker, FinalizeRead(w) \/ FinalizeMark(w) \/ FinalizeRequired(w)
                                 \/ FinalizeSaveFailure(w) \/ FinalizeMissing(w)
                                 \/ FinalizeResend(w) \/ FinalizeFinish(w)
        PROVE  pc'[v] = pc[v] /\ msg'[v] = msg[v]
    BY <2>3 DEF FinalizeRead, FinalizeMark, FinalizeRequired, FinalizeSaveFailure,
                FinalizeMissing, FinalizeResend, FinalizeFinish
  <2>4. ASSUME NEW w \in Worker, w # v, FinalizeCompleted(w)
        PROVE  pc'[v] = pc[v] /\ msg'[v] = msg[v]
    BY <2>4 DEF FinalizeCompleted
  <2>5. Rerun \/ UNCHANGED vars \/ (\E e \in Exec : DeadlinePasses(e)) => pc' = pc /\ msg' = msg
    BY DEF Rerun, DeadlinePasses
  <2> QED
    BY <2>1, <2>2, <2>3, <2>4, <2>5 DEF Next, Handle
<1> QED
  BY <1>1, <1>2, <1>3, <1>4

(* A consumer that runs a check.                                             *)
Running(w) == pc[w] \notin {"idle", "ack"} /\ msg[w].type = "check"

(* A step that takes no check message from the queue and interrupts no check *)
(* loses none.                                                               *)
LEMMA InFlightStays ==
  ASSUME NEW e \in Exec, NEW c \in Check, InFlight(e, c),
         \A m \in CheckMsg : queue[m] > 0 => queue'[m] > 0,
         \A w \in Worker : Running(w) => Running(w)' /\ msg'[w] = msg[w]
  PROVE  InFlight(e, c)'
BY DEF InFlight, Running

(* A check message that leaves the queue is run, handed back by a crash,     *)
(* sent again by a retry, or given up with a recorded failure.               *)
LEMMA NextAccounted == IInv /\ CheckAccountedFor /\ [Next]_vars => CheckAccountedFor'
<1> SUFFICES ASSUME IInv, CheckAccountedFor, [Next]_vars,
                    NEW e \in Exec, NEW c \in MetaCheck, <<e, c>> \in sent'
             PROVE  result'[e][c] # "none" \/ InFlight(e, c)'
  BY DEF CheckAccountedFor
<1>0. c \in Check /\ (<<e, c>> \in sent => result[e][c] # "none" \/ InFlight(e, c))
  BY DEF CheckAccountedFor
<1> DEFINE Goal == result'[e][c] # "none" \/ InFlight(e, c)'
           QueueGrows == \A m \in CheckMsg : queue[m] > 0 => queue'[m] > 0
           RunningOn == \A v \in Worker : Running(v) => Running(v)' /\ msg'[v] = msg[v]
           Kept == result[e][c] # "none" => result'[e][c] # "none"
<1>q. ASSUME sent' = sent, Kept, QueueGrows, RunningOn PROVE Goal
  BY <1>0, <1>q, InFlightStays
<1> DEFINE Target(m) == m.type = "check" /\ m.e = e /\ m.c = c
<1>m. ASSUME NEW m \in CheckMsg, m.e = e, m.c = c, queue'[m] > 0 PROVE Goal
  BY <1>m DEF InFlight
<1>w. ASSUME NEW v \in Worker, pc'[v] \notin {"idle", "ack"}, Target(msg'[v]) PROVE Goal
  BY <1>w DEF InFlight
<1>f. ASSUME <<e, c>> \in sent, Kept,
             \A m \in CheckMsg : m.e = e /\ m.c = c /\ queue[m] > 0 => Goal,
             \A v \in Worker : pc[v] \notin {"idle", "ack"} /\ Target(msg[v]) => Goal
      PROVE  Goal
  BY <1>0, <1>f DEF InFlight
<1> HIDE DEF Goal
<1> USE MsgTypes, NewMessages DEF IInv, TypeOK, HandlerOK, RequestSteps, FinalizeSteps, Running,
         vars, finaliserVars, requestVars, cacheVars, handlerVars, boundVars
<1>1. ASSUME NEW w \in Worker, Receive(w) PROVE Goal
  <2>1. PICK m \in Msg : /\ queue[m] > 0
                         /\ queue' = [queue EXCEPT ![m] = @ - 1]
                         /\ msg' = [msg EXCEPT ![w] = m]
                         /\ pc' = [pc EXCEPT ![w] = CASE m.type = "request" -> "fetch"
                                                      [] m.type = "check" -> "check"
                                                      [] m.type = "finalize" -> "read"]
    BY <1>1 DEF Receive
  <2>2. pc[w] = "idle" /\ sent' = sent /\ result' = result
    BY <1>1 DEF Receive
  <2>3. RunningOn
    BY <2>1, <2>2
  <2>4. CASE m \in CheckMsg /\ m.e = e /\ m.c = c
    <3>1. pc'[w] = "check" /\ msg'[w] = m
      BY <2>1, <2>4
    <3> QED
      BY <2>4, <3>1 DEF InFlight, Goal
  <2>5. CASE m \in CheckMsg /\ ~(m.e = e /\ m.c = c)
    <3>1. \A x \in CheckMsg : x.e = e /\ x.c = c => queue'[x] = queue[x]
      BY <2>1, <2>5
    <3>2. \A x \in CheckMsg : x.e = e /\ x.c = c /\ queue[x] > 0 => Goal
      BY <3>1, <1>m
    <3>3. \A v \in Worker : pc[v] \notin {"idle", "ack"} /\ Target(msg[v]) => Goal
      BY <2>3, <1>w
    <3>4. Kept
      BY <2>2
    <3> QED
      BY <1>f, <2>2, <3>2, <3>3, <3>4
  <2>6. CASE m \notin CheckMsg
    <3>1. QueueGrows
      BY <2>1, <2>6
    <3> QED
      BY <1>q, <2>2, <2>3, <3>1
  <2> QED
    BY <2>4, <2>5, <2>6
<1>2. ASSUME NEW w \in Worker, Crash(w) PROVE Goal
  <2>1. msg[w] \in Msg /\ queue' = [queue EXCEPT ![msg[w]] = @ + 1] /\ sent' = sent /\ result' = result
    BY <1>2 DEF Crash, Send
  <2>2. QueueGrows /\ queue'[msg[w]] > 0
    BY <2>1
  <2>3. \A v \in Worker : v # w => pc'[v] = pc[v] /\ msg'[v] = msg[v]
    BY <1>2 DEF Crash
  <2>4. \A m \in CheckMsg : m.e = e /\ m.c = c /\ queue[m] > 0 => Goal
    BY <2>2, <1>m
  <2>5. \A v \in Worker : pc[v] \notin {"idle", "ack"} /\ Target(msg[v]) => Goal
    <3> SUFFICES ASSUME NEW v \in Worker, pc[v] \notin {"idle", "ack"}, Target(msg[v]) PROVE Goal
      OBVIOUS
    <3>1. CASE v = w
      <4>1. msg[w] \in CheckMsg /\ msg[w].e = e /\ msg[w].c = c
        BY <2>1, <3>1
      <4> QED
        BY <2>2, <4>1, <1>m
    <3>2. CASE v # w
      BY <2>3, <3>2, <1>w
    <3> QED
      BY <3>1, <3>2
  <2>6. <<e, c>> \in sent /\ Kept
    BY <2>1
  <2> QED
    BY <2>4, <2>5, <2>6, <1>f
<1>3. ASSUME NEW w \in Worker, HandlerException(w) PROVE Goal
  <2> DEFINE r == [msg[w] EXCEPT !.retry = @ + 1]
  <2>1. msg[w] \in Msg /\ sent' = sent
        /\ \A v \in Worker : v # w => pc'[v] = pc[v] /\ msg'[v] = msg[v]
    BY <1>3 DEF HandlerException
  <2>2. CASE reached_max_retries(msg[w])
    <3>1. set_check_status(msg[w], "failure") /\ queue' = queue
      BY <1>3, <2>2 DEF HandlerException
    <3>2. /\ \A y \in Exec, x \in Check : result[y][x] # "none" => result'[y][x] # "none"
          /\ msg[w] \in CheckMsg /\ msg[w].c \in MetaCheck => result'[msg[w].e][msg[w].c] # "none"
      BY ONLY <2>1, <3>1, GivenUp, IInv DEF IInv
    <3>3. Kept
      BY <1>0, <3>2
    <3>4. \A m \in CheckMsg : m.e = e /\ m.c = c /\ queue[m] > 0 => Goal
      BY <3>1, <1>m
    <3>5. \A v \in Worker : pc[v] \notin {"idle", "ack"} /\ Target(msg[v]) => Goal
      <4>1. ASSUME Target(msg[w]) PROVE Goal
        <5>1. msg[w] \in CheckMsg
          BY <2>1, <4>1
        <5> QED
          BY <3>2, <4>1, <5>1 DEF Goal
      <4> QED
        BY <2>1, <4>1, <1>w
    <3> QED
      BY <1>f, <2>1, <3>3, <3>4, <3>5
  <2>3. CASE ~reached_max_retries(msg[w])
    <3>1. /\ r \in Msg
          /\ msg[w] \in CheckMsg => r \in CheckMsg /\ r.e = msg[w].e /\ r.c = msg[w].c
      BY <2>1, <2>3, RetryKeepsTarget
    <3>2. queue' = [queue EXCEPT ![r] = @ + 1] /\ result' = result
      BY <1>3, <2>3 DEF HandlerException, Send
    <3> HIDE DEF r
    <3>3. QueueGrows /\ queue'[r] > 0
      BY <3>1, <3>2
    <3>4. \A m \in CheckMsg : m.e = e /\ m.c = c /\ queue[m] > 0 => Goal
      BY <3>3, <1>m
    <3>5. \A v \in Worker : pc[v] \notin {"idle", "ack"} /\ Target(msg[v]) => Goal
      <4>1. ASSUME Target(msg[w]) PROVE Goal
        <5>1. msg[w] \in CheckMsg
          BY <2>1, <4>1
        <5> QED
          BY <3>1, <3>3, <4>1, <5>1, <1>m
      <4> QED
        BY <2>1, <4>1, <1>w
    <3>6. Kept
      BY <3>2
    <3> QED
      BY <1>f, <2>1, <3>4, <3>5, <3>6
  <2> QED
    BY <2>2, <2>3
<1>4. ASSUME NEW w \in Worker, RequestSendCheck(w) PROVE Goal
  <2>1. PICK x \in unsent[w] : /\ queue' = [queue EXCEPT ![check_message(exec[w], x)] = @ + 1]
                               /\ sent' = sent \cup {<<exec[w], x>>}
    BY <1>4 DEF RequestSendCheck, Send
  <2>2. x \in Check /\ exec[w] \in Exec /\ check_message(exec[w], x) \in CheckMsg
        /\ check_message(exec[w], x).e = exec[w] /\ check_message(exec[w], x).c = x
    BY <1>4 DEF RequestSendCheck, check_message
  <2>3. QueueGrows /\ queue'[check_message(exec[w], x)] > 0
    BY <2>1, <2>2
  <2>4. RunningOn /\ result' = result
    BY <1>4 DEF RequestSendCheck
  <2>5. CASE <<e, c>> \in sent
    BY <1>0, <2>3, <2>4, <2>5, InFlightStays DEF Goal
  <2>6. CASE e = exec[w] /\ c = x
    BY <2>2, <2>3, <2>6 DEF InFlight, Goal
  <2> QED
    BY <2>1, <2>5, <2>6
<1>5. ASSUME NEW w \in Worker, RunCheck(w) PROVE Goal
  <2>1. PICK k \in {"success", "failure"} : result' = [result EXCEPT ![msg[w].e][msg[w].c] = k]
    BY <1>5 DEF RunCheck
  <2>2. msg[w] \in CheckMsg /\ sent' = sent /\ queue' = queue
        /\ \A v \in Worker : v # w => pc'[v] = pc[v] /\ msg'[v] = msg[v]
    BY <1>5 DEF RunCheck
  <2>3. Kept /\ (msg[w].e = e /\ msg[w].c = c => result'[e][c] # "none")
    BY <1>0, <2>1, <2>2
  <2>4. \A m \in CheckMsg : m.e = e /\ m.c = c /\ queue[m] > 0 => Goal
    BY <2>2, <1>m
  <2>5. \A v \in Worker : pc[v] \notin {"idle", "ack"} /\ Target(msg[v]) => Goal
    <3>1. Target(msg[w]) => Goal
      BY <2>3 DEF Goal
    <3> QED
      BY <2>2, <3>1, <1>w
  <2> QED
    BY <1>f, <2>2, <2>3, <2>4, <2>5
<1>6. ASSUME NEW w \in Worker, Ack(w) PROVE Goal
  BY <1>6, <1>q DEF Ack, DropLocals
<1>7. ASSUME NEW w \in Worker, RequestReset(w) PROVE Goal
  BY <1>7, <1>q DEF RequestReset
<1>8. ASSUME NEW w \in Worker, RequestStoreChecks(w) PROVE Goal
  BY <1>8, <1>q DEF RequestStoreChecks
<1>9. ASSUME NEW w \in Worker, RequestSendFinalize(w) PROVE Goal
  BY <1>9, <1>q DEF RequestSendFinalize, Send
<1>10. ASSUME NEW w \in Worker, FinalizeRead(w) PROVE Goal
  BY <1>10, <1>q DEF FinalizeRead
<1>11. ASSUME NEW w \in Worker, FinalizeMark(w) PROVE Goal
  BY <1>11, <1>q DEF FinalizeMark
<1>12. ASSUME NEW w \in Worker, FinalizeRequired(w) PROVE Goal
  BY <1>12, <1>q DEF FinalizeRequired
<1>13. ASSUME NEW w \in Worker, FinalizeCompleted(w) PROVE Goal
  BY <1>13, <1>q DEF FinalizeCompleted, missing_checks, completed_checks, failed_check
<1>14. ASSUME NEW w \in Worker, FinalizeSaveFailure(w) PROVE Goal
  BY <1>14, <1>q DEF FinalizeSaveFailure
<1>15. ASSUME NEW w \in Worker, FinalizeMissing(w) PROVE Goal
  BY <1>15, <1>q DEF FinalizeMissing
<1>16. ASSUME NEW w \in Worker, FinalizeResend(w) PROVE Goal
  BY <1>16, <1>q DEF FinalizeResend, Send
<1>17. ASSUME NEW w \in Worker, FinalizeFinish(w) PROVE Goal
  BY <1>17, <1>q DEF FinalizeFinish, final_conclusion
<1>18. CASE Rerun
  <2>1. queue' = [queue EXCEPT ![request] = @ + 1] /\ sent' = sent /\ result' = result
        /\ pc' = pc /\ msg' = msg
    BY <1>18 DEF Rerun, Send
  <2>2. QueueGrows
    BY <2>1
  <2>3. RunningOn
    BY <2>1
  <2>4. Kept /\ sent' = sent
    BY <2>1
  <2> HIDE DEF QueueGrows, RunningOn, Kept
  <2> QED
    BY <1>q, <2>2, <2>3, <2>4 DEF Goal
<1>21. ASSUME NEW w \in Worker, RequestFetch(w) PROVE Goal
  BY <1>21, <1>q DEF RequestFetch
<1>19. ASSUME NEW x \in Exec, DeadlinePasses(x) PROVE Goal
  BY <1>19, <1>q DEF DeadlinePasses
<1>20. CASE UNCHANGED vars
  <2>1. queue' = queue /\ sent' = sent /\ result' = result /\ pc' = pc /\ msg' = msg
    BY <1>20
  <2>2. QueueGrows
    BY <2>1
  <2>3. RunningOn
    BY <2>1
  <2>4. Kept /\ sent' = sent
    BY <2>1
  <2> HIDE DEF QueueGrows, RunningOn, Kept
  <2> QED
    BY <1>q, <2>2, <2>3, <2>4 DEF Goal
<1> QED
  BY <1>1, <1>2, <1>3, <1>4, <1>5, <1>6, <1>7, <1>8, <1>9, <1>10, <1>11, <1>12, <1>13, <1>14, <1>15, <1>16, <1>17, <1>18, <1>19, <1>20, <1>21 DEF Next, Handle, Goal

(* Every check that was sent has a result or is on its way.                  *)
THEOREM CheckAccountedForAlways == Spec => []CheckAccountedFor
<1> QED
  BY InitIInv, NextIInv, InitRequested, NextAccounted, PTL DEF Spec

-----------------------------------------------------------------------------
(* What a recorded result is to the job: a report, or nothing new.           *)
LEMMA RecordReports ==
  ASSUME TypeOK, NEW e \in used, NEW c \in Check, NEW k \in {"success", "failure"},
         result' = [result EXCEPT ![e][c] = k], validator' = validator, used' = used
  PROVE  [Job!Next]_(Job!vars)
<1>1. e \in Exec /\ result'[e][c] = k
      /\ \A y \in Exec, x \in Check : ~(y = e /\ x = c) => result'[y][x] = result[y][x]
  BY DEF TypeOK
<1>2. /\ completed_checks(e)' = completed_checks(e) \cup {c}
      /\ \A y \in Exec : y # e => completed_checks(y)' = completed_checks(y)
  BY <1>1 DEF completed_checks
<1>3. CASE c \in completed_checks(e)
  <2>1. \A y \in Exec : completed_checks(y)' = completed_checks(y)
    BY <1>2, <1>3
  <2> QED
    BY <2>1 DEF Job!vars
<1>4. CASE c \notin completed_checks(e)
  <2>1. Job!Report(e, c)
    BY <1>1, <1>2, <1>4 DEF Job!Report
  <2> QED
    BY <1>1, <2>1 DEF Job!Next
<1> QED
  BY <1>3, <1>4

(* Each step of a handler is one step of the job or none.                    *)
LEMMA NextJob == IInv /\ Requested /\ FailureSeen /\ [Next]_vars => [Job!Next]_(Job!vars)
<1> SUFFICES ASSUME IInv, Requested, FailureSeen, [Next]_vars PROVE [Job!Next]_(Job!vars)
  OBVIOUS
<1>0. ASSUME validator' = validator, used' = used, result' = result
      PROVE  UNCHANGED Job!vars
  BY <1>0 DEF Job!vars, completed_checks
<1>t. TypeOK /\ HandlerOK /\ PollCovers /\ used \subseteq Exec
      /\ validator = [state |-> validator.state, conclusion |-> validator.conclusion,
                      by |-> validator.by]
  BY DEF IInv, TypeOK
<1>c. result' = result => \A e \in Exec : completed_checks(e)' = completed_checks(e)
  BY DEF completed_checks
<1> USE DEF vars, finaliserVars, requestVars, cacheVars, handlerVars, boundVars
<1>1. ASSUME NEW w \in Worker, RequestReset(w) PROVE Job!Next
  <2>1. PICK e \in Exec \ used : used' = used \cup {e}
    BY <1>1 DEF RequestReset
  <2>2. /\ validator'.state \in {validator.state, "queued"}
        /\ validator'.conclusion \in {validator.conclusion, "unknown"}
        /\ result' = result
    BY <1>1, <1>t DEF RequestReset, save
  <2>3. Job!Request(e)
    BY <2>1, <2>2, <1>c DEF Job!Request, Job!Writes
  <2> QED
    BY <2>3 DEF Job!Next
<1>2. ASSUME NEW w \in Worker, RunCheck(w) PROVE [Job!Next]_(Job!vars)
  <2>1. msg[w] \in CheckMsg
    BY <1>2, <1>t DEF RunCheck, HandlerOK
  <2>2. msg[w].e \in used /\ msg[w].c \in Check
    BY <2>1, MsgTypes DEF Requested, TargetMsg
  <2>3. PICK k \in {"success", "failure"} : result' = [result EXCEPT ![msg[w].e][msg[w].c] = k]
    BY <1>2 DEF RunCheck
  <2>4. validator' = validator /\ used' = used
    BY <1>2 DEF RunCheck
  <2> QED
    BY <1>t, <2>2, <2>3, <2>4, RecordReports
<1>3. ASSUME NEW w \in Worker, HandlerException(w) PROVE [Job!Next]_(Job!vars)
  <2>1. validator' = validator /\ used' = used
        /\ (result' = result \/ set_check_status(msg[w], "failure"))
    BY <1>3 DEF HandlerException
  <2>2. CASE result' = result
    BY <1>0, <2>1, <2>2
  <2>3. CASE result' # result
    <3>1. msg[w] \in Msg
      BY <1>3, <1>t DEF HandlerException, HandlerOK
    <3>2. msg[w] \in CheckMsg /\ result' = [result EXCEPT ![msg[w].e][msg[w].c] = "failure"]
      BY ONLY <1>t, <2>1, <2>3, <3>1, GivenUp
    <3>3. msg[w].e \in used /\ msg[w].c \in Check
      BY <3>2, MsgTypes DEF Requested, TargetMsg
    <3> QED
      BY <1>t, <2>1, <3>2, <3>3, RecordReports
  <2> QED
    BY <2>2, <2>3
<1>4. ASSUME NEW w \in Worker, FinalizeMark(w) PROVE [Job!Next]_(Job!vars)
  <2>1. msg[w].e \in used
    BY <1>4, <1>t, MsgTypes DEF FinalizeMark, HandlerOK, FinalizeSteps, Requested, TargetMsg
  <2>2. validator'.state \in {validator.state, "in_progress"}
        /\ validator'.conclusion = validator.conclusion /\ result' = result /\ used' = used
    BY <1>4, <1>t DEF FinalizeMark, save
  <2>3. CASE validator'.state = validator.state
    BY <2>2, <2>3, <1>c DEF Job!vars
  <2>4. CASE validator'.state = "in_progress"
    <3>1. Job!Wait
      BY <2>1, <2>2, <2>4, <1>c DEF Job!Wait
    <3> QED
      BY <3>1 DEF Job!Next
  <2> QED
    BY <2>2, <2>3, <2>4
<1>5. ASSUME NEW w \in Worker, FinalizeSaveFailure(w) PROVE [Job!Next]_(Job!vars)
  <2>1. msg[w].e \in used /\ completed_checks(msg[w].e) # {}
    BY <1>5, <1>t, MsgTypes DEF FinalizeSaveFailure, HandlerOK, FinalizeSteps, Requested, TargetMsg,
       FailureSeen, HasResult, completed_checks
  <2>2. /\ validator'.state \in {validator.state, "in_progress"}
        /\ validator'.conclusion \in {validator.conclusion, "failure"}
        /\ result' = result /\ used' = used
    BY <1>5, <1>t DEF FinalizeSaveFailure, save
  <2>3. CASE validator'.conclusion = "failure"
    <3>1. Job!Fail
      BY <1>t, <2>1, <2>2, <2>3, <1>c DEF Job!Fail, Job!Writes
    <3> QED
      BY <3>1 DEF Job!Next
  <2>4. CASE validator'.conclusion = validator.conclusion /\ validator'.state = "in_progress"
    <3>1. Job!Wait
      BY <2>1, <2>2, <2>4, <1>c DEF Job!Wait
    <3> QED
      BY <3>1 DEF Job!Next
  <2>5. CASE validator'.conclusion = validator.conclusion /\ validator'.state = validator.state
    BY <2>2, <2>5, <1>c DEF Job!vars
  <2> QED
    BY <2>2, <2>3, <2>4, <2>5
<1>6. ASSUME NEW w \in Worker, FinalizeFinish(w) PROVE Job!Next
  <2>1. msg[w].e \in used /\ msg[w].e \in Exec
    BY <1>6, <1>t, MsgTypes DEF FinalizeFinish, HandlerOK, FinalizeSteps, Requested, TargetMsg
  <2>2. /\ validator'.state \in {validator.state, "completed"}
        /\ validator'.conclusion \in {validator.conclusion, final_conclusion(w)}
        /\ result' = result /\ used' = used
    BY <1>6 DEF FinalizeFinish, save
  <2>3. \/ final_conclusion(w) = "failure"
        \/ final_conclusion(w) = "success" /\ completed_checks(msg[w].e) = Check
    BY <1>6, <1>t DEF FinalizeFinish, final_conclusion, PollCovers, Covered, completed_checks
  <2>4. Job!Conclude(msg[w].e)
    BY <2>1, <2>2, <2>3, <1>c DEF Job!Conclude, Job!Writes
  <2> QED
    BY <2>1, <2>4 DEF Job!Next
<1>7. ASSUME NEW w \in Worker,
             \/ Receive(w) \/ Ack(w) \/ Crash(w)
             \/ RequestFetch(w) \/ RequestStoreChecks(w)
             \/ RequestSendCheck(w) \/ RequestSendFinalize(w)
             \/ FinalizeRead(w) \/ FinalizeRequired(w) \/ FinalizeCompleted(w)
             \/ FinalizeMissing(w) \/ FinalizeResend(w)
      PROVE  UNCHANGED Job!vars
  <2>1. validator' = validator /\ used' = used /\ result' = result
    BY <1>7 DEF Receive, Ack, Crash, RequestFetch, RequestStoreChecks, RequestSendCheck, RequestSendFinalize,
                FinalizeRead, FinalizeRequired, FinalizeCompleted, FinalizeMissing, FinalizeResend
  <2> QED
    BY <1>0, <2>1
<1>8. CASE Rerun \/ (\E e \in Exec : DeadlinePasses(e)) \/ UNCHANGED vars
  <2>1. validator' = validator /\ used' = used /\ result' = result
    BY <1>8 DEF Rerun, DeadlinePasses
  <2> QED
    BY <1>0, <2>1
<1> QED
  BY <1>1, <1>2, <1>3, <1>4, <1>5, <1>6, <1>7, <1>8 DEF Next, Handle

(* The handlers, with their retries, crashes and overlapping executions,     *)
(* implement the promise of a validator.                                     *)
THEOREM ImplementsJobAlways == Spec => ImplementsJob
<1>1. Init => Job!Init
  BY DEF Init, Job!Init, completed_checks
<1> QED
  BY <1>1, InitIInv, NextIInv, InitRequested, NextRequested, NextFailureSeen, NextJob, PTL
     DEF Spec, ImplementsJob, Job!Spec

-----------------------------------------------------------------------------
(***************************************************************************)
(* Proofs about CoreNodes, for any kinds, any nodes and any bound on the    *)
(* changes: a node has one peer by a relationship that its schema agrees to *)
(* limit, apart from what was written on outdated checks; and a deletion    *)
(* takes what it should, for any kinds whose schema is Separate.  The       *)
(* invariants are about nodes that were deleted too, as a change that was   *)
(* checked earlier may still add a link to them.                            *)
(***************************************************************************)

(* A link is told by its identifier and its two ends, in any order. *)
LEMMA LinkIs ==
  \A x, y, a, b, c, d :
    /\ Link(x, a, b) = Link(y, c, d) <=> x = y /\ ((a = c /\ b = d) \/ (a = d /\ b = c))
    /\ Link(x, a, b).ends = {a, b}
  <1>1. \A a, b, c, d : {a, b} = {c, d} <=> (a = c /\ b = d) \/ (a = d /\ b = c)
    OBVIOUS
  <1>. QED BY <1>1 DEF Link

(* The peers of a node are the other ends of its links. *)
LEMMA PeerIs == \A i, id, j : j \in Peers(i, id) <=> j \in Item /\ j # i /\ Link(id, i, j) \in links
  BY DEF Peers, PeersIn

(* Every link was made from one of its ends by a relationship that may lead *)
(* to the other, and so will be those that are under way.                   *)
Good(c, M) ==
    /\ c.source \in M
    /\ \A r \in DOMAIN c.peers :
          /\ r \in Of(c.source) /\ c.peers[r] \in M /\ c.peers[r] # c.source
          /\ Leads(r, c.peers[r])
          /\ c.op \notin {"create", "update"} => r.cardinality = "many"
Typed(l, M) == \E i, j \in M : \E r \in Of(i) : l = Link(r.identifier, i, j) /\ Leads(r, j)
LinkInv ==
    /\ exists \subseteq made /\ made \subseteq scope /\ scope \subseteq Item
    /\ \A l \in links : Typed(l, made)
    /\ \A c \in pending : Good(c, made)

(* A request that starts is Good, and only adds itself. *)
Starts(i) ==
    /\ \E c : Good(c, made') /\ pending' = pending \cup {c}
    /\ made \subseteq made' /\ made' \subseteq scope
    /\ UNCHANGED <<scope, exists, links, raced>>

LEMMA StartsGood ==
  ASSUME LinkInv, NEW i \in scope, StartCreate(i) \/ StartUpdate(i) \/ StartAdd(i) \/ StartRemove(i)
  PROVE  Starts(i)
  <1>0. scope \subseteq Item /\ exists \subseteq made /\ made \subseteq scope
    BY DEF LinkInv
  <1>1. ASSUME StartCreate(i) PROVE Starts(i)
    <2> DEFINE needed == {r \in Of(i) : ~ r.optional}
    <2>1. PICK peers \in [needed -> exists] :
             /\ Checked([op |-> "create", source |-> i, peers |-> peers, drop |-> {}])
             /\ pending' = pending \cup {[op |-> "create", source |-> i, peers |-> peers, drop |-> {}]}
      BY <1>1 DEF StartCreate, Start
    <2> DEFINE c == [op |-> "create", source |-> i, peers |-> peers, drop |-> {}]
    <2>2. i \notin made /\ made' = made \cup {i} /\ UNCHANGED <<scope, exists, links, raced>>
      BY <1>1 DEF StartCreate
    <2>3. \A r \in needed : r \in Of(i) /\ peers[r] \in exists /\ Valid(r, peers[r])
      BY <2>1 DEF Checked
    <2>4. c.source = i /\ c.peers = peers /\ c.op = "create" /\ DOMAIN peers = needed
      OBVIOUS
    <2> HIDE DEF needed, c
    <2>5. Good(c, made')
      BY <2>2, <2>3, <2>4, <1>0 DEF Good, Valid, Leads
    <2>. QED BY <2>1, <2>2, <2>5, <1>0 DEF Starts, c
  <1>2. ASSUME NEW op \in {"update", "add", "remove"}, NEW r \in Of(i), NEW j \in exists \ {i}, NEW drop,
               Checked([op |-> op, source |-> i, peers |-> [q \in {r} |-> j], drop |-> drop]),
               pending' = pending \cup {[op |-> op, source |-> i, peers |-> [q \in {r} |-> j], drop |-> drop]},
               op # "update" => r.cardinality = "many",
               UNCHANGED <<scope, made, exists, links, raced>>
        PROVE  Starts(i)
    <2> DEFINE peers == [q \in {r} |-> j]
               c == [op |-> op, source |-> i, peers |-> peers, drop |-> drop]
    <2>1. c.source = i /\ c.peers = peers /\ c.op = op /\ DOMAIN peers = {r} /\ peers[r] = j
      OBVIOUS
    <2>2. i \in exists /\ (op = "update" => Valid(r, j)) /\ (op # "update" => Unrelated(i, r, j))
      <3>1. Checked(c)
        BY <1>2
      <3> HIDE DEF c, peers
      <3>2. op # "create"
        OBVIOUS
      <3>. QED BY <3>1, <3>2, <2>1 DEF Checked
    <2>3. Leads(r, j)
      BY <2>2 DEF Valid, Unrelated, Leads
    <2>4. pending' = pending \cup {c}
      BY <1>2
    <2> HIDE DEF c, peers
    <2>5. Good(c, made')
      BY <1>2, <2>1, <2>2, <2>3, <1>0 DEF Good
    <2>. QED BY <1>2, <2>4, <2>5, <1>0 DEF Starts
  <1>3. ASSUME StartUpdate(i) PROVE Starts(i)
    BY <1>2, <1>3 DEF StartUpdate, Start
  <1>4. ASSUME StartAdd(i) PROVE Starts(i)
    BY <1>2, <1>4 DEF StartAdd, Start
  <1>5. ASSUME StartRemove(i) PROVE Starts(i)
    BY <1>2, <1>5 DEF StartRemove, Start
  <1>. QED BY <1>1, <1>3, <1>4, <1>5

(* A request that commits adds the links it is Good for. *)
Writes(c) == WriteCreate(c) \/ WriteUpdate(c) \/ WriteAdd(c) \/ WriteRemove(c)

LEMMA WritesGood ==
  ASSUME LinkInv, NEW c \in pending, Writes(c)
  PROVE  /\ Good(c, made) /\ \A l \in Added(c) : Typed(l, made)
         /\ links' = (links \ c.drop) \cup Added(c) /\ pending' \subseteq pending
         /\ raced' = IF Checked(c) THEN raced \ Added(c) ELSE raced \cup Added(c)
         /\ made' = made /\ scope' = scope /\ exists \subseteq exists' /\ exists' \subseteq made
  <1>1. Good(c, made)
    BY DEF LinkInv
  <1>2. \A l \in Added(c) : Typed(l, made)
    BY <1>1 DEF Good, Typed, Added
  <1>. QED BY <1>1, <1>2 DEF Writes, WriteCreate, WriteUpdate, WriteAdd, WriteRemove, Write, LinkInv, Good

LEMMA LinkStep ==
  ASSUME LinkInv, [CoreNext]_coreVars
  PROVE  LinkInv'
  <1>0. /\ exists \subseteq made /\ made \subseteq scope /\ scope \subseteq Item
        /\ \A l \in links : Typed(l, made)
        /\ \A c \in pending : Good(c, made)
    BY DEF LinkInv
  <1>s. /\ \A i : Of(i)' = Of(i)
        /\ \A r, j : Leads(r, j)' <=> Leads(r, j)
        /\ \A x, i, j : Link(x, i, j)' = Link(x, i, j)
    BY DEF Of, Schema, Relationships, Leads, IsA, Link
  <1>g. /\ \A l, M, N : M \subseteq N /\ Typed(l, M) => Typed(l, N)
        /\ \A c, M, N : M \subseteq N /\ Good(c, M) => Good(c, N)
    BY DEF Typed, Good
  <1>k. ASSUME made \subseteq made', exists' \subseteq made', made' \subseteq scope', scope' = scope,
               \A l \in links' : l \in links \/ Typed(l, made'),
               \A c \in pending' : c \in pending \/ Good(c, made')
        PROVE  LinkInv'
    <2>1. \A l \in links' : Typed(l, made')
      BY <1>0, <1>g, <1>k
    <2>2. \A c \in pending' : Good(c, made')
      BY <1>0, <1>g, <1>k
    <2>3. exists' \subseteq made' /\ made' \subseteq scope' /\ scope' \subseteq Item
      BY <1>0, <1>k
    <2>4. \A l \in links' : Typed(l, made)'
      BY <2>1, <1>s DEF Typed
    <2>5. \A c \in pending' : Good(c, made)'
      BY <2>2, <1>s DEF Good
    <2>. QED BY <2>3, <2>4, <2>5 DEF LinkInv
  <1>1. ASSUME NEW i \in scope, StartCreate(i) \/ StartUpdate(i) \/ StartAdd(i) \/ StartRemove(i)
        PROVE LinkInv'
    <2>1. Starts(i)
      BY <1>1, StartsGood
    <2>. QED BY <2>1, <1>0, <1>k DEF Starts
  <1>2. ASSUME NEW c \in pending, Writes(c) PROVE LinkInv'
    <2>1. /\ \A l \in Added(c) : Typed(l, made)
          /\ links' \subseteq links \cup Added(c) /\ pending' \subseteq pending
          /\ made' = made /\ scope' = scope /\ exists' \subseteq made
      BY <1>2, WritesGood
    <2>. QED BY <2>1, <1>0, <1>k
  <1>3. ASSUME NEW i \in scope, DeleteItem(i) PROVE LinkInv'
    <2>1. links' \subseteq links /\ exists' \subseteq exists /\ made' = made /\ scope' = scope /\ pending' = pending
      BY <1>3 DEF DeleteItem
    <2>. QED BY <2>1, <1>0, <1>k
  <1>4. CASE UNCHANGED coreVars
    <2>1. links' = links /\ exists' = exists /\ made' = made /\ scope' = scope /\ pending' = pending
      BY <1>4 DEF coreVars
    <2>. QED BY <2>1, <1>0, <1>k
  <1>. QED BY <1>1, <1>2, <1>3, <1>4 DEF CoreNext, Writes

(* Who is limited to one peer by an identifier has one, but for what was    *)
(* written on outdated checks.                                               *)
Limited(i, id) == \E r \in Limits[i] : r.identifier = id
OnePeer(L, i, id) == \A j, k \in PeersIn(L, i, id) : j = k
AllSingle(L) == \A i \in Item : \A id : Limited(i, id) => OnePeer(L, i, id)

LEMMA FewerPeers ==
  ASSUME NEW L, NEW K, K \subseteq L, AllSingle(L)
  PROVE  AllSingle(K)
  BY DEF AllSingle, OnePeer, PeersIn

(* What the schema agrees on: a node that is limited has no other           *)
(* relationship of the identifier, and those that lead to it count.          *)
LEMMA LimitIs ==
  ASSUME NEW i \in Item, NEW id, Limited(i, id)
  PROVE  \E q \in Of(i) :
            /\ q.identifier = id /\ q.cardinality = "one" /\ Sides(i, id) = {q}
            /\ \A j \in Item : \A r \in Of(j) : r.identifier = id /\ Leads(r, i) =>
                 r.peer # "CoreNode" /\ \E o \in PeerSides(r) : o.cardinality = "one"
  <1>1. PICK q \in Limits[i] : q.identifier = id
    BY DEF Limited
  <1>2. q \in Of(i) /\ q.cardinality = "one" /\ Agreed(i, q)
    BY DEF Limits
  <1>3. \A r \in Of(i) : r.identifier = id => r = q
    BY <1>1, <1>2 DEF Agreed
  <1>4. \A j \in Item : \A r \in Of(j) : r.identifier = id /\ Leads(r, i) =>
          r.peer # "CoreNode" /\ \E o \in PeerSides(r) : o.cardinality = "one"
    BY <1>1, <1>2 DEF Agreed
  <1>. QED BY <1>1, <1>2, <1>3, <1>4 DEF Sides

(* A request whose checks still hold leaves each end of its links that is   *)
(* limited with one peer.                                                    *)
LEMMA CheckedSingle ==
  ASSUME LinkInv, NEW c \in pending, Good(c, made), Checked(c), AllSingle(links \ raced),
         NEW L, L \subseteq ((links \ raced) \ c.drop) \cup Added(c)
  PROVE  AllSingle(L)
  <1> DEFINE i == c.source
             D == DOMAIN c.peers
  <1>0. i \in Item /\ made \subseteq Item
    BY DEF Good, LinkInv
  <1>1. \A r \in D : /\ r \in Of(i) /\ c.peers[r] \in Item /\ c.peers[r] # i /\ Leads(r, c.peers[r])
                     /\ c.op \notin {"create", "update"} => r.cardinality = "many"
    BY <1>0 DEF Good
  <1>2. \A r \in D : c.op \in {"create", "update"} =>
           MayGain(r, c.peers[r]) /\ c.drop = LinksOf(i, r)
    BY DEF Checked
  <1>3. \A r \in D : c.op \notin {"create", "update"} => Unrelated(i, r, c.peers[r])
    BY DEF Checked
  <1>4. \A l \in Added(c) : \E r \in D : l = Link(r.identifier, i, c.peers[r])
    BY DEF Added
  <1> HIDE DEF i, D
  <1> SUFFICES ASSUME NEW k \in Item, NEW x, Limited(k, x),
                      NEW a \in PeersIn(L, k, x), NEW b \in PeersIn(L, k, x)
               PROVE  a = b
    BY DEF AllSingle, OnePeer
  <1>5. PICK q \in Of(k) :
            /\ q.identifier = x /\ q.cardinality = "one" /\ Sides(k, x) = {q}
            /\ \A j \in Item : \A r \in Of(j) : r.identifier = x /\ Leads(r, k) =>
                 r.peer # "CoreNode" /\ \E o \in PeerSides(r) : o.cardinality = "one"
    BY LimitIs
  <1>6. /\ a \in Item /\ a # k /\ Link(x, k, a) \in L
        /\ b \in Item /\ b # k /\ Link(x, k, b) \in L
    BY DEF PeersIn
  <1>7. CASE k = i /\ \E r \in D : r.identifier = x
    <2>1. \A r \in D : r.identifier = x => r = q
      BY <1>1, <1>5, <1>7 DEF Sides
    <2>2. c.op \in {"create", "update"}
      BY <2>1, <1>1, <1>5, <1>7
    <2>3. q \in D /\ c.drop = LinksOf(i, q)
      BY <2>1, <2>2, <1>2, <1>7
    <2>4. ASSUME NEW d \in Item, d # k, Link(x, k, d) \in L PROVE d = c.peers[q]
      <3>1. CASE Link(x, k, d) \in Added(c)
        <4>1. PICK r \in D : Link(x, k, d) = Link(r.identifier, i, c.peers[r])
          BY <3>1, <1>4
        <4>2. r.identifier = x /\ d = c.peers[r]
          BY <4>1, <1>7, <1>1, LinkIs
        <4>. QED BY <4>2, <2>1
      <3>2. CASE Link(x, k, d) \notin Added(c)
        <4>1. Link(x, k, d) \in links /\ Link(x, k, d) \notin c.drop
          BY <3>2, <2>4
        <4>2. d \in Peers(i, q.identifier)
          BY <4>1, <2>4, <1>5, <1>7, PeerIs
        <4>3. Link(x, k, d) \in LinksOf(i, q)
          BY <4>2, <1>5, <1>7 DEF LinksOf
        <4>. QED BY <4>1, <4>3, <2>3
      <3>. QED BY <3>1, <3>2
    <2>. QED BY <2>4, <1>6
  <1>8. CASE \E r \in D : r.identifier = x /\ c.peers[r] = k
    <2>1. PICK r \in D : r.identifier = x /\ c.peers[r] = k
      BY <1>8
    <2>2. r.peer # "CoreNode" /\ \E o \in PeerSides(r) : o.cardinality = "one"
      BY <2>1, <1>0, <1>1, <1>5
    <2>3. Peers(k, x) \subseteq {i}
      <3>1. CASE c.op \in {"create", "update"}
        BY <3>1, <2>1, <2>2, <1>2 DEF MayGain
      <3>2. CASE c.op \notin {"create", "update"}
        <4>1. Unrelated(i, r, k)
          BY <3>2, <2>1, <1>3
        <4>. QED BY <4>1, <2>1, <2>2, <1>5 DEF Unrelated
      <3>. QED BY <3>1, <3>2
    <2>4. ASSUME NEW d \in Item, d # k, Link(x, k, d) \in L PROVE d = i
      <3>1. CASE Link(x, k, d) \in Added(c)
        <4>1. PICK t \in D : Link(x, k, d) = Link(t.identifier, i, c.peers[t])
          BY <3>1, <1>4
        <4>. QED BY <4>1, <1>1, <2>1, LinkIs
      <3>2. CASE Link(x, k, d) \notin Added(c)
        <4>1. d \in Peers(k, x)
          BY <3>2, <2>4, PeerIs
        <4>. QED BY <4>1, <2>3
      <3>. QED BY <3>1, <3>2
    <2>. QED BY <2>4, <1>6
  <1>9. CASE ~ (k = i /\ \E r \in D : r.identifier = x) /\ ~ \E r \in D : r.identifier = x /\ c.peers[r] = k
    <2>1. ASSUME NEW d, Link(x, k, d) \in L PROVE Link(x, k, d) \in links \ raced
      <3>1. Link(x, k, d) \notin Added(c)
        BY <1>9, <1>4, LinkIs
      <3>. QED BY <3>1, <2>1
    <2>2. a \in PeersIn(links \ raced, k, x) /\ b \in PeersIn(links \ raced, k, x)
      BY <2>1, <1>6 DEF PeersIn
    <2>. QED BY <2>2 DEF AllSingle, OnePeer
  <1>. QED BY <1>7, <1>8, <1>9

LEMMA SingleStep ==
  ASSUME LinkInv, AllSingle(links \ raced), [CoreNext]_coreVars
  PROVE  AllSingle(links \ raced)'
  <1>0. ASSUME AllSingle(links' \ raced') PROVE AllSingle(links \ raced)'
    BY <1>0 DEF AllSingle, Limited, Limits, Agreed, Of, Schema, OnePeer, PeersIn, Link, Leads, IsA, PeerSides
  <1>1. ASSUME NEW i \in scope, StartCreate(i) \/ StartUpdate(i) \/ StartAdd(i) \/ StartRemove(i)
        PROVE AllSingle(links' \ raced')
    <2>1. Starts(i)
      BY <1>1, StartsGood
    <2>. QED BY <2>1 DEF Starts
  <1>2. ASSUME NEW c \in pending, Writes(c) PROVE AllSingle(links' \ raced')
    <2>1. /\ Good(c, made) /\ links' = (links \ c.drop) \cup Added(c)
          /\ raced' = IF Checked(c) THEN raced \ Added(c) ELSE raced \cup Added(c)
      BY <1>2, WritesGood
    <2>2. CASE Checked(c)
      <3>1. links' \ raced' \subseteq ((links \ raced) \ c.drop) \cup Added(c)
        BY <2>1, <2>2
      <3>. QED BY <2>1, <2>2, <3>1, CheckedSingle
    <2>3. CASE ~ Checked(c)
      <3>1. links' \ raced' \subseteq links \ raced
        BY <2>1, <2>3
      <3>. QED BY <3>1, FewerPeers
    <2>. QED BY <2>2, <2>3
  <1>3. ASSUME NEW i \in scope, DeleteItem(i) PROVE AllSingle(links' \ raced')
    <2>1. links' \ raced' \subseteq links \ raced
      BY <1>3 DEF DeleteItem
    <2>. QED BY <2>1, FewerPeers
  <1>4. CASE UNCHANGED coreVars
    <2>1. links' = links /\ raced' = raced
      BY <1>4 DEF coreVars
    <2>. QED BY <2>1
  <1>5. AllSingle(links' \ raced')
    BY <1>1, <1>2, <1>3, <1>4 DEF CoreNext, Writes
  <1>. QED BY <1>0, <1>5

(* A node has at most one peer by a relationship that its schema agrees to   *)
(* limit, from whichever side the link was made: by a creation or an update, *)
(* which check the count of the peer (RelationshipCountConstraint.check) and *)
(* replace its own (RelationshipManager.update), or by RelationshipAdd; any  *)
(* other peer was written by a request that committed on outdated checks.    *)
THEOREM SinglePeerAlways == CoreSpec => []SinglePeer
  <1> DEFINE Inv == LinkInv /\ AllSingle(links \ raced)
  <1>1. CoreInit => Inv
    BY CoreAssumption DEF CoreInit, LinkInv, AllSingle, OnePeer, PeersIn
  <1>2. Inv /\ [CoreNext]_coreVars => Inv'
    <2>1. LinkInv /\ AllSingle(links \ raced) /\ [CoreNext]_coreVars => LinkInv'
      BY LinkStep
    <2>2. LinkInv /\ AllSingle(links \ raced) /\ [CoreNext]_coreVars => AllSingle(links \ raced)'
      BY SingleStep
    <2>. QED BY <2>1, <2>2
  <1>3. Inv => SinglePeer
    <2> SUFFICES ASSUME Inv, NEW i \in exists, NEW r \in Limits[i]
                 PROVE  Cardinality(PeersIn(links \ raced, i, r.identifier)) <= 1
      BY DEF SinglePeer
    <2> DEFINE P == PeersIn(links \ raced, i, r.identifier)
    <2>0. i \in Item
      BY DEF LinkInv
    <2>1. \A j, k \in P : j = k
      BY <2>0 DEF AllSingle, OnePeer, Limited
    <2>2. P = {} \/ \E j : P = {j}
      BY <2>1
    <2>3. Cardinality(P) = 0 \/ Cardinality(P) = 1
      BY <2>2, FS_EmptySet, FS_Singleton
    <2>. QED BY <2>3
  <1> HIDE DEF Inv
  <1>. QED BY <1>1, <1>2, <1>3, PTL DEF CoreSpec

(* What is reached has its start, is closed, and is in every closed set that *)
(* has the start.                                                            *)
LEMMA Reached ==
  ASSUME NEW next, NEW i \in scope, \A a \in scope : next[a] \subseteq scope
  PROVE  LET R == ReachedBy(next, i) IN
         /\ R \subseteq scope /\ i \in R
         /\ \A a \in R : next[a] \subseteq R
         /\ \A S : S \subseteq scope /\ i \in S /\ (\A a \in S : next[a] \subseteq S) => R \subseteq S
  <1> DEFINE R == ReachedBy(next, i)
             Within(S) == S \in SUBSET scope /\ i \in S /\ \A a \in S : next[a] \subseteq S
  <1>1. \A j : j \in R <=> j \in scope /\ \A S : Within(S) => j \in S
    BY DEF ReachedBy
  <1> HIDE DEF R
  <1>2. R \subseteq scope /\ i \in R
    BY <1>1
  <1>3. ASSUME NEW a \in R, NEW b \in next[a] PROVE b \in R
    <2>1. a \in scope /\ b \in scope
      BY <1>1
    <2>2. ASSUME NEW S, Within(S) PROVE b \in S
      BY <2>2, <1>1
    <2>. QED BY <2>1, <2>2, <1>1
  <1>4. ASSUME NEW S, Within(S) PROVE R \subseteq S
    BY <1>1, <1>4
  <1>. QED BY <1>2, <1>3, <1>4 DEF R

LEMMA LastIs == \A K : K # {} => LastOf(K) \in K
  <1> SUFFICES ASSUME NEW K, K # {} PROVE LastOf(K) \in K
    OBVIOUS
  <1>1. \E k \in K : (\E g \in K : Models[g].generic) => Models[k].generic
    OBVIOUS
  <1>. QED BY <1>1 DEF LastOf

(* The kinds of the index have the start and the kinds with components that *)
(* a component of them is of.                                               *)
LEMMA CascadeKindsClosed ==
  ASSUME Separate, NEW start \in DOMAIN Models
  PROVE  /\ start \in CascadeKinds(start)
         /\ CascadeKinds(start) \subseteq DOMAIN Models
         /\ \A k \in CascadeKinds(start) : \A r \in cascading(k) :
              cascading(r.peer) # {} => r.peer \in CascadeKinds(start)
  <1> DEFINE Kept(K) == \A m \in K \cup {start} : \A r \in cascading(m) : cascading(r.peer) # {} => r.peer \in K
             CK == CascadeKinds(start)
  <1>1. \A k : k \in CK <=> k = start \/ (k \in CascadePeers /\ \A K \in SUBSET CascadePeers : Kept(K) => k \in K)
    BY DEF CascadeKinds
  <1> HIDE DEF CK
  <1>2. CascadePeers \subseteq DOMAIN Models
    BY DEF Separate, CascadePeers
  <1>3. start \in CK /\ CK \subseteq DOMAIN Models
    BY <1>1, <1>2
  <1>4. ASSUME NEW k \in CK, NEW r \in cascading(k), cascading(r.peer) # {} PROVE r.peer \in CK
    <2>1. r.peer \in CascadePeers
      BY <1>3, <1>4 DEF CascadePeers
    <2>2. ASSUME NEW K \in SUBSET CascadePeers, Kept(K) PROVE r.peer \in K
      BY <1>1, <1>4, <2>2
    <2>. QED BY <1>1, <2>1, <2>2
  <1>. QED BY <1>3, <1>4 DEF CK

LEMMA IndexIs ==
  ASSUME NEW i \in Item, NEW e \in Index[KindOf[i]]
  PROVE  \/ \E k \in CascadeKinds(KindOf[i]) : \E r \in cascading(k) :
              e.source = k /\ e.type = "cascade" /\ e.identifier = r.identifier /\ e.peer = r.peer
         \/ /\ e.source = KindOf[i] /\ e.type = "dependent"
            /\ Dependent(KindOf[i], e.identifier) # {}
            /\ e.peer = LastOf(Dependent(KindOf[i], e.identifier))
  <1> DEFINE start == KindOf[i]
             ids == {r.identifier : r \in {q \in UNION {Schema[k] : k \in DOMAIN Models} : ~ q.optional /\ q.peer = start}}
  <1>1. e \in _index_cascading_deletes(start) \/ e \in _index_dependent_schema(start)
    BY DEF Index
  <1>2. CASE e \in _index_cascading_deletes(start)
    BY <1>2 DEF _index_cascading_deletes, Entry
  <1>3. CASE e \in _index_dependent_schema(start)
    <2>1. PICK id \in ids : e = Entry(start, "dependent", id, LastOf(Dependent(start, id)))
      BY <1>3 DEF _index_dependent_schema
    <2>2. Dependent(start, id) # {}
      BY <2>1 DEF Dependent
    <2> HIDE DEF ids, start
    <2>3. e.source = start /\ e.type = "dependent" /\ e.identifier = id /\ e.peer = LastOf(Dependent(start, id))
      BY <2>1 DEF Entry
    <2>. QED BY <2>2, <2>3 DEF start
  <1>. QED BY <1>1, <1>2, <1>3

LEMMA CascadeEntry ==
  ASSUME NEW i \in Item, NEW k \in CascadeKinds(KindOf[i]), NEW r \in cascading(k)
  PROVE  Entry(k, "cascade", r.identifier, r.peer) \in Index[KindOf[i]]
  BY DEF Index, _index_cascading_deletes

LEMMA DependentEntry ==
  ASSUME NEW i \in Item, NEW k \in DOMAIN Models, NEW r \in Schema[k], ~ r.optional, r.peer = KindOf[i]
  PROVE  Entry(KindOf[i], "dependent", r.identifier, LastOf(Dependent(KindOf[i], r.identifier))) \in Index[KindOf[i]]
  <1> DEFINE start == KindOf[i]
             ids == {q.identifier : q \in {p \in UNION {Schema[m] : m \in DOMAIN Models} : ~ p.optional /\ p.peer = start}}
  <1>1. r.identifier \in ids
    OBVIOUS
  <1>2. Entry(start, "dependent", r.identifier, LastOf(Dependent(start, r.identifier))) \in _index_dependent_schema(start)
    BY <1>1 DEF _index_dependent_schema
  <1>. QED BY <1>2 DEF Index

(* What a deletion goes on to from a node is a component of it, and its kind *)
(* is in the index if it has components itself.                              *)
LEMMA CascadeStep ==
  ASSUME Separate, LinkInv, NEW i \in scope, NEW a \in scope,
         NEW b \in PeersOfType(Index[KindOf[i]], "cascade")[a]
  PROVE  /\ \E r \in cascading(KindOf[a]) : IsA(KindOf[b], r.peer) /\ Link(r.identifier, a, b) \in links
         /\ b \in scope
         /\ cascading(KindOf[b]) # {} => KindOf[b] \in CascadeKinds(KindOf[i])
  <1> DEFINE index == Index[KindOf[i]]
             CK == CascadeKinds(KindOf[i])
  <1>0. i \in Item /\ a \in Item /\ KindOf[i] \in DOMAIN Models
    BY CoreAssumption DEF LinkInv
  <1>1. PICK l \in links, e \in index :
          /\ b \in scope /\ l.ends = {a, b}
          /\ Matches(index, a, l.identifier, b) \/ Matches(index, b, l.identifier, a)
          /\ e.source = KindOf[a] /\ e.type = "cascade" /\ e.identifier = l.identifier
    BY DEF PeersOfType
  <1>2. b \in Item
    BY <1>1 DEF LinkInv
  <1>3. l = Link(l.identifier, a, b)
    <2>1. PICK c, d, x : l = Link(x, c, d)
      BY DEF LinkInv, Typed
    <2>. QED BY <2>1, <1>1 DEF Link
  <1>c. /\ KindOf[i] \in CK
        /\ \A k \in CK : \A q \in cascading(k) : cascading(q.peer) # {} => q.peer \in CK
    BY <1>0, CascadeKindsClosed
  <1>4. KindOf[a] \in CK /\ \E r \in cascading(KindOf[a]) : r.identifier = l.identifier
    BY <1>0, <1>1, IndexIs
  <1>5. PICK r \in cascading(KindOf[a]) : r.identifier = l.identifier
    BY <1>4
  <1>6. r \in Of(a) /\ r.on_delete = "cascade"
    BY DEF cascading, Of
  <1>7. \A q \in Of(a) : q.identifier = l.identifier => q = r
    BY <1>0, <1>5, <1>6 DEF Separate
  <1>8. IsA(KindOf[b], r.peer) /\ (cascading(KindOf[b]) # {} => KindOf[b] \in CK)
    <2>1. CASE Matches(index, a, l.identifier, b)
      <3>1. PICK f \in index : f.source = KindOf[a] /\ f.identifier = l.identifier /\ f.peer = KindOf[b]
        BY <2>1 DEF Matches
      <3>2. CASE f.type = "cascade"
        <4>1. PICK q \in cascading(KindOf[a]) : q.identifier = l.identifier /\ q.peer = KindOf[b]
          BY <3>1, <3>2, <1>0, IndexIs
        <4>2. q = r
          BY <4>1, <1>7 DEF cascading, Of
        <4>. QED BY <4>1, <4>2, <1>4, <1>c DEF IsA
      <3>3. CASE f.type # "cascade"
        <4>1. /\ KindOf[a] = KindOf[i] /\ Dependent(KindOf[i], l.identifier) # {}
              /\ KindOf[b] = LastOf(Dependent(KindOf[i], l.identifier))
          BY <3>1, <3>3, <1>0, IndexIs
        <4>2. r.peer = KindOf[b]
          BY <4>1, <1>0, <1>2, <1>5 DEF Separate
        <4>. QED BY <4>2, <1>4, <1>c DEF IsA
      <3>. QED BY <3>2, <3>3
    <2>2. CASE Matches(index, b, l.identifier, a)
      <3>1. PICK f \in index : f.source = KindOf[b] /\ f.identifier = l.identifier /\ f.peer = KindOf[a]
        BY <2>2 DEF Matches
      <3>2. CASE f.type = "cascade"
        <4>1. KindOf[b] \in CK /\ \E q \in cascading(KindOf[b]) : q.identifier = l.identifier /\ q.peer = KindOf[a]
          BY <3>1, <3>2, <1>0, IndexIs
        <4>2. IsA(KindOf[b], r.peer)
          BY <4>1, <1>0, <1>2, <1>5 DEF Separate
        <4>. QED BY <4>1, <4>2
      <3>3. CASE f.type # "cascade"
        <4>1. /\ KindOf[b] = KindOf[i] /\ Dependent(KindOf[i], l.identifier) # {}
              /\ KindOf[a] = LastOf(Dependent(KindOf[i], l.identifier))
          BY <3>1, <3>3, <1>0, IndexIs
        <4>2. KindOf[a] \in Dependent(KindOf[i], l.identifier)
          BY <4>1, LastIs
        <4>3. PICK q \in Schema[KindOf[a]] : q.peer = KindOf[i] /\ q.identifier = l.identifier
          BY <4>2 DEF Dependent
        <4>4. q = r
          BY <4>3, <1>7 DEF Of
        <4>. QED BY <4>1, <4>3, <4>4, <1>c DEF IsA
      <3>. QED BY <3>2, <3>3
    <2>. QED BY <1>1, <2>1, <2>2
  <1>. QED BY <1>1, <1>3, <1>5, <1>8

(* A deletion takes all components and nothing else, and a node that it      *)
(* leaves without a mandatory peer is one it does not see.                    *)
LEMMA DeleteExact ==
  ASSUME Separate, LinkInv, NEW i \in scope, DeleteItem(i)
  PROVE  /\ i \in exists \ exists' /\ exists' \subseteq exists
         /\ MustGo(i) \subseteq exists \ exists' /\ exists \ exists' \subseteq MayGo(i)
         /\ \A x \in exists \cap exists' : \A r \in Of(x) : \A j \in Peers(x, r.identifier) \ exists' :
              ~ r.optional /\ j \in exists =>
                 Overlooked(x, r) \/ \E a \in exists \ exists' : a # j /\ j \in MayGo(a)
  <1> DEFINE index == Index[KindOf[i]]
             next == PeersOfType(index, "cascade")
             ids == ReachedBy(next, i)
             gone == ids \cap exists
             CK == CascadeKinds(KindOf[i])
  <1>0. /\ scope \subseteq Item /\ exists \subseteq scope /\ i \in Item /\ KindOf[i] \in DOMAIN Models
        /\ \A a \in Item : KindOf[a] \in DOMAIN Models
    BY CoreAssumption DEF LinkInv
  <1>1. /\ i \in exists
        /\ \A a \in ids : PeersOfType(index, "dependent")[a] \subseteq ids
        /\ \A a \in gone : \A r \in Of(a) : Peers(a, r.identifier) \subseteq exists
        /\ exists' = exists \ gone
    BY DEF DeleteItem
  <1>2. \A a \in scope : next[a] \subseteq scope
    BY CascadeStep
  <1>3. /\ ids \subseteq scope /\ i \in ids
        /\ \A a \in ids : next[a] \subseteq ids
        /\ \A S : S \subseteq scope /\ i \in S /\ (\A a \in S : next[a] \subseteq S) => ids \subseteq S
    BY <1>2, Reached
  <1> HIDE DEF ids, next
  <1>4. ASSUME NEW a \in scope, NEW b \in next[a]
        PROVE  /\ \E r \in cascading(KindOf[a]) : IsA(KindOf[b], r.peer) /\ Link(r.identifier, a, b) \in links
               /\ b \in scope
               /\ cascading(KindOf[b]) # {} => KindOf[b] \in CK
    BY CascadeStep DEF next
  <1>5. ids \subseteq exists
    <2>1. ASSUME NEW a \in gone, NEW b \in next[a] PROVE b \in gone
      <3>1. PICK r \in cascading(KindOf[a]) : Link(r.identifier, a, b) \in links
        BY <1>3, <1>4
      <3>2. r \in Of(a) /\ b \in Item /\ b \in ids
        BY <1>0, <1>3, <1>4 DEF cascading, Of
      <3>3. b = a \/ b \in Peers(a, r.identifier)
        BY <3>1, <3>2, PeerIs
      <3>. QED BY <1>1, <3>2, <3>3
    <2>2. gone \subseteq scope /\ i \in gone
      BY <1>1, <1>3
    <2>. QED BY <2>1, <2>2, <1>3
  <1>6. exists \ exists' = ids /\ exists' = exists \ ids
    BY <1>1, <1>5
  <1>7. ASSUME NEW a \in ids PROVE cascading(KindOf[a]) # {} => KindOf[a] \in CK
    <2> DEFINE S == {b \in ids : cascading(KindOf[b]) # {} => KindOf[b] \in CK}
    <2>1. i \in S
      BY <1>0, <1>3, CascadeKindsClosed
    <2>2. \A b \in S : next[b] \subseteq S
      BY <1>3, <1>4
    <2>3. S \subseteq scope
      BY <1>3
    <2> HIDE DEF S
    <2>4. ids \subseteq S
      BY <2>1, <2>2, <2>3, <1>3
    <2>. QED BY <2>4 DEF S
  <1>8. MustGo(i) \subseteq ids
    <2> DEFINE must == [a \in scope |-> {b \in exists : \E r \in cascading(KindOf[a]) :
                          (r.peer = KindOf[b] /\ KindOf[b] \notin Internal) /\ Link(r.identifier, a, b) \in links}]
    <2>1. MustGo(i) = ReachedBy(must, i)
      BY DEF MustGo, Components
    <2>2. ASSUME NEW a \in ids, NEW b \in must[a] PROVE b \in ids
      <3>1. a \in scope /\ a \in Item /\ b \in exists /\ b \in scope
        BY <1>0, <1>3
      <3>2. PICK r \in cascading(KindOf[a]) : r.peer = KindOf[b] /\ KindOf[b] \notin Internal /\ Link(r.identifier, a, b) \in links
        BY <3>1
      <3>3. KindOf[a] \in CK /\ KindOf[a] \notin Internal
        BY <1>7, <3>1, <3>2 DEF Separate
      <3>4. PICK e \in index : e = Entry(KindOf[a], "cascade", r.identifier, r.peer)
        BY <1>0, <3>3, CascadeEntry
      <3>5. e.source = KindOf[a] /\ e.type = "cascade" /\ e.identifier = r.identifier /\ e.peer = KindOf[b]
        BY <3>2, <3>4 DEF Entry
      <3>6. Matches(index, a, r.identifier, b)
        BY <3>2, <3>3, <3>5 DEF Matches
      <3>7. Link(r.identifier, a, b).ends = {a, b} /\ Link(r.identifier, a, b).identifier = r.identifier
        BY DEF Link
      <3>8. b \in next[a]
        BY <3>1, <3>2, <3>5, <3>6, <3>7 DEF next, PeersOfType
      <3>. QED BY <1>3, <3>8
    <2>3. \A a \in scope : must[a] \subseteq scope
      BY <1>0
    <2> HIDE DEF must
    <2>. QED BY <1>3, <2>1, <2>2, <2>3, Reached
  <1>9. ids \subseteq MayGo(i)
    <2> DEFINE may == [a \in scope |-> {b \in exists : \E r \in cascading(KindOf[a]) :
                          IsA(KindOf[b], r.peer) /\ Link(r.identifier, a, b) \in links}]
               M == ReachedBy(may, i)
    <2>1. MayGo(i) = M
      BY DEF MayGo, Components
    <2>2. ASSUME NEW a \in ids, NEW b \in next[a] PROVE b \in may[a]
      <3>1. a \in scope /\ b \in exists
        BY <1>3, <1>5
      <3>. QED BY <1>4, <3>1
    <2>3. \A a \in scope : may[a] \subseteq scope
      BY <1>0
    <2> HIDE DEF may
    <2>4. i \in M /\ M \subseteq scope /\ \A a \in M : may[a] \subseteq M
      BY <2>3, Reached
    <2> HIDE DEF M
    <2>5. \A a \in M \cap ids : next[a] \subseteq M \cap ids
      BY <2>2, <2>4, <1>3
    <2>6. ids \subseteq M \cap ids
      BY <1>3, <2>4, <2>5
    <2>. QED BY <2>1, <2>6
  <1>10. ASSUME NEW x \in exists \cap exists', NEW r \in Of(x), NEW j \in Peers(x, r.identifier) \ exists',
                ~ r.optional, j \in exists, ~ Overlooked(x, r)
         PROVE  \E a \in exists \ exists' : a # j /\ j \in MayGo(a)
    <2>1. CASE j # i
      BY <1>3, <1>6, <1>9, <1>10, <2>1
    <2>2. CASE j = i
      <3>1. x \in Item /\ x \in scope /\ x # i /\ x \notin ids /\ Link(r.identifier, x, i) \in links
        BY <1>0, <1>6, <2>2, PeerIs
      <3>2. KindOf[i] = r.peer
        <4>0. PICK a \in made, b \in made : \E q \in Of(a) : Link(r.identifier, x, i) = Link(q.identifier, a, b) /\ Leads(q, b)
          BY <3>1 DEF LinkInv, Typed
        <4>1. PICK q \in Of(a) : Link(r.identifier, x, i) = Link(q.identifier, a, b) /\ Leads(q, b)
          BY <4>0
        <4>2. q.identifier = r.identifier /\ ((a = x /\ b = i) \/ (a = i /\ b = x))
          BY <4>1, LinkIs
        <4>3. CASE a = x /\ b = i
          <5>1. q = r
            BY <4>2, <4>3, <3>1, <1>10 DEF Separate
          <5>. QED BY <5>1, <4>1, <4>3, <3>1, <1>0, <1>10 DEF Separate
        <4>4. CASE a = i /\ b = x
          BY <4>1, <4>2, <4>4, <3>1, <1>0, <1>10 DEF Separate
        <4>. QED BY <4>2, <4>3, <4>4
      <3>3. r.peer \notin Internal /\ Dependent(r.peer, r.identifier) = {KindOf[x]} /\ KindOf[x] \notin Internal
        BY <3>1, <1>10 DEF Separate, Overlooked
      <3>4. LastOf(Dependent(r.peer, r.identifier)) = KindOf[x]
        BY <3>3, LastIs
      <3>5. PICK e \in index : e = Entry(KindOf[i], "dependent", r.identifier, KindOf[x])
        <4>1. r \in Schema[KindOf[x]] /\ KindOf[x] \in DOMAIN Models
          BY <1>0, <3>1 DEF Of
        <4>. QED BY <1>0, <1>10, <3>2, <3>4, <4>1, DependentEntry
      <3>6. e.source = KindOf[i] /\ e.type = "dependent" /\ e.identifier = r.identifier /\ e.peer = KindOf[x]
        BY <3>5 DEF Entry
      <3>7. Matches(index, i, r.identifier, x)
        BY <3>2, <3>3, <3>6 DEF Matches
      <3>8. Link(r.identifier, x, i).ends = {i, x} /\ Link(r.identifier, x, i).identifier = r.identifier
        BY DEF Link
      <3>9. x \in PeersOfType(index, "dependent")[i]
        BY <3>1, <3>6, <3>7, <3>8 DEF PeersOfType
      <3>. QED BY <1>1, <1>3, <3>1, <3>9
    <2>. QED BY <2>1, <2>2
  <1>. QED BY <1>1, <1>3, <1>6, <1>8, <1>9, <1>10

(* NodeManager.delete takes with a node every component of it, of its        *)
(* components and so on, that the relationship names by its very kind, and   *)
(* nothing that is no component (NodeDeleteIndex, NodeDeleteValidator); and  *)
(* it is refused if a node would be left without a peer that it must have,   *)
(* unless the relationship is one the index does not see.                    *)
THEOREM DeletionExactAlways == Separate => (CoreSpec => DeletionExact)
  <1> SUFFICES ASSUME Separate PROVE CoreSpec => DeletionExact
    OBVIOUS
  <1> DEFINE Cascaded ==
               exists' # exists /\ exists' \subseteq exists =>
                 \E i \in exists \ exists' :
                    MustGo(i) \subseteq exists \ exists' /\ exists \ exists' \subseteq MayGo(i)
             Kept ==
               \A i \in exists \cap exists' : \A r \in Of(i) :
                 \A j \in Peers(i, r.identifier) \ exists' :
                    ~ r.optional /\ j \in exists =>
                       \/ Overlooked(i, r)
                       \/ \E a \in exists \ exists' : a # j /\ j \in MayGo(a)
  <1>1. CoreInit => LinkInv
    BY CoreAssumption DEF CoreInit, LinkInv
  <1>2. LinkInv /\ [CoreNext]_coreVars => LinkInv'
    BY LinkStep
  <1>3. LinkInv /\ [CoreNext]_coreVars => Cascaded /\ Kept
    <2> SUFFICES ASSUME LinkInv, [CoreNext]_coreVars PROVE Cascaded /\ Kept
      OBVIOUS
    <2>1. CASE \E i \in scope : DeleteItem(i)
      <3>1. PICK i \in scope : DeleteItem(i)
        BY <2>1
      <3>. QED BY <3>1, DeleteExact
    <2>2. CASE ~ \E i \in scope : DeleteItem(i)
      <3>1. exists \subseteq exists'
        BY <2>2 DEF CoreNext, StartCreate, StartUpdate, StartAdd, StartRemove, WriteCreate, WriteUpdate,
                    WriteAdd, WriteRemove, coreVars
      <3>2. exists \ exists' = {} /\ (exists' \subseteq exists => exists' = exists)
        BY <3>1
      <3>. QED BY <3>1, <3>2
    <2>. QED BY <2>1, <2>2
  <1>4. CoreSpec => [](LinkInv)
    BY <1>1, <1>2, PTL DEF CoreSpec
  <1>5. CoreSpec => CascadeDeletes
    <2>1. LinkInv /\ [CoreNext]_coreVars => [Cascaded]_coreVars
      BY <1>3
    <2> HIDE DEF Cascaded
    <2>2. CoreSpec => [][Cascaded]_coreVars
      BY <1>4, <2>1, PTL DEF CoreSpec
    <2>. QED BY <2>2 DEF CascadeDeletes, Cascaded
  <1>6. CoreSpec => PeersKept
    <2>1. LinkInv /\ [CoreNext]_coreVars => [Kept]_coreVars
      BY <1>3
    <2> HIDE DEF Kept
    <2>2. CoreSpec => [][Kept]_coreVars
      BY <1>4, <2>1, PTL DEF CoreSpec
    <2>. QED BY <2>2 DEF PeersKept, Kept
  <1>. QED BY <1>5, <1>6 DEF DeletionExact
=============================================================================
