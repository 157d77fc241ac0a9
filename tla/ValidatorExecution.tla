------------------------- MODULE ValidatorExecution -------------------------
(***************************************************************************)
(* One validator of a proposed change and the messages that run it:        *)
(*   request.*.check / request.repository.checks   start an execution,     *)
(*   check.*                                       run one check of it,    *)
(*   finalize.validator.execution                  poll for the results.   *)
(*                                                                         *)
(* A message is handled by one of the concurrent consumers of the worker   *)
(* queue.  It is acknowledged only after its handler has returned, so a    *)
(* worker that dies hands its message back: delivery is at least once.     *)
(* An exception in a handler goes through execute_message, which re-sends  *)
(* the message with a higher retry count or, past the limit, gives it up.  *)
(* The delay of a re-sent message is not modelled: the queue is unordered. *)
(*                                                                         *)
(* The handlers read and write the validator through the SDK, whose save   *)
(* leaves out a value that is the one first read (see SdkNode).            *)
(***************************************************************************)
EXTENDS Naturals

CONSTANTS
  Exec,        \* validator_execution_id values: one per run of the request handler
  NoExec,      \* stands for no execution
  Check,       \* the checks of one execution (targets of the definition)
  MetaCheck,   \* the checks whose ids travel in message.meta (artifact, generator)
  Worker,      \* concurrent consumers of the rpcs queue
  MaxRetries,  \* config.SETTINGS.broker.maximum_message_retries
  MaxFaults,   \* bound: exceptions raised by handlers
  MaxCrashes,  \* bound: workers lost while they hold a message
  MaxReruns    \* bound: further requests for the same validator

ASSUME CheckAssumption == MetaCheck \subseteq Check
ASSUME NoExecAssumption == NoExec \notin Exec
ASSUME BoundAssumption == MaxRetries \in Nat /\ MaxFaults \in Nat
                          /\ MaxCrashes \in Nat /\ MaxReruns \in Nat

VARIABLES
  validator,   \* the CoreValidator node: its state, its conclusion and (history) who wrote that last
  required,    \* cache key validator_execution_id:<e>:checks
  result,      \* cache keys validator_execution_id:<e>:check_execution_id:<c>
  late,        \* TRUE once maximum_validator_execution_time has passed since start_time
  queue,       \* number of copies of each message that wait for delivery
  pc, msg,     \* per consumer: next step of the handler and the unacknowledged message
  exec,        \* per consumer, request handler: the execution id it drew
  unsent,      \* per consumer, request handler: check messages still to send
  seen,        \* per consumer: the validator as the handler has read it
  need,        \* per consumer, finaliser: required_checks
  miss,        \* per consumer, finaliser: missing_checks
  failed,      \* per consumer, finaliser: failed_check
  used,        \* execution ids drawn so far (a UUID is never drawn twice)
  sent,        \* history: the <<execution, check>> whose message was sent
  faults, crashes, reruns

vars == <<validator, required, result, late, queue, pc, msg, exec, unsent, seen,
          need, miss, failed, used, sent, faults, crashes, reruns>>
finaliserVars == <<need, miss, failed>>
requestVars == <<exec, unsent, used>>
cacheVars == <<required, result>>
handlerVars == <<seen, finaliserVars, requestVars>>
boundVars == <<faults, crashes, reruns>>

-----------------------------------------------------------------------------
(* Message.reached_max_retries tests the truth of retry_count first, so a    *)
(* message that was never retried has not reached the limit even if it is 0. *)
RetryLimit == IF MaxRetries = 0 THEN 1 ELSE MaxRetries

reached_max_retries(m) == m.retry # 0 /\ m.retry >= MaxRetries

RequestMsg == [type : {"request"}, retry : 0..RetryLimit]
CheckMsg == [type : {"check"}, e : Exec, c : Check, retry : 0..RetryLimit]
FinalizeMsg == [type : {"finalize"}, e : Exec, retry : 0..RetryLimit]
Msg == RequestMsg \cup CheckMsg \cup FinalizeMsg

request == [type |-> "request", retry |-> 0]
check_message(e, c) == [type |-> "check", e |-> e, c |-> c, retry |-> 0]
finalize_message(e) == [type |-> "finalize", e |-> e, retry |-> 0]

Send(m) == queue' = [queue EXCEPT ![m] = @ + 1]

NoMsg == [type |-> "none", retry |-> 0]
Unread == [state |-> "queued", conclusion |-> "unknown"]

Conclusion == {"unknown", "success", "failure"}
ValidatorState == {"queued", "in_progress", "completed"}
Steps == {"idle", "ack", "check", "fetch", "reset", "store_checks", "send",
          "read", "mark", "required", "completed", "save_failure", "missing",
          "resend", "finish"}

Init ==
  /\ validator = [state |-> "queued", conclusion |-> "unknown", by |-> NoExec]
  /\ required = [e \in Exec |-> {}]
  /\ result = [e \in Exec |-> [c \in Check |-> "none"]]
  /\ late = [e \in Exec |-> FALSE]
  /\ queue = [m \in Msg |-> IF m = request THEN 1 ELSE 0]
  /\ pc = [w \in Worker |-> "idle"]
  /\ msg = [w \in Worker |-> NoMsg]
  /\ exec = [w \in Worker |-> NoExec]
  /\ unsent = [w \in Worker |-> {}]
  /\ seen = [w \in Worker |-> Unread]
  /\ need = [w \in Worker |-> {}]
  /\ miss = [w \in Worker |-> {}]
  /\ failed = [w \in Worker |-> FALSE]
  /\ used = {}
  /\ sent = {}
  /\ faults = 0
  /\ crashes = 0
  /\ reruns = 0

-----------------------------------------------------------------------------
(* A user or a new commit runs the pipeline again (run_checks, run_pipeline). *)
Rerun ==
  /\ reruns < MaxReruns
  /\ reruns' = reruns + 1
  /\ Send(request)
  /\ UNCHANGED <<validator, cacheVars, late, pc, msg, handlerVars, sent, faults, crashes>>

(* on_message: a consumer takes a message; it stays unacknowledged in msg.   *)
Receive(w) ==
  /\ pc[w] = "idle"
  /\ \E m \in Msg :
       /\ queue[m] > 0
       /\ queue' = [queue EXCEPT ![m] = @ - 1]
       /\ msg' = [msg EXCEPT ![w] = m]
       /\ pc' = [pc EXCEPT ![w] = CASE m.type = "request" -> "fetch"
                                    [] m.type = "check" -> "check"
                                    [] m.type = "finalize" -> "read"]
  /\ UNCHANGED <<validator, cacheVars, late, handlerVars, sent, boundVars>>

(* A handler's local variables live until it returns or its worker dies.     *)
DropLocals(w) ==
  /\ exec' = [exec EXCEPT ![w] = NoExec]
  /\ unsent' = [unsent EXCEPT ![w] = {}]
  /\ seen' = [seen EXCEPT ![w] = Unread]
  /\ need' = [need EXCEPT ![w] = {}]
  /\ miss' = [miss EXCEPT ![w] = {}]
  /\ failed' = [failed EXCEPT ![w] = FALSE]

(* The end of message.process(): the broker drops the message. *)
Ack(w) ==
  /\ pc[w] = "ack"
  /\ pc' = [pc EXCEPT ![w] = "idle"]
  /\ msg' = [msg EXCEPT ![w] = NoMsg]
  /\ DropLocals(w)
  /\ UNCHANGED <<validator, cacheVars, late, queue, used, sent, boundVars>>

(* The worker dies before the acknowledgement: the broker redelivers. *)
Crash(w) ==
  /\ crashes < MaxCrashes
  /\ pc[w] # "idle"
  /\ crashes' = crashes + 1
  /\ Send(msg[w])
  /\ pc' = [pc EXCEPT ![w] = "idle"]
  /\ msg' = [msg EXCEPT ![w] = NoMsg]
  /\ DropLocals(w)
  /\ UNCHANGED <<validator, cacheVars, late, used, sent, faults, reruns>>

(* Mutant: a check given up after its last retry is not recorded.            *)
set_check_status_never(m, conclusion) == UNCHANGED result

(* set_check_status writes nothing for a message without ids in its meta.    *)
set_check_status(m, conclusion) ==
  IF m.type = "check" /\ m.c \in MetaCheck
  THEN result' = [result EXCEPT ![m.e][m.c] = conclusion]
  ELSE UNCHANGED result

(* execute_message: the handler raised before its next step took effect.     *)
HandlerException(w) ==
  /\ faults < MaxFaults
  /\ pc[w] \notin {"idle", "ack"}
  /\ faults' = faults + 1
  /\ pc' = [pc EXCEPT ![w] = "ack"]
  /\ \/ /\ reached_max_retries(msg[w])
        /\ set_check_status(msg[w], "failure")
        /\ UNCHANGED queue
     \/ /\ ~reached_max_retries(msg[w])
        /\ Send([msg[w] EXCEPT !.retry = @ + 1])
        /\ UNCHANGED result
  /\ UNCHANGED <<validator, required, late, msg, handlerVars, sent, crashes, reruns>>

-----------------------------------------------------------------------------
(* validator = client.get(...), or a peer that validations.fetch() got.      *)
Get(w) == seen' = [seen EXCEPT ![w] = [state |-> validator.state,
                                       conclusion |-> validator.conclusion]]

(* validator.save(): of the values that the object has now, those that are   *)
(* as they were first read are not sent.  No save reads the object again.    *)
save(w, state, conclusion, e) ==
  validator' =
    [state |-> IF state = seen[w].state THEN validator.state ELSE state,
     conclusion |-> IF conclusion = seen[w].conclusion THEN validator.conclusion ELSE conclusion,
     by |-> IF conclusion = seen[w].conclusion THEN validator.by ELSE e]

(* The request handlers (requests/repository.py checks, artifact_definition  *)
(* check, generator_definition check, check/repository.py check_definition)  *)
(* read the validator with the others of the proposed change ...             *)
RequestFetch(w) ==
  /\ pc[w] = "fetch"
  /\ Get(w)
  /\ pc' = [pc EXCEPT ![w] = "reset"]
  /\ UNCHANGED <<validator, cacheVars, late, queue, msg, requestVars, finaliserVars, sent, boundVars>>

(* ... reset it for a new execution id ...                                   *)
RequestReset(w) ==
  /\ pc[w] = "reset"
  /\ \E e \in Exec \ used :
       /\ used' = used \cup {e}
       /\ exec' = [exec EXCEPT ![w] = e]
  /\ save(w, "queued", "unknown", validator.by)
  /\ seen' = [seen EXCEPT ![w] = Unread]   \* of the object only the id is used from here on
  /\ unsent' = [unsent EXCEPT ![w] = Check]
  /\ pc' = [pc EXCEPT ![w] = "store_checks"]
  /\ UNCHANGED <<cacheVars, late, queue, msg, finaliserVars, sent, boundVars>>

(* ... write the ids of the checks to the cache ...                          *)
RequestStoreChecks(w) ==
  /\ pc[w] = "store_checks"
  /\ required' = [required EXCEPT ![exec[w]] = Check]
  /\ pc' = [pc EXCEPT ![w] = "send"]
  /\ UNCHANGED <<validator, result, late, queue, msg, handlerVars, sent, boundVars>>

(* ... then send the check messages one by one ...                           *)
RequestSendCheck(w) ==
  /\ pc[w] = "send"
  /\ \E c \in unsent[w] :
       /\ Send(check_message(exec[w], c))
       /\ unsent' = [unsent EXCEPT ![w] = @ \ {c}]
       /\ sent' = sent \cup {<<exec[w], c>>}
  /\ UNCHANGED <<validator, cacheVars, late, pc, msg, exec, used, seen, finaliserVars, boundVars>>

(* ... and the finaliser, last in the list of events.                        *)
RequestSendFinalize(w) ==
  /\ pc[w] = "send"
  /\ unsent[w] = {}
  /\ Send(finalize_message(exec[w]))
  /\ pc' = [pc EXCEPT ![w] = "ack"]
  /\ UNCHANGED <<validator, cacheVars, late, msg, handlerVars, sent, boundVars>>

-----------------------------------------------------------------------------
(* check.artifact.create, check.generator.run, check.repository.*: the check *)
(* runs and its conclusion goes to the cache.                                *)
RunCheck(w) ==
  /\ pc[w] = "check"
  /\ \E conclusion \in {"success", "failure"} :
       result' = [result EXCEPT ![msg[w].e][msg[w].c] = conclusion]
  /\ pc' = [pc EXCEPT ![w] = "ack"]
  /\ UNCHANGED <<validator, required, late, queue, msg, handlerVars, sent, boundVars>>

-----------------------------------------------------------------------------
(* finalize.validator.execution, one action per await.                       *)

(* validator = client.get(...); current_conclusion = validator.conclusion    *)
FinalizeRead(w) ==
  /\ pc[w] = "read"
  /\ Get(w)
  /\ pc' = [pc EXCEPT ![w] = IF validator.state # "in_progress" THEN "mark" ELSE "required"]
  /\ UNCHANGED <<validator, cacheVars, late, queue, msg, requestVars, finaliserVars,
                 sent, boundVars>>

(* validator.state.value = "in_progress"; validator.save()                   *)
FinalizeMark(w) ==
  /\ pc[w] = "mark"
  /\ save(w, "in_progress", seen[w].conclusion, validator.by)
  /\ pc' = [pc EXCEPT ![w] = "required"]
  /\ UNCHANGED <<cacheVars, late, queue, msg, handlerVars, sent, boundVars>>

(* required_checks = cache.get(checks_key)                                   *)
FinalizeRequired(w) ==
  /\ pc[w] = "required"
  /\ need' = [need EXCEPT ![w] = required[msg[w].e]]
  /\ pc' = [pc EXCEPT ![w] = "completed"]
  /\ UNCHANGED <<validator, cacheVars, late, queue, msg, requestVars, seen, miss, failed,
                 sent, boundVars>>

(* The completed checks of the execution, and the conclusions of those that  *)
(* are still required.                                                       *)
completed_checks(e) == {c \in Check : result[e][c] # "none"}

missing_checks(checks, e) == {c \in checks : c \notin completed_checks(e)}

failed_check(checks, e) ==
  \E c \in completed_checks(e) \cap checks : result[e][c] # "success"

FinalizeCompleted(w) ==
  /\ pc[w] = "completed"
  /\ miss' = [miss EXCEPT ![w] = missing_checks(need[w], msg[w].e)]
  /\ failed' = [failed EXCEPT ![w] = failed_check(need[w], msg[w].e)]
  /\ pc' = [pc EXCEPT ![w] = IF failed'[w] /\ seen[w].conclusion # "failure" THEN "save_failure"
                             ELSE IF miss'[w] # {} THEN "missing" ELSE "finish"]
  /\ UNCHANGED <<validator, cacheVars, late, queue, msg, requestVars, seen, need, sent, boundVars>>

(* validator.conclusion.value = "failure"; validator.save(), which sends the *)
(* state in_progress once more if it was not read.                           *)
FinalizeSaveFailure(w) ==
  /\ pc[w] = "save_failure"
  /\ save(w, "in_progress", "failure", msg[w].e)
  /\ pc' = [pc EXCEPT ![w] = IF miss[w] # {} THEN "missing" ELSE "finish"]
  /\ UNCHANGED <<cacheVars, late, queue, msg, handlerVars, sent, boundVars>>

(* The checks seen by this poll are taken off the list; the deadline decides *)
(* between another poll and the end.                                         *)
FinalizeMissing(w) ==
  /\ pc[w] = "missing"
  /\ required' = [required EXCEPT ![msg[w].e] = miss[w]]
  /\ pc' = [pc EXCEPT ![w] = IF late[msg[w].e] THEN "finish" ELSE "resend"]
  /\ UNCHANGED <<validator, result, late, queue, msg, handlerVars, sent, boundVars>>

(* Mutant: the handler returns without rescheduling its message.             *)
FinalizeResend_dropped(w) ==
  /\ pc[w] = "resend"
  /\ pc' = [pc EXCEPT ![w] = "ack"]
  /\ UNCHANGED <<validator, cacheVars, late, queue, msg, handlerVars, sent, boundVars>>

(* service.send(message, delay): the same message, its retry count included. *)
FinalizeResend(w) ==
  /\ pc[w] = "resend"
  /\ Send(msg[w])
  /\ pc' = [pc EXCEPT ![w] = "ack"]
  /\ UNCHANGED <<validator, cacheVars, late, msg, handlerVars, sent, boundVars>>

(* Mutant: the timeout does not fail the validator.                          *)
final_conclusion_no_timeout(w) == IF failed[w] THEN "failure" ELSE "success"

(* conclusion: "failure" on a timeout or when THIS poll saw a failed check.  *)
final_conclusion(w) == IF miss[w] # {} \/ failed[w] THEN "failure" ELSE "success"

FinalizeFinish(w) ==
  /\ pc[w] = "finish"
  /\ save(w, "completed", final_conclusion(w), msg[w].e)
  /\ pc' = [pc EXCEPT ![w] = "ack"]
  /\ UNCHANGED <<cacheVars, late, queue, msg, handlerVars, sent, boundVars>>

(* The clock passes start_time + maximum_validator_execution_time.           *)
DeadlinePasses(e) ==
  /\ e \in used
  /\ ~late[e]
  /\ late' = [late EXCEPT ![e] = TRUE]
  /\ UNCHANGED <<validator, cacheVars, queue, pc, msg, handlerVars, sent, boundVars>>

-----------------------------------------------------------------------------
(* The steps a live consumer takes by itself.                                *)
Handle(w) ==
  \/ Ack(w)
  \/ RequestFetch(w) \/ RequestReset(w) \/ RequestStoreChecks(w)
  \/ RequestSendCheck(w) \/ RequestSendFinalize(w)
  \/ RunCheck(w)
  \/ FinalizeRead(w) \/ FinalizeMark(w) \/ FinalizeRequired(w) \/ FinalizeCompleted(w)
  \/ FinalizeSaveFailure(w) \/ FinalizeMissing(w) \/ FinalizeResend(w) \/ FinalizeFinish(w)

Next ==
  \/ Rerun
  \/ \E w \in Worker : Receive(w) \/ Handle(w) \/ Crash(w) \/ HandlerException(w)
  \/ \E e \in Exec : DeadlinePasses(e)

Spec == Init /\ [][Next]_vars

(* The broker keeps delivering to live consumers, a coroutine that can       *)
(* continue is resumed by the event loop, and time passes.  Neither crashes  *)
(* nor exceptions are fair.                                                  *)
Fairness ==
  /\ \A w \in Worker : WF_vars(Receive(w)) /\ WF_vars(Handle(w))
  /\ \A e \in Exec : WF_vars(DeadlinePasses(e))

FairSpec == Spec /\ Fairness

-----------------------------------------------------------------------------
TypeOK ==
  /\ validator \in [state : ValidatorState, conclusion : Conclusion, by : Exec \cup {NoExec}]
  /\ required \in [Exec -> SUBSET Check]
  /\ result \in [Exec -> [Check -> {"none", "success", "failure"}]]
  /\ late \in [Exec -> BOOLEAN]
  /\ queue \in [Msg -> Nat]
  /\ pc \in [Worker -> Steps]
  /\ msg \in [Worker -> Msg \cup {NoMsg}]
  /\ exec \in [Worker -> Exec \cup {NoExec}]
  /\ unsent \in [Worker -> SUBSET Check]
  /\ seen \in [Worker -> [state : ValidatorState, conclusion : Conclusion]]
  /\ need \in [Worker -> SUBSET Check]
  /\ miss \in [Worker -> SUBSET Check]
  /\ failed \in [Worker -> BOOLEAN]
  /\ used \subseteq Exec
  /\ sent \subseteq Exec \X Check
  /\ faults \in 0..MaxFaults
  /\ crashes \in 0..MaxCrashes
  /\ reruns \in 0..MaxReruns

(* The conclusion of a validator is success only when the execution whose    *)
(* finaliser wrote it has a result for every check: not when polls shrink    *)
(* the list of required checks, not when a crash duplicates the finaliser,   *)
(* not when the finaliser of an older execution leaves part of its answer    *)
(* out because it has read it before.                                        *)
SuccessIsComplete ==
  validator.conclusion = "success" => completed_checks(validator.by) = Check

(* A check whose ids travel in the meta of its message is accounted for: it  *)
(* has a result, or a copy of its message is still with the bus or a worker, *)
(* whatever exceptions, retries and crashes happen.                          *)
InFlight(e, c) ==
  \/ \E m \in CheckMsg : m.e = e /\ m.c = c /\ queue[m] > 0
  \/ \E w \in Worker : pc[w] \notin {"idle", "ack"} /\ msg[w].type = "check"
                       /\ msg[w].e = e /\ msg[w].c = c

CheckAccountedFor ==
  \A e \in Exec : \A c \in MetaCheck :
    <<e, c>> \in sent => result[e][c] # "none" \/ InFlight(e, c)

(* The docstring of execution(): a poll that sees the result of a check      *)
(* "will exclude it from further checks and update the current conclusion of *)
(* the validator if any of the checks failed".                               *)
FailedCheckFailsValidator ==
  validator.state = "completed" /\ validator.conclusion = "success" =>
    \A c \in Check : result[validator.by][c] # "failure"

(* A finaliser that has read a validator as completed, because its message   *)
(* was delivered again or another execution has ended since.                 *)
ReadsCompleted(w) == msg[w].type = "finalize" /\ seen[w].state = "completed"

(* "The message will get rescheduled until the timeout has exceeded or until *)
(* all checks are accounted for": with no more exceptions than the retries   *)
(* of one message, whatever workers die and however often the validator is   *)
(* run again, it ends completed and stays so, unless a finaliser has read it *)
(* as completed.  (A request for which the bound on execution ids leaves     *)
(* none is not counted against it.)                                          *)
ValidatorCompletes ==
  [](/\ faults <= RetryLimit
     /\ \A w \in Worker : (pc[w] = "reset" => used # Exec) /\ ~ ReadsCompleted(w))
    => <>[](validator.state = "completed")

(* The messages, polls, retries, crashes and overlapping executions together *)
(* do only what a validator promises: every step of the handlers is a step   *)
(* of ValidatorJob or changes nothing that one can see of it.                *)
Job == INSTANCE ValidatorJob WITH
         state <- validator.state,
         conclusion <- validator.conclusion,
         started <- used,
         reported <- [e \in Exec |-> completed_checks(e)]

ImplementsJob == Job!Spec
=============================================================================
