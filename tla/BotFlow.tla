------------------------------ MODULE BotFlow ------------------------------
(***************************************************************************)
(* The bot from end to end: frames become commands (BotEvents), handlers   *)
(* written with the SDK (mutsuki-bot-sdk) answer them, and the answers are *)
(* sent to QQ (QqSend).  A handler is any plugin; here it answers in the   *)
(* scene of its command, to the message that asked, with the operations    *)
(* that Answers gives for its name, submitted as one batch.                *)
(* SharedDefaults is a mutant of what follows it.                          *)
(***************************************************************************)
EXTENDS BotEvents, QqSend

CONSTANTS
  Answers,   \* the segments of the answer to a command; no other has an owner
  MaxOthers  \* how many tasks that answer nothing are submitted

ASSUME AnswersAssumption == \A name \in DOMAIN Answers : Answers[name] \in Seq(STRING)

VARIABLE origins   \* of each task sent: the correlation it carries

flowVars == <<eventVars, sendVars, origins>>

\* A handler's context has options for all its tasks, an operation may have its
\* own; each option that is given there comes first.
Defaults == [correlation |-> 0, policy |-> "cascade"]
SharedDefaults(options, defaults) == defaults
Resolve(options, defaults) ==
  [o \in DOMAIN defaults |-> IF o \in DOMAIN options THEN options[o] ELSE defaults[o]]

FlowInit == EventsInit /\ SendInit /\ origins = <<>>

\* submit_operations: all of them are submitted or none; that the handles which
\* come back are checked afterwards does not take the tasks back.
AnswerTo(command, segments) ==
  /\ Submitted(Message(command.payload.target, command.payload.message, segments))
  /\ origins' = Append(origins, Resolve([correlation |-> command.correlation], Defaults).correlation)

Handle ==
  /\ TakeCommand
  /\ LET command == Head(handleTasks)
     IN IF command.binding \in DOMAIN Answers /\ Len(tasks) < MaxTasks
          THEN AnswerTo(command, Answers[command.binding])
          ELSE UNCHANGED <<tasks, outcome, origins>>   \* no owner, or its submission fails
  /\ UNCHANGED <<running, work, nextSeq, messages, posts, upload, resource>>

\* What else plugins ask for.
OtherOperations == {MediaUpload, SingleRequest, Malformed}
SubmitOther ==
  /\ Len(SelectSeq(origins, LAMBDA o : o = 0)) < MaxOthers
  /\ \E operation \in OtherOperations : Submitted(operation)
  /\ origins' = Append(origins, 0)
  /\ UNCHANGED <<eventVars, running, work, nextSeq, messages, posts, upload, resource>>

FlowNext ==
  \/ (SubmitFrame \/ Runners) /\ UNCHANGED <<sendVars, origins>>
  \/ Handle
  \/ SubmitOther
  \/ (Runner \/ Replace) /\ UNCHANGED <<eventVars, origins>>

FlowSpec == FlowInit /\ [][FlowNext]_flowVars

\* The host runs the OpenAPI runner while it has a task.
FairFlowSpec == FlowSpec /\ WF_flowVars(Runner /\ UNCHANGED <<eventVars, origins>>)

-----------------------------------------------------------------------------
(* Properties.                                                             *)

\* Every post answers a message somebody sent, in the scene it came from and
\* with what its command asks for; its text names the message it answers, so
\* that QQ counts it as an answer (target_map.rs:6, service.rs:127, context.rs).
AnswersReturn ==
  \A i \in DOMAIN posts :
    LET origin == origins[posts[i].task]
    IN /\ origin \in DOMAIN submitted
       /\ posts[i].target = Target(submitted[origin])
       /\ posts[i].body # <<"image">> => posts[i].reply = submitted[origin].id
       /\ \E name \in DOMAIN Answers :
            Asks(submitted[origin], name) /\ tasks[posts[i].task].segments = Answers[name]
=============================================================================
