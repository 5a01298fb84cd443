----------------------------- MODULE BotEvents -----------------------------
(***************************************************************************)
(* From a Gateway frame to a command: the frame mapper of the QQ adapter   *)
(* (QqGatewayMapRunner), the event router and the command parser are       *)
(* runners that the host gives batches of tasks, in the order they were    *)
(* submitted; each entry of a batch completes with child tasks or fails    *)
(* alone.  The queues are the host's, one for each runner and one for the  *)
(* handlers of commands.                                                   *)
(*                                                                         *)
(* Text is a sequence of words and marks, a name the tokens that follow a  *)
(* prefix.  AnyPrefix is a mutant of what follows.                         *)
(***************************************************************************)
EXTENDS Naturals, Sequences, SequencesExt, FiniteSets

CONSTANTS
  Frames,         \* what the pump may submit
  Subscriptions,  \* of the router, in configuration order
  CommandPrefixes,  \* in configuration order
  BatchSize, MaxFrames   \* bounds

ASSUME EventsAssumption ==
  /\ BatchSize \in Nat \ {0} /\ MaxFrames \in Nat
  /\ \A frame \in Frames : frame.text \in Seq(STRING)
  /\ Subscriptions \in Seq(Range(Subscriptions)) /\ Len(Subscriptions) > 0          \* EventRouterConfig
  /\ CommandPrefixes \in Seq(Seq(STRING)) /\ Len(CommandPrefixes) > 0
  /\ \A i \in DOMAIN CommandPrefixes : CommandPrefixes[i] # <<>>   \* BotCommandConfig

VARIABLES
  submitted,   \* the frames, in order
  frameTasks, ingestTasks, parseTasks, handleTasks,   \* the queues
  eventTasks,  \* dispatched to other handlers, whose affair they are
  sequence,    \* next_sequence of the router
  taken        \* the commands that handlers have taken, in order

eventVars == <<submitted, frameTasks, ingestTasks, parseTasks, handleTasks, eventTasks,
               sequence, taken>>

-----------------------------------------------------------------------------
(* A frame as a bot event.                                                 *)

MessageTypes == {"GROUP_MESSAGE_CREATE", "GROUP_AT_MESSAGE_CREATE", "C2C_MESSAGE_CREATE"}

\* qq_target_from_payload: the group before the person; a person may be named
\* by the author or next to it.
Target(frame) ==
  IF frame.group # "none" THEN frame.group
  ELSE IF frame.author # "none" THEN frame.author
  ELSE IF frame.type \in {"GROUP_MESSAGE_CREATE", "GROUP_AT_MESSAGE_CREATE"} THEN "unknown_group"
  ELSE IF frame.type = "C2C_MESSAGE_CREATE" THEN "unknown_user" ELSE "elsewhere"

\* The mention of the bot is dropped where QQ puts it.
Content(frame) ==
  IF frame.type = "GROUP_AT_MESSAGE_CREATE" /\ frame.text # <<>> /\ Head(frame.text) = "@bot"
    THEN Tail(frame.text) ELSE frame.text

EventKind(type) ==
  IF type \in MessageTypes THEN "message_created"
  ELSE IF type \in {"READY", "RESUMED"} THEN "bot_connected" ELSE "platform_specific"

Actor(frame) == frame.author
BotMessage(frame) ==
  IF frame.type \in MessageTypes THEN [text |-> Content(frame), message |-> frame.id]
  ELSE [text |-> <<>>, message |-> "none"]
EventOf(frame) ==
  [event |-> frame.id, kind |-> EventKind(frame.type), target |-> Target(frame), actor |-> Actor(frame),
   text |-> BotMessage(frame).text, message |-> BotMessage(frame).message]

-----------------------------------------------------------------------------
(* The runners.                                                            *)

FirstOf(queue, n) == SubSeq(queue, 1, n)
Beyond(queue, n) == SubSeq(queue, n + 1, Len(queue))
BatchOf(queue) == 1..(IF Len(queue) < BatchSize THEN Len(queue) ELSE BatchSize)

EventsInit ==
  /\ submitted = <<>> /\ taken = <<>> /\ sequence = 0
  /\ frameTasks = <<>> /\ ingestTasks = <<>> /\ parseTasks = <<>>
  /\ handleTasks = <<>> /\ eventTasks = <<>>

\* The pump submits a frame under a task of its own.
SubmitFrame ==
  /\ Len(submitted) < MaxFrames
  /\ \E frame \in Frames :
       /\ submitted' = Append(submitted, frame)
       /\ frameTasks' = Append(frameTasks, [id |-> <<Len(submitted) + 1>>, correlation |-> Len(submitted) + 1,
                                            payload |-> frame])
  /\ UNCHANGED <<ingestTasks, parseTasks, handleTasks, eventTasks, sequence, taken>>

\* Only a dispatch maps to an event.
IngestTasks(task) ==
  IF task.payload.op # 0 THEN <<>>
  ELSE <<[id |-> task.id \o <<"ingest">>, correlation |-> task.correlation,
          payload |-> EventOf(task.payload)]>>

MapFrames ==
  \E n \in BatchOf(frameTasks) :
    /\ ingestTasks' = ingestTasks \o FlattenSeq([i \in 1..n |-> IngestTasks(frameTasks[i])])
    /\ frameTasks' = Beyond(frameTasks, n)
    /\ UNCHANGED <<submitted, parseTasks, handleTasks, eventTasks, sequence, taken>>

\* matches_subscription: "any" and nothing match every value.
Matches(event, subscription) ==
  /\ subscription.platform \in {"none", "any", "qqbot"}
  /\ subscription.kind \in {"none", event.kind}
Matching(event) ==
  FlattenSeq([s \in DOMAIN Subscriptions |->
                IF Matches(event, Subscriptions[s]) THEN <<Subscriptions[s]>> ELSE <<>>])

\* route: every matching subscription is given a task, numbered on from the last.
Before(batch, i) == FoldLeft(LAMBDA sum, task : sum + Len(Matching(task.payload)), 0, FirstOf(batch, i - 1))
DispatchTasks(batch, i) ==
  [j \in 1..Len(Matching(batch[i].payload)) |->
     [id |-> <<"dispatch", batch[i].payload.event, sequence + Before(batch, i) + j>>,
      correlation |-> batch[i].correlation,
      protocol |-> Matching(batch[i].payload)[j].protocol, payload |-> batch[i].payload]]

OfProtocol(children, protocol) ==
  FlattenSeq([c \in DOMAIN children |->
                IF children[c].protocol = protocol THEN <<children[c]>> ELSE <<>>])

Route ==
  \E n \in BatchOf(ingestTasks) :
    LET batch == FirstOf(ingestTasks, n)
        children == FlattenSeq([i \in 1..n |-> DispatchTasks(batch, i)])
    IN /\ sequence' = sequence + Before(Append(batch, batch[1]), n + 1)
       /\ parseTasks' = parseTasks \o OfProtocol(children, "parse")
       /\ eventTasks' = eventTasks \o OfProtocol(children, "event")
       /\ ingestTasks' = Beyond(ingestTasks, n)
       /\ UNCHANGED <<submitted, frameTasks, handleTasks, taken>>

\* CommandParser: the first prefix of the configuration that the text begins
\* with; what follows it is the name, in lower case.
Lower(name) == [i \in DOMAIN name |-> IF name[i] = "ECHO" THEN "echo" ELSE name[i]]
AnyPrefix(text) ==
  IF \E i \in DOMAIN CommandPrefixes : IsPrefix(CommandPrefixes[i], text)
    THEN CHOOSE i \in DOMAIN CommandPrefixes : IsPrefix(CommandPrefixes[i], text) /\
           \A k \in DOMAIN CommandPrefixes : IsPrefix(CommandPrefixes[k], text) => Len(CommandPrefixes[k]) <= Len(CommandPrefixes[i])
    ELSE 0
PrefixOf(text) == SelectInSeq(CommandPrefixes, LAMBDA p : IsPrefix(p, text))
CommandName(text) == Lower(Beyond(text, Len(CommandPrefixes[PrefixOf(text)])))

\* A message that is no command completes without a child; a prefix without a
\* name fails.
HandleTasks(task) ==
  LET event == task.payload
  IN IF \/ event.kind # "message_created"
        \/ PrefixOf(event.text) = 0
        \/ CommandName(event.text) = <<>> THEN <<>>
     ELSE <<[id |-> <<"handle">> \o task.id, correlation |-> task.correlation,
             binding |-> CommandName(event.text), payload |-> event]>>

ParseCommands ==
  \E n \in BatchOf(parseTasks) :
    /\ handleTasks' = handleTasks \o FlattenSeq([i \in 1..n |-> HandleTasks(parseTasks[i])])
    /\ parseTasks' = Beyond(parseTasks, n)
    /\ UNCHANGED <<submitted, frameTasks, ingestTasks, eventTasks, sequence, taken>>

TakeCommand ==
  /\ handleTasks # <<>>
  /\ taken' = Append(taken, Head(handleTasks))
  /\ handleTasks' = Tail(handleTasks)
  /\ UNCHANGED <<submitted, frameTasks, ingestTasks, parseTasks, eventTasks, sequence>>

Runners == MapFrames \/ Route \/ ParseCommands

-----------------------------------------------------------------------------
(* Properties.                                                             *)

Commands == taken \o handleTasks

\* Which command a frame is: the message, without the mention of the bot where
\* the group needs one, begins with a prefix, the first that fits, and a name follows it.
Asks(frame, name) ==
  \E i \in DOMAIN CommandPrefixes, mention \in {<<>>, <<"@bot">>} :
    LET begins(k) == IsPrefix(mention \o CommandPrefixes[k], frame.text)
    IN /\ frame.op = 0 /\ frame.type \in MessageTypes
       /\ mention = <<"@bot">> <=> frame.type = "GROUP_AT_MESSAGE_CREATE" /\ IsPrefix(<<"@bot">>, frame.text)
       /\ begins(i) /\ \A k \in 1..(i - 1) : ~begins(k)
       /\ name = Lower(Beyond(frame.text, Len(mention \o CommandPrefixes[i]))) /\ name # <<>>

\* Each message that is a command becomes one task for the owner of its name for
\* every subscription of the parser that matches, in the order the messages
\* arrived and with their correlation, in whatever batches the runners work;
\* nothing else becomes one (run_batch of the three runners).
CommandsOnce ==
  /\ \A i \in DOMAIN Commands :
       /\ Asks(submitted[Commands[i].correlation], Commands[i].binding)
       /\ i > 1 => Commands[i - 1].correlation <= Commands[i].correlation
  /\ (frameTasks = <<>> /\ ingestTasks = <<>> /\ parseTasks = <<>>) =>
       \A f \in DOMAIN submitted :
         Cardinality({i \in DOMAIN Commands : Commands[i].correlation = f}) =
           IF \E name \in {Beyond(submitted[f].text, k) : k \in 1..Len(submitted[f].text)} : Asks(submitted[f], Lower(name))
             THEN Cardinality({s \in DOMAIN Subscriptions :
                    /\ Subscriptions[s].protocol = "parse" /\ Subscriptions[s].platform \in {"none", "any", "qqbot"}
                    /\ Subscriptions[s].kind \in {"none", "message_created"}})
             ELSE 0
=============================================================================
