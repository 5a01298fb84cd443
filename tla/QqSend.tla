------------------------------- MODULE QqSend -------------------------------
(***************************************************************************)
(* Sending to QQ: the OpenAPI runner (plugin-bot-adapter-qqbot/src/tasks/  *)
(* mod.rs) executes the tasks it is given one after the other, each by one *)
(* or more requests of the service (api/service.rs): the parts of a        *)
(* message, the blocks of an upload.  The transport (api/transport.rs)     *)
(* repeats a request that failed on the way, so that the server may have   *)
(* taken it more than once; only the PUT of a block is sent once.          *)
(*                                                                         *)
(* The access token is the subject of QqAuth; here a request is taken by   *)
(* the server or not, and answered or not.  The msg_seq of a message is a  *)
(* counter of SeqBits bits that starts anywhere.  What the server does     *)
(* with a msg_seq it has seen is its own affair: posts keeps every body    *)
(* that arrived, save the immediate repetition of the one before.          *)
(* TextAtEnd, FreshSequence, OpenOnly and StartOver are mutants of what    *)
(* follows them.                                                           *)
(***************************************************************************)
EXTENDS Naturals, Sequences, SequencesExt, FiniteSets

CONSTANTS
  SeqBits,      \* width of msg_seq, 16 in the code
  Seeds,        \* where the clock may start it
  Resources,    \* what the resource may be at first
  MaxAttempts,  \* max_retry_attempts
  MaxTasks      \* bound

ASSUME SendAssumption ==
  /\ SeqBits \in Nat \ {0}
  /\ Seeds \subseteq 0..(2^SeqBits - 1)
  /\ MaxAttempts \in Nat \ {0}
  /\ Resources \subseteq [generation : {1}, hinted : BOOLEAN, hashed : BOOLEAN, provider : BOOLEAN]
  /\ MaxTasks \in Nat

VARIABLES
  tasks,     \* what was submitted, in order
  outcome,   \* of each task: "none", "completed" or "failed"
  running,   \* the task the runner is at, 0 for none
  work,      \* how far it is
  nextSeq,   \* SystemQqIdSource
  messages,  \* history: how many messages have taken their msg_seq from it
  posts,     \* the server: messages taken, in order
  upload,    \* the server: the upload under way
  resource   \* the media resource that images name, and its provider

sendVars == <<tasks, outcome, running, work, nextSeq, messages, posts, upload, resource>>

Texts == {"text", "mention"}
NoWork == [at |-> "idle"]
NoImage == [generation |-> 0, parts |-> 0, finished |-> {}]

\* What a task may ask for: a message, the upload of the resource, or a single
\* request, which account and status queries, recalls and raw calls are.  A
\* resource is named together with its generation.
Message(target, reply, segments) ==
  [op |-> "send", target |-> target, reply |-> reply, segments |-> segments,
   generation |-> resource.generation]
MediaUpload == [op |-> "upload", segments |-> <<>>, generation |-> resource.generation]
SingleRequest == [op |-> "single"]
Malformed == [op |-> "malformed"]

-----------------------------------------------------------------------------
(* The parts of a message: runs of text between images.                    *)

FirstOther(rest) == SelectInSeq(rest, LAMBDA x : x \notin Texts)
TextGroup(rest) ==
  IF FirstOther(rest) = 0 THEN rest ELSE SubSeq(rest, 1, FirstOther(rest) - 1)
AfterGroup(rest) == SubSeq(rest, Len(TextGroup(rest)) + 1, Len(rest))

\* What the next rounds of send_bot_message's loop come to: text is sent only
\* once an image or the end follows it.
Upcoming(rest) ==
  IF rest = <<>> THEN "done"
  ELSE IF AfterGroup(rest) # <<>> /\ Head(AfterGroup(rest)) # "image" THEN "unsupported"
  ELSE IF TextGroup(rest) # <<>> THEN "text" ELSE "prepare"

\* The runner goes on with a step that has not been attempted.  A message that
\* is to be posted takes the next msg_seq once, before its first attempt.
Sending == {"text", "media"}
Goes(step) ==
  /\ work' = [step EXCEPT !.tries = 1, !.seq = nextSeq]
  /\ IF step.at \in Sending
       THEN nextSeq' = (nextSeq + 1) % 2^SeqBits /\ messages' = messages + 1
       ELSE UNCHANGED <<nextSeq, messages>>

TextAtEnd(rest) ==
  LET reordered == SelectSeq(rest, LAMBDA x : x = "image") \o SelectSeq(rest, LAMBDA x : x # "image")
  IN [at |-> Upcoming(reordered), rest |-> reordered, block |-> 0, generation |-> 0, tries |-> 1, seq |-> 0]
SendFrom(rest) ==
  [at |-> Upcoming(rest), rest |-> rest, block |-> 0, generation |-> 0, tries |-> 1, seq |-> 0]
At(step) == [work EXCEPT !.at = step]

-----------------------------------------------------------------------------
Blocks(generation) == IF generation = 1 THEN 2 ELSE 1

SendInit ==
  /\ tasks = <<>> /\ outcome = <<>> /\ running = 0 /\ work = NoWork
  /\ nextSeq \in Seeds /\ messages = 0
  /\ posts = <<>> /\ upload = NoImage
  /\ resource \in Resources

Submitted(operation) ==
  /\ Len(tasks) < MaxTasks
  /\ tasks' = Append(tasks, operation)
  /\ outcome' = Append(outcome, "none")

Ends(result) ==
  /\ outcome' = [outcome EXCEPT ![running] = result]
  /\ running' = 0 /\ work' = NoWork
  /\ UNCHANGED <<nextSeq, messages>>

Waiting == {t \in 1..Len(tasks) : outcome[t] = "none"}

\* A payload that does not decode fails alone, as does a target QQ does not
\* have; uploads are accepted only where there is a media provider.
Undeliverable(task) ==
  \/ task.op = "malformed"
  \/ task.op = "send" /\ task.target = "elsewhere"
  \/ task.op = "upload" /\ ~resource.provider

FirstStep(task) ==
  CASE task.op = "send" -> SendFrom(task.segments)
    [] task.op = "upload" -> [SendFrom(<<>>) EXCEPT !.at = "prepare"]
    [] task.op = "single" -> [SendFrom(<<>>) EXCEPT !.at = "single"]

Take ==
  /\ running = 0 /\ Waiting # {}
  /\ LET t == CHOOSE x \in Waiting : \A y \in Waiting : x <= y
     IN \/ /\ Undeliverable(tasks[t])
           /\ outcome' = [outcome EXCEPT ![t] = "failed"]
           /\ UNCHANGED <<running, work, nextSeq, messages>>
        \/ /\ ~Undeliverable(tasks[t])
           /\ running' = t /\ Goes(FirstStep(tasks[t]))
           /\ UNCHANGED outcome
  /\ UNCHANGED <<tasks, posts, upload, resource>>

-----------------------------------------------------------------------------
(* Requests.                                                               *)

Post ==
  [task |-> running, left |-> Len(work.rest), target |-> tasks[running].target,
   reply |-> IF work.at = "text" THEN tasks[running].reply ELSE "none",
   body |-> IF work.at = "text" THEN TextGroup(work.rest) ELSE <<"image">>,
   nth |-> messages, seq |-> work.seq, media |-> IF work.at = "text" THEN NoImage ELSE upload]

\* What the server does with a request it takes.  It makes room for as many
\* blocks as the size it was told asks for, none if it was told none.
Effect ==
  /\ posts' = IF work.at \in Sending /\ (posts = <<>> \/ Last(posts) # Post)
                THEN Append(posts, Post) ELSE posts
  /\ upload' =
       CASE work.at = "prepare" ->
              [NoImage EXCEPT !.parts = IF resource.hinted THEN Blocks(tasks[running].generation) ELSE 0]
         [] work.at = "part_finish" ->
              [upload EXCEPT !.finished = @ \cup {work.block}, !.generation = work.generation]
         [] OTHER -> upload

NoEffect == UNCHANGED <<posts, upload>>

\* What follows a request that was answered well.
Continue ==
  CASE work.at = "text" -> Goes(SendFrom(AfterGroup(work.rest))) /\ UNCHANGED <<outcome, running>>
    [] work.at = "media" -> Goes(SendFrom(Tail(work.rest))) /\ UNCHANGED <<outcome, running>>
    [] work.at = "prepare" -> Goes(At("open")) /\ UNCHANGED <<outcome, running>>
    [] work.at = "part_finish" ->
         /\ Goes(IF work.block < Blocks(work.generation)
                   THEN [At("put") EXCEPT !.block = @ + 1] ELSE At("exchange"))
         /\ UNCHANGED <<outcome, running>>
    [] work.at = "exchange" /\ work.rest # <<>> -> Goes(At("media")) /\ UNCHANGED <<outcome, running>>
    [] OTHER -> Ends("completed")

FreshSequence == [work EXCEPT !.tries = @ + 1, !.seq = (@ + 1) % 2^SeqBits]
StartOver == [work EXCEPT !.tries = 1, !.seq = (@ + 1) % 2^SeqBits]
AnotherAttempt == [work EXCEPT !.tries = @ + 1]

Requests == {"text", "media", "prepare", "part_finish", "exchange", "single"}
Requesting == running # 0 /\ work.at \in Requests

\* execute_json: an answer; no answer, 429 or a server error, whatever the
\* server did; or an answer that ends the task: another status, or one that
\* cannot be used although the request was taken.
Answered == Effect /\ Continue
Lost ==
  /\ Effect \/ NoEffect
  /\ \/ /\ work.tries < MaxAttempts
        /\ work' = AnotherAttempt
        /\ UNCHANGED <<outcome, running, nextSeq, messages>>
     \/ /\ work.tries >= MaxAttempts
        /\ Ends("failed")
Refused == (Effect \/ NoEffect) /\ Ends("failed")

Request ==
  /\ Requesting
  /\ Answered \/ Lost \/ Refused
  /\ UNCHANGED <<tasks, resource>>

-----------------------------------------------------------------------------
(* The resource, read between the requests of an upload.                   *)

ReadResource(guard, next) ==
  \/ /\ guard
     /\ Goes(next)
     /\ UNCHANGED <<outcome, running>>
  \/ Ends("failed")     \* guard does not hold, or the read fails

\* The descriptor is opened again and has to be of the generation that the
\* task names.
OpenDescriptor ==
  /\ running # 0 /\ work.at = "open"
  /\ ReadResource(resource.provider /\ resource.generation = tasks[running].generation, At("collect"))
  /\ UNCHANGED <<tasks, posts, upload, resource>>

\* The bytes are collected after it: those of a later generation are noticed
\* by the hash of the descriptor, if it has one.
OpenOnly == TRUE
DigestMatches == resource.hashed => resource.generation = tasks[running].generation
Collect ==
  /\ running # 0 /\ work.at = "collect"
  /\ ReadResource(DigestMatches, [At("put") EXCEPT !.block = 1, !.generation = resource.generation])
  /\ UNCHANGED <<tasks, posts, upload, resource>>

\* A block is sent once, to the address the server gave for it.
PutBlock ==
  /\ running # 0 /\ work.at = "put"
  /\ ReadResource(work.block <= upload.parts, At("part_finish"))
  /\ UNCHANGED <<tasks, posts, upload, resource>>

\* The loop over the segments is through, or meets one it cannot send: what was
\* sent before it stays sent.
Finish ==
  /\ running # 0 /\ work.at \in {"done", "unsupported"}
  /\ Ends(IF work.at = "done" THEN "completed" ELSE "failed")
  /\ UNCHANGED <<tasks, posts, upload, resource>>

Runner == Take \/ Request \/ OpenDescriptor \/ Collect \/ PutBlock \/ Finish

\* The owner of the resource replaces it.
Replace ==
  /\ resource.generation = 1
  /\ resource' = [resource EXCEPT !.generation = 2]
  /\ UNCHANGED <<tasks, outcome, running, work, nextSeq, messages, posts, upload>>

-----------------------------------------------------------------------------
(* Properties.                                                             *)

Arrived(t) ==
  FlattenSeq([i \in DOMAIN posts |-> IF posts[i].task = t THEN posts[i].body ELSE <<>>])

\* What has arrived of a message is at every moment a beginning of it, each
\* part once but for repetitions of an attempt; all of it has when the task
\* says it is completed (send_bot_message, service.rs:60-133).
PartsArriveInOrder ==
  \A t \in 1..Len(tasks) :
    tasks[t].op = "send" =>
      /\ IsPrefix(Arrived(t), tasks[t].segments)
      /\ outcome[t] = "completed" => Arrived(t) = tasks[t].segments

\* QQ can tell a repeated attempt from another message: the attempts of one part
\* have one msg_seq, and two messages have two, within a task or across tasks, also
\* when the counter wraps, unless it went all the way round between them
\* (ensure_msg_seq before execute_json, service.rs:47-57; SystemQqIdSource of bundle.rs).
RepeatsRecognised ==
  \A i, j \in 1..Len(posts) :
    LET samePart == posts[i].task = posts[j].task /\ posts[i].left = posts[j].left
    IN posts[i].nth <= posts[j].nth /\ posts[j].nth < posts[i].nth + 2^SeqBits =>
         (samePart <=> posts[i].seq = posts[j].seq)

\* An image that is posted has all its blocks, each confirmed, and its bytes are
\* of the resource that the message named when the resource carries a hash, also
\* when the resource is replaced while the message waits or is being sent
\* (read_chunks, media.rs:48-98, with upload_resource_chunks).
ImageIsWhole ==
  \A i \in 1..Len(posts) :
    LET image == posts[i].media
    IN posts[i].body = <<"image">> =>
         /\ image.finished = 1..Blocks(image.generation)
         /\ resource.hashed => image.generation = tasks[posts[i].task].generation

\* No request keeps a task for ever, whatever the network and the server do:
\* every task that was submitted ends (the attempts of execute_json are
\* counted, transport.rs:47-97).
TasksEnd == \A t \in 1..MaxTasks : [](t \in Waiting => <>(t \notin Waiting))
=============================================================================
