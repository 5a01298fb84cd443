-------------------------- MODULE BilibiliBackends --------------------------
(***************************************************************************)
(* The Bilibili plugin with the backend its configuration selects, as the  *)
(* configured plugin prepares it (service-host-integration/src/            *)
(* configured.rs): the management of a web_cookie backend, a web_cookie    *)
(* backend without management, or the open_platform backend.               *)
(***************************************************************************)
EXTENDS BilibiliManagement, BilibiliOAuth, BilibiliSettings

VARIABLE mode

backendVars == <<mode, managementVars, oauthVars, backoff>>

\* Without its backend, no bundle is loaded and nothing is polled.
OAuthOff ==
  /\ bundle = 0 /\ stored = 1
  /\ server = [current |-> 1, expired |-> FALSE]
  /\ due = {} /\ unforeseen = {} /\ scopeless = {}
  /\ poll = NoPoll
  /\ loader = [at |-> "off", read |-> 0]
  /\ oauthBounds = [faults |-> 0, stops |-> 0]
  /\ lost = FALSE /\ raced = FALSE /\ spent = FALSE

BackendInit ==
  /\ mode \in Modes
  /\ ManagementInit
  /\ IF mode = "open_platform" THEN OAuthInit ELSE OAuthOff
  /\ IF mode = "unmanaged" THEN BackoffInit
     ELSE retry = [initial |-> 1, max |-> 1, limit |-> 1] /\ attempts = 0 /\ delay = 0

BackendNext ==
  \/ mode = "managed" /\ ManagementNext /\ UNCHANGED <<mode, oauthVars, backoff>>
  \/ /\ mode = "unmanaged"
     /\ \/ (SourceReads \/ SourceLoads \/ SourceStops) /\ UNCHANGED backoff
        \/ (PollGoesWrong \/ PollGoesWell) /\ UNCHANGED managementVars
     /\ UNCHANGED <<mode, oauthVars>>
  \/ mode = "open_platform" /\ OAuthNext /\ UNCHANGED <<mode, managementVars, backoff>>

BackendSpec == BackendInit /\ [][BackendNext]_backendVars /\ OAuthFairness

\* An administrator who picked the subscription id the web would give operator
\* o1, so that ids can collide.
MCAdminIds == {<<"web", "o1">>}

ServedModes ==
  {m \in Modes : \A c \in Configurations : (Mode(c) = m /\ Validates(c)) =>
     /\ ManifestProtocols(c) = RunnerProtocols(c)
     /\ Asked(c) \subseteq RunnerProtocols(c)
     /\ \A kind \in Kinds : PollKind(PollProtocol(kind)) = kind}

\* Whatever a configuration of the running backend makes the plugin ask for, now
\* or after a subscription is added, its manifest declares and its runner takes,
\* and the two lists agree (validate, manifest_for_backend, runner_descriptor).
EveryRequestServed == mode \in ServedModes
=============================================================================
