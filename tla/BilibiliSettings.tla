-------------------------- MODULE BilibiliSettings --------------------------
(***************************************************************************)
(* The configuration of the Bilibili plugin as data: what validate and the *)
(* configured plugin accept, what the manifest and the runner declare for  *)
(* it, and the delay after failed polls.  Names, ids and intervals are     *)
(* left out but for the account and the kinds of a subscription.           *)
(* NoKindRule and WrappingShift are mutants of what follows them.          *)
(***************************************************************************)
EXTENDS Naturals, FiniteSets

Kinds == {"Live", "Dynamic", "Video"}
PollProtocol(kind) == <<"poll", kind>>
PollKind(protocol) == CHOOSE kind \in Kinds : PollProtocol(kind) = protocol

Backends == {"web_cookie", "open_platform"}
AuthorizedUid == 1
SubscriptionSettings == [uid : {1, 2}, kinds : SUBSET Kinds]

\* One subscription is enough: the rules speak of one at a time.
Configurations ==
  [backend : Backends, management : BOOLEAN, allowSelf : BOOLEAN, selfBinding : SUBSET Kinds,
   riskControl : BOOLEAN, linkResolver : BOOLEAN, subscription : SubscriptionSettings]
Hosts == [secretFile : BOOLEAN, productFile : BOOLEAN]

NoKindRule(c) ==
  /\ ~c.management /\ ~c.riskControl /\ ~c.linkResolver
  /\ c.subscription.uid = AuthorizedUid
OpenPlatformRules(c) ==
  /\ ~c.management /\ ~c.riskControl /\ ~c.linkResolver
  /\ c.subscription.uid = AuthorizedUid
  /\ "Dynamic" \notin c.subscription.kinds

Validates(c) ==
  /\ c.backend = "open_platform" => OpenPlatformRules(c)
  /\ c.subscription.kinds # {}
  /\ c.management /\ c.allowSelf => c.selfBinding # {}

\* What prepare asks of the host: a secret it can rotate, a file to write.
Prepares(c, host) ==
  /\ Validates(c)
  /\ c.backend = "open_platform" => host.secretFile
  /\ c.management => host.secretFile /\ host.productFile

Mode(c) == IF c.backend = "open_platform" THEN "open_platform"
           ELSE IF c.management THEN "managed" ELSE "unmanaged"
Modes == {Mode(c) : c \in {d \in Configurations : \E host \in Hosts : Prepares(d, host)}}

\* manifest_for_backend and runner_descriptor list the protocols apart.
ManifestProtocols(c) ==
  {PollProtocol("Live"), PollProtocol("Video")}
    \cup (IF c.backend = "web_cookie" THEN {PollProtocol("Dynamic"), <<"link">>} ELSE {})
    \cup (IF c.management THEN {<<"command">>} ELSE {})
RunnerProtocols(c) ==
  (IF c.backend = "web_cookie" THEN {PollProtocol(k) : k \in Kinds} \cup {<<"link">>}
   ELSE {PollProtocol(k) : k \in {"Live", "Video"}})
    \cup (IF c.management THEN {<<"command">>} ELSE {})

\* What the running plugin is asked for: polls of its subscriptions and of those
\* it can be given later, links, commands.
Asked(c) ==
  {PollProtocol(k) : k \in c.subscription.kinds \cup (IF c.management THEN Kinds ELSE {})}
    \cup (IF c.linkResolver THEN {<<"link">>} ELSE {})
    \cup (IF c.management THEN {<<"command">>} ELSE {})

-----------------------------------------------------------------------------
(* The delay after failed polls of one key, in words of WordBits bits.     *)

CONSTANT WordBits
ASSUME WordAssumption == WordBits \in Nat \ {0}

VARIABLES
  retry,      \* configuration: initial and largest delay, max_attempts
  attempts,   \* failures: the entry of the key, 0 for none
  delay       \* the delay of its next poll after a failure

backoff == <<retry, attempts, delay>>

Saturated(n) == IF n < 2^WordBits THEN n ELSE 2^WordBits - 1
WrappingShift(shift) == 2^(shift % WordBits)
Multiplier(shift) == IF shift < WordBits THEN 2^shift ELSE 2^WordBits - 1
RetryDelay(failed) ==
  LET grown == Saturated(retry.initial * Multiplier(failed - 1))
  IN IF grown < retry.max THEN grown ELSE retry.max

Retries == {r \in [initial : 1..(2^WordBits - 1), max : 1..(2^WordBits - 1), limit : 1..(WordBits + 2)] :
              r.initial <= r.max}

BackoffInit == retry \in Retries /\ attempts = 0 /\ delay = 0

PollGoesWrong ==
  /\ attempts' = IF attempts < retry.limit THEN attempts + 1 ELSE retry.limit
  /\ delay' = RetryDelay(attempts')
  /\ UNCHANGED retry

PollGoesWell ==
  /\ attempts > 0
  /\ attempts' = 0 /\ delay' = 0
  /\ UNCHANGED retry

-----------------------------------------------------------------------------
\* Between two successes the delay starts at the configured one, never shrinks
\* and stays below the largest, however many failures there are: neither the
\* shift nor the product wraps round its word (retry_delay and the count that
\* max_attempts caps).
DelayNeverShrinks ==
  [][attempts' > 0 => /\ delay' \in retry.initial..retry.max
                      /\ delay <= delay']_backoff
=============================================================================
