---------------------------- MODULE EventChannel ----------------------------
(***************************************************************************)
(* What the Gateway event source promises to Core: the events of the QQ    *)
(* account are numbered in the order the Gateway publishes them, and Core  *)
(* gets some of them, each at most once and in that order.  Which ones are *)
(* left out (those of a lost session, of an unknown type, or rejected by   *)
(* Core) is not said here.                                                 *)
(***************************************************************************)
EXTENDS Naturals, Sequences

VARIABLES
  published,  \* how many events the Gateway has published
  delivered   \* the numbers of the events Core accepted, oldest first

ChannelInit ==
  /\ published = 0
  /\ delivered = <<>>

Publish ==
  /\ published' = published + 1
  /\ UNCHANGED delivered

LastDelivered == IF delivered = <<>> THEN 0 ELSE delivered[Len(delivered)]

Deliver ==
  /\ \E e \in LastDelivered + 1 .. published : delivered' = Append(delivered, e)
  /\ UNCHANGED published

ChannelNext == Publish \/ Deliver

ChannelSpec == ChannelInit /\ [][ChannelNext]_<<published, delivered>>
=============================================================================
