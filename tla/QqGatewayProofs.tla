--------------------------- MODULE QqGatewayProofs ---------------------------
(***************************************************************************)
(* Proofs about the QQ Gateway.                                            *)
(*                                                                         *)
(* The pump, for every dedup window, every set of ids, sequence numbers    *)
(* and sessions, and behaviours of any length: the dedup queue is the      *)
(* recent past, so that nothing is handed over twice within the window.    *)
(*                                                                         *)
(* The event source, for any events, faults, rejections and window: the    *)
(* health snapshot follows the connection, a frame leaves nothing behind   *)
(* for the next one, a token the server has condemned is not used again,   *)
(* and, where a Resume brings back no more than the entry at the resume    *)
(* point, Core gets the events in their order and once: the source         *)
(* implements EventChannel.  And it gets them all, unless it rejects one.  *)
(***************************************************************************)
EXTENDS QqGateway, SequenceTheorems, FiniteSetTheorems, TLAPS

-----------------------------------------------------------------------------
(* Frames.                                                                 *)

\* None is the Option::None of the three kinds of numbers a frame carries.
LEMMA OptionType ==
  ASSUME NEW x,
         \/ x \in SeqNumbers \cup {None}
         \/ x \in Ids \cup {None}
         \/ x \in Sessions \cup {None}
  PROVE  x \in Nat
  <1>1. CASE x \in SeqNumbers \cup {None}
    BY <1>1, FramesAssumption DEF None
  <1>2. CASE x \in Ids \cup {None}
    BY <1>2, FramesAssumption DEF None
  <1>3. CASE x \in Sessions \cup {None}
    BY <1>3, FramesAssumption DEF None
  <1> QED
    BY <1>1, <1>2, <1>3

\* A dedup key is never the value that stands for "no task".
LEMMA KeyType ==
  ASSUME NEW f \in Frames
  PROVE  /\ Key(f) \in Keys
         /\ Key(f) # NoTask
         /\ f.s \in Nat
         /\ f.session \in Nat
         /\ f.url \in BOOLEAN
         /\ f.resumable \in BOOLEAN
  <1>1. f \in FrameFields
    BY DEF Frames
  <1>2. f.s \in Nat /\ f.id \in Nat /\ f.session \in Nat
    <2>1. /\ f.s \in SeqNumbers \cup {None}
          /\ f.id \in Ids \cup {None}
          /\ f.session \in Sessions \cup {None}
      BY <1>1 DEF FrameFields
    <2> QED
      BY <2>1, OptionType
  <1>5. f.url \in BOOLEAN
    BY <1>1 DEF FrameFields
  <1>6. f.resumable \in BOOLEAN
    BY <1>1 DEF FrameFields
  <1>3. Key(f) \in Keys
    BY <1>2 DEF Key, Keys, None
  <1>4. Key(f) # NoTask
    BY <1>3 DEF Keys, NoTask
  <1> QED
    BY <1>2, <1>3, <1>4, <1>5, <1>6, Zenon

-----------------------------------------------------------------------------
(* Sequences: what one push, one eviction and one removal do.              *)

LEMMA TailType ==
  ASSUME NEW S, NEW s \in Seq(S), NEW k \in S
  PROVE  /\ Append(s, k) \in Seq(S)
         /\ Len(Append(s, k)) = Len(s) + 1
         /\ Append(s, k) # <<>>
         /\ Tail(Append(s, k)) \in Seq(S)
         /\ Len(Tail(Append(s, k))) = Len(s)
         /\ \A i \in 1..Len(s) : Append(s, k)[i] = s[i]
         /\ Append(s, k)[Len(s) + 1] = k
         /\ \A i \in 1..Len(s) : Tail(Append(s, k))[i] = Append(s, k)[i + 1]
  OBVIOUS

LEMMA PrefixType ==
  ASSUME NEW S, NEW s \in Seq(S), NEW n \in Nat, n <= Len(s)
  PROVE  /\ SubSeq(s, 1, n) \in Seq(S)
         /\ Len(SubSeq(s, 1, n)) = n
         /\ \A i \in 1..n : SubSeq(s, 1, n)[i] = s[i]
  OBVIOUS

LEMMA RemoveLast ==
  ASSUME NEW S, NEW s \in Seq(S), s # <<>>
  PROVE  /\ RemoveAt(s, Len(s)) \in Seq(S)
         /\ Len(RemoveAt(s, Len(s))) = Len(s) - 1
         /\ \A i \in 1..(Len(s) - 1) : RemoveAt(s, Len(s))[i] = s[i]
  <1> DEFINE a == SubSeq(s, 1, Len(s) - 1)
             b == SubSeq(s, Len(s) + 1, Len(s))
  <1>1. Len(s) \in Nat /\ Len(s) >= 1
    OBVIOUS
  <1>2. a \in Seq(S) /\ Len(a) = Len(s) - 1 /\ \A i \in 1..(Len(s) - 1) : a[i] = s[i]
    <2>1. Len(s) - 1 \in Nat /\ Len(s) - 1 <= Len(s)
      BY <1>1
    <2> QED
      BY <2>1, PrefixType
  <1>3. b = <<>>
    <2>1. Len(s) + 1 \in Int /\ Len(s) \in Int /\ Len(s) < Len(s) + 1
      BY <1>1
    <2> QED
      BY <2>1, SubSeqEmpty
  <1>4. RemoveAt(s, Len(s)) = a \o b
    BY DEF RemoveAt
  <1> HIDE DEF a, b
  <1>5. a \o b = a
    BY <1>2, <1>3, ConcatEmptySeq
  <1> QED
    BY <1>1, <1>2, <1>4, <1>5

LEMMA RemoveAtType ==
  ASSUME NEW S, NEW s \in Seq(S), NEW p \in 1..Len(s)
  PROVE  RemoveAt(s, p) \in Seq(S)
  <1> DEFINE a == SubSeq(s, 1, p - 1)
             b == SubSeq(s, p + 1, Len(s))
  <1>1. a \in Seq(S)
    <2>1. p - 1 \in Nat /\ p - 1 <= Len(s)
      OBVIOUS
    <2> QED
      BY <2>1, PrefixType
  <1>2. b \in Seq(S)
    <2>1. p + 1 \in Int /\ Len(s) \in Int /\ \A i \in (p + 1)..Len(s) : s[i] \in S
      OBVIOUS
    <2> QED
      BY <2>1, SubSeqProperties
  <1>3. RemoveAt(s, p) = a \o b
    BY DEF RemoveAt
  <1> HIDE DEF a, b
  <1> QED
    BY <1>1, <1>2, <1>3

\* The elements of a sequence, by position.
LEMMA ToSetElement ==
  ASSUME NEW S, NEW s \in Seq(S), NEW x
  PROVE  x \in ToSet(s) <=> \E i \in 1..Len(s) : s[i] = x
  BY DEF ToSet

-----------------------------------------------------------------------------
(* The dedup window as a suffix of the history.                            *)

LEMMA SpacedPair ==
  ASSUME NEW h, Spaced(h), NEW a \in 1..Len(h), NEW b \in 1..Len(h),
         a < b, h[a] = h[b]
  PROVE  b - a >= Window
  BY DEF Spaced

\* A recent past shorter than the spacing of the history holds nothing twice.
LEMMA RecentInjective ==
  ASSUME NEW o \in Seq(Keys), NEW h \in Seq(Keys), NEW w,
         Recent(o, h, w), Spaced(h),
         NEW i \in 1..Len(o), NEW j \in 1..Len(o), o[i] = o[j]
  PROVE  i = j
  <1> DEFINE d == Len(h) - Len(o)
  <1>1. Len(h) \in Nat /\ Len(o) \in Nat /\ d \in Nat /\ Window \in Nat
    BY WindowAssumption DEF Recent
  <1>2. o[i] = h[d + i] /\ o[j] = h[d + j]
    BY DEF Recent
  <1>3. d + i \in 1..Len(h) /\ d + j \in 1..Len(h)
    BY <1>1
  <1>4. d + i < d + j => FALSE
    <2>1. SUFFICES ASSUME d + i < d + j PROVE FALSE
      OBVIOUS
    <2>2. (d + j) - (d + i) >= Window
      BY <1>2, <1>3, <2>1, SpacedPair
    <2> QED
      BY <1>1, <2>2 DEF Recent
  <1>5. d + j < d + i => FALSE
    <2>1. SUFFICES ASSUME d + j < d + i PROVE FALSE
      OBVIOUS
    <2>2. (d + i) - (d + j) >= Window
      BY <1>2, <1>3, <2>1, SpacedPair
    <2> QED
      BY <1>1, <2>2 DEF Recent
  <1> QED
    BY <1>1, <1>4, <1>5

\* A key outside the window is far from its previous use: the history stays spaced.
LEMMA PushSpaced ==
  ASSUME NEW o \in Seq(Keys), NEW h \in Seq(Keys), NEW k \in Keys,
         Recent(o, h, Window - 1), Spaced(h), k \notin ToSet(o)
  PROVE  Spaced(Append(h, k))
  <1> DEFINE g == Append(h, k)
  <1>1. Len(h) \in Nat /\ Len(o) \in Nat /\ Window \in Nat /\ Len(o) <= Len(h)
    BY WindowAssumption DEF Recent
  <1>2. /\ Len(g) = Len(h) + 1
        /\ \A i \in 1..Len(h) : g[i] = h[i]
        /\ g[Len(h) + 1] = k
    BY TailType
  <1> HIDE DEF g
  <1>3. SUFFICES ASSUME NEW a \in 1..Len(g), NEW b \in 1..Len(g), a < b, g[a] = g[b]
                 PROVE  b - a >= Window
    BY DEF Spaced, g
  <1>4. a \in 1..Len(h)
    BY <1>1, <1>2, <1>3
  <1>5. CASE b \in 1..Len(h)
    <2>1. h[a] = h[b]
      BY <1>2, <1>3, <1>4, <1>5
    <2> QED
      BY <1>3, <1>4, <1>5, <2>1, SpacedPair
  <1>6. CASE b = Len(h) + 1
    <2>1. h[a] = k
      BY <1>2, <1>3, <1>4, <1>6
    <2>2. a <= Len(h) - Len(o)
      <3>1. SUFFICES ASSUME a > Len(h) - Len(o) PROVE FALSE
        BY <1>1
      <3>2. PICK i \in 1..Len(o) : a = Len(h) - Len(o) + i
        <4>1. a - (Len(h) - Len(o)) \in 1..Len(o)
          BY <1>1, <1>4, <3>1
        <4>2. a = Len(h) - Len(o) + (a - (Len(h) - Len(o)))
          BY <1>1
        <4> QED
          BY <4>1, <4>2
      <3>3. o[i] = k
        BY <2>1, <3>2 DEF Recent
      <3> QED
        BY <3>3, ToSetElement
    <2>3. Len(o) >= Window - 1
      BY <1>1, <1>4, <2>2 DEF Recent
    <2> QED
      BY <1>1, <1>6, <2>2, <2>3
  <1> QED
    BY <1>1, <1>2, <1>5, <1>6

\* remember_dedup_key keeps the queue the recent past of the history.
LEMMA PushRecent ==
  ASSUME NEW o \in Seq(Keys), NEW h \in Seq(Keys), NEW k \in Keys,
         Recent(o, h, Window - 1)
  PROVE  LET p == IF Len(o) >= Window THEN Tail(Append(o, k)) ELSE Append(o, k)
         IN p \in Seq(Keys) /\ Recent(p, Append(h, k), Window)
  <1>1. Len(h) \in Nat /\ Len(o) \in Nat /\ Window \in Nat /\ Len(o) <= Len(h)
        /\ Len(o) <= Window
    BY WindowAssumption DEF Recent
  <1>2. /\ Len(Append(h, k)) = Len(h) + 1
        /\ \A i \in 1..Len(h) : Append(h, k)[i] = h[i]
        /\ Append(h, k)[Len(h) + 1] = k
    BY TailType
  <1>3. /\ Append(o, k) \in Seq(Keys)
        /\ Len(Append(o, k)) = Len(o) + 1
        /\ \A i \in 1..Len(o) : Append(o, k)[i] = o[i]
        /\ Append(o, k)[Len(o) + 1] = k
        /\ Tail(Append(o, k)) \in Seq(Keys)
        /\ Len(Tail(Append(o, k))) = Len(o)
        /\ \A i \in 1..Len(o) : Tail(Append(o, k))[i] = Append(o, k)[i + 1]
    BY TailType
  <1>4. \A i \in 1..(Len(o) + 1) :
          Append(o, k)[i] = Append(h, k)[Len(h) - Len(o) + i]
    <2>1. SUFFICES ASSUME NEW i \in 1..(Len(o) + 1)
                   PROVE  Append(o, k)[i] = Append(h, k)[Len(h) - Len(o) + i]
      OBVIOUS
    <2>2. CASE i = Len(o) + 1
      <3>1. Len(h) - Len(o) + i = Len(h) + 1
        BY <1>1, <2>2
      <3> QED
        BY <1>2, <1>3, <2>2, <3>1
    <2>3. CASE i \in 1..Len(o)
      <3>1. Len(h) - Len(o) + i \in 1..Len(h)
        BY <1>1, <2>3
      <3>2. o[i] = h[Len(h) - Len(o) + i]
        BY <2>3 DEF Recent
      <3> QED
        BY <1>2, <1>3, <2>3, <3>1, <3>2
    <2> QED
      BY <1>1, <2>2, <2>3
  <1>5. CASE Len(o) >= Window
    <2>1. \A i \in 1..Len(o) :
            Tail(Append(o, k))[i] = Append(h, k)[(Len(h) + 1) - Len(o) + i]
      <3>1. SUFFICES ASSUME NEW i \in 1..Len(o)
              PROVE Tail(Append(o, k))[i] = Append(h, k)[(Len(h) + 1) - Len(o) + i]
        OBVIOUS
      <3>2. /\ i + 1 \in 1..(Len(o) + 1)
            /\ Len(h) - Len(o) + (i + 1) = (Len(h) + 1) - Len(o) + i
        BY <1>1
      <3>3. Append(o, k)[i + 1] = Append(h, k)[Len(h) - Len(o) + (i + 1)]
        BY <1>4, <3>2
      <3> QED
        BY <1>3, <3>2, <3>3
    <2> DEFINE p == Tail(Append(o, k))
    <2>2. p \in Seq(Keys) /\ Len(p) = Len(o)
      BY <1>3
    <2>3. Len(p) <= Len(h) + 1 /\ Len(p) <= Window /\ Len(p) >= Window
      BY <1>1, <1>5, <2>2
    <2>4. \A i \in 1..Len(p) : p[i] = Append(h, k)[Len(Append(h, k)) - Len(p) + i]
      BY <1>2, <2>1, <2>2
    <2> HIDE DEF p
    <2>5. Recent(p, Append(h, k), Window)
      BY <1>2, <2>2, <2>3, <2>4 DEF Recent
    <2> QED
      BY <1>5, <2>2, <2>5 DEF p
  <1>6. CASE Len(o) < Window
    <2>1. \A i \in 1..(Len(o) + 1) :
            Append(o, k)[i] = Append(h, k)[(Len(h) + 1) - (Len(o) + 1) + i]
      <3>1. \A i \in 1..(Len(o) + 1) : (Len(h) + 1) - (Len(o) + 1) + i = Len(h) - Len(o) + i
        BY <1>1
      <3> QED
        BY <1>4, <3>1
    <2>2. Len(o) + 1 <= Window /\ Len(o) + 1 <= Len(h) + 1
      BY <1>1, <1>6
    <2>3. Len(o) + 1 >= Window \/ Len(o) + 1 = Len(h) + 1
      BY <1>1, <1>6 DEF Recent
    <2> DEFINE p == Append(o, k)
    <2>4. p \in Seq(Keys) /\ Len(p) = Len(o) + 1
      BY <1>3
    <2>5. \A i \in 1..Len(p) : p[i] = Append(h, k)[Len(Append(h, k)) - Len(p) + i]
      BY <1>2, <2>1, <2>4
    <2> HIDE DEF p
    <2>6. Recent(p, Append(h, k), Window)
      BY <1>2, <2>2, <2>3, <2>4, <2>5 DEF Recent
    <2>7. ~(Len(o) >= Window)
      BY <1>1, <1>6
    <2> QED
      BY <2>4, <2>6, <2>7 DEF p
  <1> QED
    BY <1>1, <1>5, <1>6

LEMMA AppendSet ==
  ASSUME NEW o \in Seq(Keys), NEW k \in Keys
  PROVE  ToSet(Append(o, k)) = ToSet(o) \cup {k}
  <1> DEFINE q == Append(o, k)
  <1>1. /\ q \in Seq(Keys) /\ Len(q) = Len(o) + 1 /\ Len(o) \in Nat
        /\ \A i \in 1..Len(o) : q[i] = o[i]
        /\ q[Len(o) + 1] = k
    BY TailType
  <1> HIDE DEF q
  <1>2. ASSUME NEW x PROVE x \in ToSet(q) <=> x \in ToSet(o) \cup {k}
    <2>1. ASSUME x \in ToSet(q) PROVE x \in ToSet(o) \cup {k}
      <3>1. PICK i \in 1..(Len(o) + 1) : q[i] = x
        BY <1>1, <2>1, ToSetElement
      <3>2. i \in 1..Len(o) \/ i = Len(o) + 1
        BY <1>1
      <3> QED
        BY <1>1, <3>1, <3>2, ToSetElement
    <2>2. ASSUME x \in ToSet(o) PROVE x \in ToSet(q)
      <3>1. PICK i \in 1..Len(o) : o[i] = x
        BY <2>2, ToSetElement
      <3>2. q[i] = x /\ i \in 1..Len(q)
        BY <1>1, <3>1
      <3> QED
        BY <1>1, <3>2, ToSetElement
    <2>3. k \in ToSet(q)
      <3>1. Len(o) + 1 \in 1..Len(q)
        BY <1>1
      <3> QED
        BY <1>1, <3>1, ToSetElement
    <2> QED
      BY <2>1, <2>2, <2>3
  <1>3. ToSet(q) = ToSet(o) \cup {k}
    BY <1>2
  <1> QED
    BY <1>3 DEF q

\* The set keeps step with the queue when a key is pushed and the oldest evicted.
LEMMA PushSet ==
  ASSUME NEW o \in Seq(Keys), NEW k \in Keys, Len(o) >= 1,
         \A i, j \in 1..Len(o) : o[i] = o[j] => i = j,
         k \notin ToSet(o)
  PROVE  ToSet(Tail(Append(o, k))) = (ToSet(o) \cup {k}) \ {Head(Append(o, k))}
  <1> DEFINE q == Append(o, k)
             t == Tail(Append(o, k))
  <1>1. Len(o) \in Nat
    OBVIOUS
  <1>2. /\ q \in Seq(Keys) /\ Len(q) = Len(o) + 1 /\ q # <<>>
        /\ t \in Seq(Keys) /\ Len(t) = Len(o)
        /\ \A i \in 1..Len(o) : q[i] = o[i]
        /\ q[Len(o) + 1] = k
        /\ \A i \in 1..Len(o) : t[i] = q[i + 1]
    BY TailType
  <1>3. Head(q) = o[1]
    BY <1>1, <1>2
  <1> HIDE DEF q, t
  <1>4. ToSet(q) = ToSet(o) \cup {k}
    BY AppendSet DEF q
  <1>5. ASSUME NEW x
        PROVE  x \in ToSet(t) <=> x \in (ToSet(o) \cup {k}) \ {o[1]}
    <2>1. ASSUME x \in ToSet(t) PROVE x \in (ToSet(o) \cup {k}) \ {o[1]}
      <3>1. PICK i \in 1..Len(o) : t[i] = x
        BY <1>2, <2>1, ToSetElement
      <3>2. x = q[i + 1]
        BY <1>2, <3>1
      <3>3. i + 1 \in 1..Len(q)
        BY <1>1, <1>2
      <3>4. x \in ToSet(o) \cup {k}
        BY <1>2, <1>4, <3>2, <3>3, ToSetElement
      <3>5. CASE i = Len(o)
        <4>1. x = k
          BY <1>2, <3>2, <3>5
        <4>2. o[1] \in ToSet(o)
          BY <1>1, ToSetElement
        <4> QED
          BY <3>4, <4>1, <4>2
      <3>6. CASE i # Len(o)
        <4>1. i + 1 \in 1..Len(o) /\ 1 \in 1..Len(o) /\ i + 1 # 1
          BY <1>1, <3>6
        <4>2. x = o[i + 1]
          BY <1>2, <3>2, <4>1
        <4>3. x # o[1]
          BY <4>1, <4>2
        <4> QED
          BY <3>4, <4>3
      <3> QED
        BY <3>5, <3>6
    <2>2. ASSUME x \in ToSet(o), x # o[1] PROVE x \in ToSet(t)
      <3>1. PICK i \in 1..Len(o) : o[i] = x
        BY <2>2, ToSetElement
      <3>2. i - 1 \in 1..Len(o) /\ (i - 1) + 1 = i
        BY <1>1, <2>2, <3>1
      <3>3. t[i - 1] = x
        BY <1>2, <3>1, <3>2
      <3> QED
        BY <1>2, <3>2, <3>3, ToSetElement
    <2>3. k \in ToSet(t)
      <3>1. Len(o) \in 1..Len(o)
        BY <1>1
      <3>2. t[Len(o)] = k
        BY <1>2, <3>1
      <3> QED
        BY <1>2, <3>1, <3>2, ToSetElement
    <2> QED
      BY <2>1, <2>2, <2>3
  <1>7. ToSet(t) = (ToSet(o) \cup {k}) \ {o[1]}
    BY <1>5
  <1> QED
    BY <1>3, <1>7 DEF q, t

\* forget_dispatch on the task just handed over: its key is the last of the queue,
\* and what is left is the recent past of the history without that task.
LEMMA DropRecent ==
  ASSUME NEW o \in Seq(Keys), NEW h \in Seq(Keys), NEW k \in Keys,
         Recent(o, Append(h, k), Window), Spaced(Append(h, k))
  PROVE  /\ o # <<>>
         /\ o[Len(o)] = k
         /\ Recent(RemoveAt(o, Len(o)), h, Window - 1)
         /\ ToSet(RemoveAt(o, Len(o))) = ToSet(o) \ {k}
  <1> DEFINE r == RemoveAt(o, Len(o))
  <1>1. /\ Len(h) \in Nat /\ Len(o) \in Nat /\ Window \in Nat /\ Window >= 1
        /\ Append(h, k) \in Seq(Keys)
        /\ Len(Append(h, k)) = Len(h) + 1
        /\ \A i \in 1..Len(h) : Append(h, k)[i] = h[i]
        /\ Append(h, k)[Len(h) + 1] = k
    BY WindowAssumption, TailType
  <1>2. Len(o) <= Len(h) + 1 /\ Len(o) <= Window /\ Len(o) >= 1
    BY <1>1 DEF Recent
  <1>3. o[Len(o)] = k
    <2>1. Len(o) \in 1..Len(o) /\ (Len(h) + 1) - Len(o) + Len(o) = Len(h) + 1
      BY <1>1, <1>2
    <2> QED
      BY <1>1, <2>1 DEF Recent
  <1>4. /\ r \in Seq(Keys) /\ Len(r) = Len(o) - 1
        /\ \A i \in 1..(Len(o) - 1) : r[i] = o[i]
    <2>1. o # <<>>
      BY <1>2
    <2> QED
      BY <2>1, RemoveLast
  <1> HIDE DEF r
  <1>5. Recent(r, h, Window - 1)
    <2>1. \A i \in 1..Len(r) : r[i] = h[Len(h) - Len(r) + i]
      <3>1. SUFFICES ASSUME NEW i \in 1..Len(r) PROVE r[i] = h[Len(h) - Len(r) + i]
        OBVIOUS
      <3>2. /\ i \in 1..Len(o) /\ i \in 1..(Len(o) - 1)
            /\ (Len(h) + 1) - Len(o) + i = Len(h) - Len(r) + i
            /\ Len(h) - Len(r) + i \in 1..Len(h)
        BY <1>1, <1>2, <1>4
      <3>3. o[i] = Append(h, k)[(Len(h) + 1) - Len(o) + i]
        BY <1>1, <3>2 DEF Recent
      <3>4. o[i] = h[Len(h) - Len(r) + i]
        BY <1>1, <3>2, <3>3
      <3> QED
        BY <1>4, <3>2, <3>4
    <2>2. Len(o) >= Window \/ Len(o) = Len(h) + 1
      BY <1>1 DEF Recent
    <2>3. Len(r) >= Window - 1 \/ Len(r) = Len(h)
      BY <1>1, <1>4, <2>2
    <2>4. Len(r) <= Len(h) /\ Len(r) <= Window
      BY <1>1, <1>2, <1>4
    <2> QED
      BY <2>1, <2>3, <2>4 DEF Recent
  <1>6. ToSet(r) = ToSet(o) \ {k}
    <2>1. ASSUME NEW x PROVE x \in ToSet(r) <=> x \in ToSet(o) \ {k}
      <3>1. ASSUME x \in ToSet(r) PROVE x \in ToSet(o) \ {k}
        <4>1. PICK i \in 1..Len(r) : r[i] = x
          BY <1>4, <3>1, ToSetElement
        <4>2. i \in 1..Len(o) /\ i \in 1..(Len(o) - 1) /\ Len(o) \in 1..Len(o) /\ i # Len(o)
          BY <1>1, <1>2, <1>4
        <4>3. o[i] = x
          BY <1>4, <4>1, <4>2
        <4>4. o[i] # o[Len(o)]
          BY <1>1, <4>2, RecentInjective
        <4> QED
          BY <1>3, <4>2, <4>3, <4>4, ToSetElement
      <3>2. ASSUME x \in ToSet(o), x # k PROVE x \in ToSet(r)
        <4>1. PICK i \in 1..Len(o) : o[i] = x
          BY <3>2, ToSetElement
        <4>2. i \in 1..(Len(o) - 1) /\ i \in 1..Len(r)
          BY <1>1, <1>3, <1>4, <3>2, <4>1
        <4> QED
          BY <1>4, <4>1, <4>2, ToSetElement
      <3> QED
        BY <3>1, <3>2
    <2> QED
      BY <2>1
  <1>7. o # <<>>
    BY <1>2
  <1> QED
    BY <1>3, <1>5, <1>6, <1>7 DEF r

LEMMA SpacedPrefix ==
  ASSUME NEW h \in Seq(Keys), NEW k \in Keys, Spaced(Append(h, k))
  PROVE  Spaced(h)
  <1>1. /\ Len(h) \in Nat
        /\ Len(Append(h, k)) = Len(h) + 1
        /\ \A i \in 1..Len(h) : Append(h, k)[i] = h[i]
    BY TailType
  <1>2. \A i \in 1..Len(h) : i \in 1..(Len(h) + 1)
    BY <1>1
  <1> QED
    BY <1>1, <1>2 DEF Spaced

-----------------------------------------------------------------------------
(* The type invariant.                                                     *)

LEMMA PositionType ==
  ASSUME NEW k, \E i \in 1..Len(order) : order[i] = k
  PROVE  Position(k) \in 1..Len(order) /\ order[Position(k)] = k
  BY DEF Position

LEMMA ForgetType ==
  ASSUME PumpTypeOK, NEW k, ForgetDispatch(k)
  PROVE  seen' \subseteq Keys /\ order' \in Seq(Keys)
  <1>1. CASE k \notin seen
    BY <1>1 DEF ForgetDispatch, window, PumpTypeOK
  <1>2. CASE k \in seen /\ \E i \in 1..Len(order) : order[i] = k
    <2>1. order' = RemoveAt(order, Position(k)) /\ seen' = seen \ {k}
      BY <1>2 DEF ForgetDispatch
    <2>2. Position(k) \in 1..Len(order)
      BY <1>2, PositionType
    <2> QED
      BY <2>1, <2>2, RemoveAtType DEF PumpTypeOK
  <1>3. CASE k \in seen /\ ~(\E i \in 1..Len(order) : order[i] = k)
    BY <1>3 DEF ForgetDispatch, PumpTypeOK
  <1> QED
    BY <1>1, <1>2, <1>3

LEMMA RememberType ==
  ASSUME PumpTypeOK, NEW k \in Keys, RememberDedupKey(k)
  PROVE  seen' \subseteq Keys /\ order' \in Seq(Keys)
  <1>1. Append(order, k) \in Seq(Keys) /\ Tail(Append(order, k)) \in Seq(Keys)
    BY TailType DEF PumpTypeOK
  <1> QED
    BY <1>1 DEF RememberDedupKey, PumpTypeOK

LEMMA PushType ==
  ASSUME PumpTypeOK, NEW a \in Actions, Push(a)
  PROVE  actions' \in Seq(Actions)
  BY DEF Push, PumpTypeOK

LEMMA HandleFrameType ==
  ASSUME PumpTypeOK, NEW f \in Frames, HandleFrame(f)
  PROVE  PumpTypeOK'
  <1>1. /\ Key(f) \in Keys /\ f.s \in Nat /\ f.session \in Nat
        /\ f.url \in BOOLEAN
    BY KeyType
  <1>2. KnownSequence(f) \in Nat /\ None \in Nat
    BY <1>1 DEF KnownSequence, PumpTypeOK, None
  <1>3. accepted' \in Seq(Keys)
    BY DEF HandleFrame, PumpTypeOK
  <1>4. CASE HandleDispatch(f)
    <2>1. /\ lastSequence' \in Nat
          /\ sessionId' \in Nat
      BY <1>1, <1>2, <1>4 DEF HandleDispatch, PumpTypeOK
    <2>2. resumeUrl' \in BOOLEAN
      <3>1. resumeUrl' = f.url \/ resumeUrl' = resumeUrl
        BY <1>4 DEF HandleDispatch
      <3>2. resumeUrl \in BOOLEAN
        BY DEF PumpTypeOK
      <3> QED
        BY <1>1, <3>1, <3>2, Zenon
    <2>3. CASE f.t = "UNKNOWN"
      <3>1. Push("UnknownEvent") /\ task' = NoTask /\ UNCHANGED window
        BY <1>4, <2>3 DEF HandleDispatch
      <3>2. actions' \in Seq(Actions)
        BY <3>1, PushType DEF Actions
      <3> QED
        BY <1>3, <2>1, <2>2, <3>1, <3>2 DEF PumpTypeOK, window
    <2>4. CASE f.t # "UNKNOWN" /\ Key(f) \in seen
      <3>1. task' = NoTask /\ UNCHANGED <<seen, order, actions>>
        BY <1>4, <2>4 DEF HandleDispatch
      <3> QED
        BY <1>3, <2>1, <2>2, <3>1 DEF PumpTypeOK
    <2>5. CASE f.t # "UNKNOWN" /\ Key(f) \notin seen
      <3>1. RememberDedupKey(Key(f)) /\ Push("DispatchTask") /\ task' = Key(f)
        BY <1>4, <2>5 DEF HandleDispatch
      <3>2. actions' \in Seq(Actions)
        BY <3>1, PushType DEF Actions
      <3>3. seen' \subseteq Keys /\ order' \in Seq(Keys)
        BY <1>1, <3>1, RememberType
      <3> QED
        BY <1>1, <1>3, <2>1, <2>2, <3>1, <3>2, <3>3 DEF PumpTypeOK
    <2> QED
      BY <2>3, <2>4, <2>5
  <1>5. CASE ~HandleDispatch(f)
    <2>1. task' = NoTask /\ UNCHANGED window
      BY <1>5 DEF HandleFrame
    <2>2. CASE HandleInvalidSession(f)
      <3>1. lastSequence' \in Nat /\ sessionId' \in Nat
        BY <1>2, <2>2 DEF HandleInvalidSession, ClearSession, PumpTypeOK
      <3>2. resumeUrl' \in BOOLEAN
        BY <2>2 DEF HandleInvalidSession, ClearSession, PumpTypeOK
      <3>3. actions' \in Seq(Actions)
        BY <2>2, PushType DEF HandleInvalidSession, Actions
      <3> QED
        BY <1>3, <2>1, <3>1, <3>2, <3>3 DEF PumpTypeOK, window
    <2>3. CASE HandleHello(f)
      <3>1. actions' \in Seq(Actions)
        BY <2>3, PushType DEF HandleHello, Actions
      <3> QED
        BY <1>2, <1>3, <2>1, <2>3, <3>1 DEF PumpTypeOK, window, HandleHello
    <2>4. CASE HandleSimple(f)
      <3>1. SimpleAction(f.op) \in Actions
        BY <2>4 DEF HandleSimple, SimpleAction, Actions
      <3>2. actions' \in Seq(Actions)
        BY <2>4, <3>1, PushType DEF HandleSimple
      <3> QED
        BY <1>2, <1>3, <2>1, <2>4, <3>2 DEF PumpTypeOK, window, HandleSimple
    <2> QED
      BY <1>5, <2>2, <2>3, <2>4 DEF HandleFrame
  <1> QED
    BY <1>4, <1>5

LEMMA TypeStep ==
  ASSUME PumpTypeOK, [PumpNext]_pumpVars
  PROVE  PumpTypeOK'
  <1>1. CASE Receive
    BY <1>1, HandleFrameType DEF Receive
  <1>2. CASE Pop
    <2>1. actions' \in Seq(Actions)
      BY <1>2 DEF Pop, PopAction, PumpTypeOK
    <2>2. UNCHANGED <<lastSequence, sessionId, resumeUrl, seen, order, task, accepted>>
      BY <1>2 DEF Pop, resumePoint, window
    <2> QED
      BY <2>1, <2>2 DEF PumpTypeOK
  <1>3. CASE Accept
    <2>1. accepted' \in Seq(Keys) /\ task' = NoTask
      BY <1>3 DEF Accept, PumpTypeOK
    <2>2. UNCHANGED <<lastSequence, sessionId, resumeUrl, seen, order, actions>>
      BY <1>3 DEF Accept, resumePoint, window
    <2> QED
      BY <2>1, <2>2 DEF PumpTypeOK
  <1>4. CASE Reject
    <2>1. seen' \subseteq Keys /\ order' \in Seq(Keys)
      BY <1>4, ForgetType DEF Reject
    <2> QED
      BY <1>4, <2>1 DEF Reject, resumePoint, PumpTypeOK
  <1>5. CASE UNCHANGED pumpVars
    BY <1>5 DEF pumpVars, PumpTypeOK
  <1> QED
    BY <1>1, <1>2, <1>3, <1>4, <1>5 DEF PumpNext, Settle

\* Whatever frames arrive, every field of the pump keeps its type.
THEOREM PumpTypeCorrect == PumpSpec => []PumpTypeOK
  <1>1. PumpInit => PumpTypeOK
    <2>1. SUFFICES ASSUME PumpInit PROVE PumpTypeOK
      OBVIOUS
    <2>2. lastSequence \in Nat /\ sessionId \in Nat
      BY <2>1 DEF PumpInit, None
    <2>3. resumeUrl \in BOOLEAN
      BY <2>1 DEF PumpInit
    <2>4. seen \subseteq Keys /\ order \in Seq(Keys) /\ actions \in Seq(Actions)
          /\ accepted \in Seq(Keys) /\ task = NoTask
      BY <2>1 DEF PumpInit
    <2> QED
      BY <2>2, <2>3, <2>4 DEF PumpTypeOK
  <1>2. PumpTypeOK /\ [PumpNext]_pumpVars => PumpTypeOK'
    BY TypeStep
  <1> QED
    BY <1>1, <1>2, PTL DEF PumpSpec

-----------------------------------------------------------------------------
(* The dedup window.  The inductive invariant says that the queue is the   *)
(* recent past of the tasks handed over; NoRepeatWithinWindow alone is not *)
(* inductive, for it says nothing of what the queue still remembers.       *)

LEMMA HandedType ==
  ASSUME PumpTypeOK
  PROVE  /\ task = NoTask => handed = accepted
         /\ task # NoTask => handed = Append(accepted, task) /\ task \in Keys
         /\ handed \in Seq(Keys)
  BY DEF handed, PumpTypeOK

LEMMA RecentPastUnchanged ==
  ASSUME WindowIsRecentPast, UNCHANGED <<seen, order, task, accepted>>
  PROVE  WindowIsRecentPast'
  BY DEF WindowIsRecentPast, Recent, Spaced, handed, reach, ToSet

\* A new key enters the window.
LEMMA RememberWindow ==
  ASSUME PumpTypeOK, WindowIsRecentPast, task = NoTask, NEW k \in Keys, k # NoTask, k \notin seen,
         RememberDedupKey(k), task' = k, accepted' = accepted
  PROVE  WindowIsRecentPast'
  <1>1. /\ order \in Seq(Keys) /\ accepted \in Seq(Keys)
        /\ Recent(order, accepted, Window - 1) /\ Spaced(accepted)
        /\ seen = ToSet(order) /\ k \notin ToSet(order)
    BY DEF WindowIsRecentPast, handed, reach, PumpTypeOK
  <1>2. handed' = Append(accepted, k) /\ reach' = Window
    BY DEF handed, reach
  <1>3. Spaced(handed')
    BY <1>1, <1>2, PushSpaced
  <1>4. order' = IF Len(order) >= Window THEN Tail(Append(order, k)) ELSE Append(order, k)
    BY DEF RememberDedupKey
  <1>5. Recent(order', handed', reach')
    BY <1>1, <1>2, <1>4, PushRecent
  <1>6. seen' = ToSet(order')
    <2>1. \A i, j \in 1..Len(order) : order[i] = order[j] => i = j
      BY <1>1, RecentInjective
    <2>2. CASE Len(order) >= Window
      <3>1. Len(order) >= 1
        BY <1>1, <2>2, WindowAssumption
      <3> QED
        BY <1>1, <1>4, <2>1, <2>2, <3>1, PushSet DEF RememberDedupKey
    <2>3. CASE ~(Len(order) >= Window)
      <3>1. ToSet(Append(order, k)) = ToSet(order) \cup {k}
        BY <1>1, AppendSet
      <3> QED
        BY <1>1, <1>4, <2>3, <3>1 DEF RememberDedupKey
    <2> QED
      BY <2>2, <2>3
  <1> QED
    BY <1>3, <1>5, <1>6 DEF WindowIsRecentPast, Recent, Spaced

LEMMA HandleFrameWindow ==
  ASSUME PumpTypeOK, WindowIsRecentPast, task = NoTask, NEW f \in Frames, HandleFrame(f)
  PROVE  WindowIsRecentPast'
  <1>1. accepted' = accepted
    BY DEF HandleFrame
  <1>2. CASE task' = NoTask /\ UNCHANGED window
    BY <1>1, <1>2, RecentPastUnchanged DEF window
  <1>3. CASE RememberDedupKey(Key(f)) /\ task' = Key(f) /\ Key(f) \notin seen
    BY <1>1, <1>3, KeyType, RememberWindow
  <1> QED
    BY <1>2, <1>3 DEF HandleFrame, HandleDispatch, window

\* A settled task leaves the queue one short of the window at worst.
LEMMA AcceptWindow ==
  ASSUME PumpTypeOK, WindowIsRecentPast, Accept
  PROVE  WindowIsRecentPast'
  <1>1. /\ task # NoTask /\ task' = NoTask /\ accepted' = Append(accepted, task)
        /\ order' = order /\ seen' = seen
    BY DEF Accept, window
  <1>2. handed' = handed /\ reach = Window /\ reach' = Window - 1
    BY <1>1 DEF handed, reach
  <1>3. Recent(order, handed, Window - 1)
    BY <1>2, WindowAssumption DEF WindowIsRecentPast, Recent, PumpTypeOK
  <1> QED
    BY <1>1, <1>2, <1>3 DEF WindowIsRecentPast, Recent, Spaced

LEMMA RejectWindow ==
  ASSUME PumpTypeOK, WindowIsRecentPast, Reject
  PROVE  WindowIsRecentPast'
  <1>1. /\ task # NoTask /\ task \in Keys /\ task' = NoTask /\ accepted' = accepted
        /\ accepted \in Seq(Keys) /\ order \in Seq(Keys)
        /\ ForgetDispatch(task)
    BY DEF Reject, PumpTypeOK
  <1>2. /\ Recent(order, Append(accepted, task), Window)
        /\ Spaced(Append(accepted, task))
        /\ seen = ToSet(order)
    BY <1>1 DEF WindowIsRecentPast, handed, reach
  <1>3. /\ order # <<>> /\ order[Len(order)] = task
        /\ Recent(RemoveAt(order, Len(order)), accepted, Window - 1)
        /\ ToSet(RemoveAt(order, Len(order))) = ToSet(order) \ {task}
    BY <1>1, <1>2, DropRecent
  <1>4. Len(order) \in 1..Len(order)
    BY <1>1, <1>3
  <1>5. Position(task) = Len(order)
    <2>1. Position(task) \in 1..Len(order) /\ order[Position(task)] = task
      BY <1>3, <1>4, PositionType
    <2>2. Append(accepted, task) \in Seq(Keys)
      BY <1>1
    <2> QED
      BY <1>1, <1>2, <1>3, <1>4, <2>1, <2>2, RecentInjective
  <1>6. task \in seen
    BY <1>1, <1>2, <1>3, <1>4, ToSetElement
  <1>7. order' = RemoveAt(order, Len(order)) /\ seen' = seen \ {task}
    BY <1>1, <1>3, <1>4, <1>5, <1>6 DEF ForgetDispatch
  <1>8. Spaced(accepted)
    BY <1>1, <1>2, SpacedPrefix
  <1>9. handed' = accepted /\ reach' = Window - 1
    BY <1>1 DEF handed, reach
  <1> QED
    BY <1>2, <1>3, <1>7, <1>8, <1>9 DEF WindowIsRecentPast, Recent, Spaced

LEMMA WindowStep ==
  ASSUME PumpTypeOK, WindowIsRecentPast, [PumpNext]_pumpVars
  PROVE  WindowIsRecentPast'
  <1>1. CASE Receive
    BY <1>1, HandleFrameWindow DEF Receive
  <1>2. CASE Pop
    BY <1>2, RecentPastUnchanged DEF Pop, window
  <1>3. CASE Accept
    BY <1>3, AcceptWindow
  <1>4. CASE Reject
    BY <1>4, RejectWindow
  <1>5. CASE UNCHANGED pumpVars
    BY <1>5, RecentPastUnchanged DEF pumpVars
  <1> QED
    BY <1>1, <1>2, <1>3, <1>4, <1>5 DEF PumpNext, Settle

LEMMA WindowInit ==
  ASSUME PumpInit
  PROVE  WindowIsRecentPast
  <1>1. order = <<>> /\ handed = <<>> /\ seen = {}
    BY DEF PumpInit, handed
  <1>2. Recent(order, handed, reach)
    BY <1>1, WindowAssumption DEF Recent
  <1>3. ToSet(order) = {}
    BY <1>1 DEF ToSet
  <1>4. Spaced(handed)
    BY <1>1 DEF Spaced
  <1> QED
    BY <1>1, <1>2, <1>3, <1>4 DEF WindowIsRecentPast

\* The dedup queue is the recent past of the tasks handed over.
THEOREM WindowCorrect == PumpSpec => []WindowIsRecentPast
  <1>1. PumpInit => WindowIsRecentPast
    BY WindowInit
  <1>2. PumpTypeOK /\ WindowIsRecentPast /\ [PumpNext]_pumpVars => WindowIsRecentPast'
    BY WindowStep
  <1> QED
    BY <1>1, <1>2, PumpTypeCorrect, PTL DEF PumpSpec

\* The deduplication promise: Core never gets two tasks of one key less than
\* Window tasks apart, whatever is replayed, reordered or rejected.
THEOREM DedupCorrect == PumpSpec => []NoRepeatWithinWindow
  <1>1. PumpTypeOK /\ WindowIsRecentPast => NoRepeatWithinWindow
    <2>1. SUFFICES ASSUME PumpTypeOK, WindowIsRecentPast PROVE Spaced(accepted)
      BY DEF NoRepeatWithinWindow
    <2>2. CASE task = NoTask
      BY <2>1, <2>2 DEF WindowIsRecentPast, handed
    <2>3. CASE task # NoTask
      <3>1. Spaced(Append(accepted, task)) /\ accepted \in Seq(Keys) /\ task \in Keys
        BY <2>1, <2>3 DEF WindowIsRecentPast, handed, PumpTypeOK
      <3> QED
        BY <3>1, SpacedPrefix
    <2> QED
      BY <2>2, <2>3
  <1> QED
    BY <1>1, WindowCorrect, PumpTypeCorrect, PTL

\* The set and the queue of the dedup window agree, without duplicates, in bounds.
THEOREM WindowIsConsistent == PumpSpec => []WindowConsistent
  <1>1. PumpTypeOK /\ WindowIsRecentPast => WindowConsistent
    <2>1. SUFFICES ASSUME PumpTypeOK, WindowIsRecentPast PROVE WindowConsistent
      OBVIOUS
    <2>2. /\ order \in Seq(Keys) /\ handed \in Seq(Keys)
          /\ Recent(order, handed, reach) /\ Spaced(handed) /\ seen = ToSet(order)
      BY <2>1, HandedType DEF WindowIsRecentPast, PumpTypeOK
    <2>3. \A i, j \in 1..Len(order) : order[i] = order[j] => i = j
      BY <2>2, RecentInjective
    <2> QED
      BY <2>2, <2>3 DEF WindowConsistent, Recent
  <1> QED
    BY <1>1, WindowCorrect, PumpTypeCorrect, PTL

-----------------------------------------------------------------------------
(* The action queue.                                                       *)

\* A frame queues at most one action, and a queued Resume has a session.
ResumeInv ==
  /\ Len(actions) <= 1
  /\ \A i \in 1..Len(actions) : actions[i] = "Resume" => sessionId # None

LEMMA PushOnEmpty ==
  ASSUME actions = <<>>, NEW a, Push(a)
  PROVE  actions' = <<a>>
  BY DEF Push

LEMMA PushOneAction ==
  ASSUME actions = <<>>, NEW a, Push(a), a = "Resume" => sessionId' # None
  PROVE  ResumeInv'
  <1>1. actions' = <<a>>
    BY PushOnEmpty
  <1>2. Len(actions') = 1 /\ \A i \in 1..Len(actions') : actions'[i] = a
    BY <1>1
  <1> QED
    BY <1>2 DEF ResumeInv

LEMMA ResumeStep ==
  ASSUME PumpTypeOK, ResumeInv, [PumpNext]_pumpVars
  PROVE  ResumeInv'
  <1>1. CASE Receive
    <2>1. PICK f \in Frames : HandleFrame(f)
      BY <1>1 DEF Receive
    <2>2. actions = <<>>
      BY <1>1 DEF Receive
    <2>3. CASE HandleDispatch(f)
      <3>1. actions' = <<>> \/ actions' = <<"UnknownEvent">> \/ actions' = <<"DispatchTask">>
        BY <2>2, <2>3 DEF HandleDispatch, Push
      <3> QED
        BY <3>1 DEF ResumeInv
    <2>4. CASE HandleInvalidSession(f)
      <3>1. \/ Push("Resume") /\ sessionId' # None
            \/ Push("Identify")
        BY <2>4 DEF HandleInvalidSession
      <3>2. CASE Push("Resume") /\ sessionId' # None
        BY <2>2, <3>2, PushOneAction
      <3>3. CASE Push("Identify")
        <4>1. "Identify" # "Resume"
          OBVIOUS
        <4> QED
          BY <2>2, <3>3, <4>1, PushOneAction
      <3> QED
        BY <3>1, <3>2, <3>3
    <2>5. CASE HandleHello(f)
      <3>1. \/ Push("Resume") /\ sessionId' # None
            \/ Push("Identify")
        <4>1. Push(IF sessionId # None THEN "Resume" ELSE "Identify") /\ sessionId' = sessionId
          BY <2>5 DEF HandleHello
        <4> QED
          BY <4>1
      <3>2. CASE Push("Resume") /\ sessionId' # None
        BY <2>2, <3>2, PushOneAction
      <3>3. CASE Push("Identify")
        <4>1. "Identify" # "Resume"
          OBVIOUS
        <4> QED
          BY <2>2, <3>3, <4>1, PushOneAction
      <3> QED
        BY <3>1, <3>2, <3>3
    <2>6. CASE HandleSimple(f)
      <3>1. SimpleAction(f.op) # "Resume" /\ actions' = <<SimpleAction(f.op)>>
        BY <2>2, <2>6 DEF HandleSimple, SimpleAction, Push
      <3> QED
        BY <3>1 DEF ResumeInv
    <2> QED
      BY <2>1, <2>3, <2>4, <2>5, <2>6 DEF HandleFrame
  <1>2. CASE Pop
    <2>1. actions # <<>> /\ actions' = Tail(actions) /\ sessionId' = sessionId
      BY <1>2 DEF Pop, PopAction, resumePoint
    <2>2. Len(actions') = 0
      <3>1. actions \in Seq(Actions) /\ Len(actions) <= 1
        BY DEF ResumeInv, PumpTypeOK
      <3>2. Len(Tail(actions)) = Len(actions) - 1 /\ Len(actions) \in Nat
        BY <2>1, <3>1
      <3>3. Len(Tail(actions)) \in Nat
        BY <2>1, <3>1
      <3> QED
        BY <2>1, <3>1, <3>2, <3>3
    <2> QED
      BY <2>2 DEF ResumeInv
  <1>3. CASE Accept \/ Reject \/ UNCHANGED pumpVars
    BY <1>3 DEF Accept, Reject, pumpVars, resumePoint, ResumeInv
  <1> QED
    BY <1>1, <1>2, <1>3 DEF PumpNext, Settle

\* A Resume the pump asks for can be built: resume_frame has its session.
THEOREM ResumeCorrect == PumpSpec => []ResumeHasSession
  <1>1. PumpInit => ResumeInv
    BY DEF PumpInit, ResumeInv
  <1>2. PumpTypeOK /\ ResumeInv /\ [PumpNext]_pumpVars => ResumeInv'
    BY ResumeStep
  <1>3. PumpTypeOK /\ ResumeInv => ResumeHasSession
    BY ToSetElement DEF ResumeInv, ResumeHasSession, PumpTypeOK
  <1> QED
    BY <1>1, <1>2, <1>3, PumpTypeCorrect, PTL DEF PumpSpec

-----------------------------------------------------------------------------
(* The event source.                                                       *)

Connected == {"hello", "auth", "read", "drain"}

\* The parts are inductive one by one, but for QueueInv, which needs HelloFirst: that
\* the frame which answers the connection is the HELLO bounds what phase auth finds.
HealthInv ==
  /\ health = [connected |-> health.connected, identified |-> health.identified,
               orphan |-> health.orphan]
  /\ phase \in Connected => health.connected = TRUE /\ health.orphan = FALSE
  /\ phase \notin Connected => health.orphan = health.connected
  /\ health.connected = TRUE \/ (health.connected = FALSE /\ health.identified = FALSE)
  /\ phase \in {"hello", "auth"} => health.identified = FALSE

\* What may be on the wire before the client has authenticated.
FirstFrames == {Control("hello", FALSE)} \cup {Close(class) : class \in CloseClasses}
HelloFirst ==
  phase = "hello" =>
    /\ wire \in Seq(FirstFrames)
    /\ conn # "live"
    /\ conn = "open" => wire # <<>>
    /\ wire # <<>> => Head(wire) = Control("hello", FALSE)

QueueInv ==
  /\ actions = <<>> \/ \E a : actions = <<a>>
  /\ NothingLeftOver

TokenInv ==
  /\ issued \in Nat
  /\ token \in 0..issued /\ connToken \in 0..issued
  /\ condemned \subseteq 1..issued
  /\ token \notin condemned
  /\ phase \in Connected \cup {"connect"} => token # None /\ connToken = token

GatewayInv == HealthInv /\ HelloFirst /\ QueueInv /\ TokenInv

-----------------------------------------------------------------------------
(* The ways a connection ends.                                             *)

LEMMA EndsQuietly ==
  ASSUME NEW p, End(p)
  PROVE  /\ phase' = p /\ token' = None /\ connToken' = None /\ conn' = "down" /\ wire' = <<>>
         /\ health' = Unconnected
BY DEF End, HangUp, DropLocals

LEMMA RetriesQuietly ==
  ASSUME Retry
  PROVE  /\ phase' = "backoff" /\ connToken' = None /\ conn' = "down" /\ wire' = <<>>
         /\ health' = Unconnected
BY DEF Retry, HangUp, DropLocals

LEMMA AbortsQuietly ==
  ASSUME AbortTask
  PROVE  /\ phase' = "failed" /\ connToken' = None /\ conn' = "down" /\ wire' = <<>>
         /\ health' = [health EXCEPT !.orphan = health.connected]
         /\ UNCHANGED <<resumePoint, window, task, accepted, condemned, bounds, sessionVars>>
BY DEF AbortTask, HangUp, DropLocals

\* Steps that end the connection or the task.
Ending ==
  \/ \E p \in Ended : End(p)
  \/ Retry
  \/ AbortTask

LEMMA PhaseAfterEnding == ASSUME Ending PROVE phase' \in {"stopped", "failed", "backoff"}
BY EndsQuietly, RetriesQuietly, AbortsQuietly DEF Ending, Ended

LEMMA HealthAfterEnding == ASSUME HealthInv, Ending PROVE HealthInv'
<1>1. phase' \in {"stopped", "failed", "backoff"}
  BY PhaseAfterEnding
<1>2. CASE health' = Unconnected
  <2>1. /\ health'.connected = FALSE /\ health'.identified = FALSE /\ health'.orphan = FALSE
        /\ health' = [connected |-> FALSE, identified |-> FALSE, orphan |-> FALSE]
    BY <1>2 DEF Unconnected
  <2> QED BY <1>1, <2>1 DEF HealthInv, Connected
<1>3. CASE AbortTask
  <2>1. health' = [connected |-> health.connected, identified |-> health.identified,
                   orphan |-> health.connected]
    BY <1>3, AbortsQuietly DEF HealthInv
  <2>2. /\ health'.connected = health.connected /\ health'.identified = health.identified
        /\ health'.orphan = health.connected
    BY <2>1
  <2> QED BY <1>1, <2>1, <2>2 DEF HealthInv, Connected
<1> QED BY <1>2, <1>3, EndsQuietly, RetriesQuietly DEF Ending

\* The steps that may go on with the connection.
LEMMA EndingSteps ==
  ASSUME GatewayNext
  PROVE  \/ Ending
         \/ LoopTop \/ FetchCredentials \/ Connect \/ ReceiveHello \/ Authenticate
         \/ HeartbeatTick \/ ReceiveAck \/ ReceiveFrame \/ DrainAction \/ SubmitTask
         \/ BackoffOver \/ Shutdown \/ Restart \/ PublishEvent \/ SendControl
         \/ InvalidateSession \/ CloseConnection \/ LoseConnection \/ ExpireSession
<1>1. CASE StopWhileConnecting \/ StopWhileReading \/ HelloRefused
  BY <1>1 DEF StopWhileConnecting, StopWhileReading, HelloRefused, Ending, Ended
<1>2. CASE HelloFails \/ StreamEnds \/ ReconnectRequested \/ AckTimeout \/ ConnectFails
           \/ HeartbeatFails \/ SubmitRejected
  BY <1>2 DEF HelloFails, StreamEnds, ReconnectRequested, AckTimeout, ConnectFails,
              HeartbeatFails, SubmitRejected, Ending
<1>3. CASE ReceiveClose
  BY <1>3 DEF ReceiveClose, Ending, Ended
<1>4. CASE CredentialsFail
  BY <1>4 DEF CredentialsFail, Ending, Ended
<1> QED BY <1>1, <1>2, <1>3, <1>4 DEF GatewayNext, ClientStep, EnvironmentStep, Ending

-----------------------------------------------------------------------------
(* Health and the first frame.                                             *)

LEMMA HealthStep == ASSUME HealthInv, GatewayNext PROVE HealthInv'
<1> USE DEF Connected
<1>0. CASE Ending
  BY <1>0, HealthAfterEnding
<1>1. CASE UNCHANGED <<phase, health>>
  BY <1>1 DEF HealthInv
<1>2. CASE LoopTop
  <2>1. Ending \/ (phase = "loop" /\ phase' = "credentials" /\ UNCHANGED health)
    BY <1>2 DEF LoopTop, Ending, Ended
  <2> QED BY <2>1, HealthAfterEnding DEF HealthInv
<1>3. CASE FetchCredentials
  <2>1. phase = "credentials" /\ phase' = "connect" /\ UNCHANGED health
    BY <1>3 DEF FetchCredentials
  <2> QED BY <2>1 DEF HealthInv
<1>4. CASE Connect
  <2>1. /\ phase' = "hello"
        /\ health' = [connected |-> TRUE, identified |-> FALSE, orphan |-> FALSE]
    BY <1>4 DEF Connect, Unconnected
  <2>2. health'.connected = TRUE /\ health'.identified = FALSE /\ health'.orphan = FALSE
    BY <2>1
  <2> QED BY <2>1, <2>2 DEF HealthInv
<1>5. CASE ReceiveHello
  <2>1. phase = "hello" /\ phase' = "auth" /\ UNCHANGED health
    BY <1>5 DEF ReceiveHello
  <2> QED BY <2>1 DEF HealthInv
<1>6. CASE Authenticate
  <2>1. Ending \/ (phase = "auth" /\ phase' = "read" /\ UNCHANGED health)
    BY <1>6 DEF Authenticate, Ending
  <2> QED BY <2>1, HealthAfterEnding DEF HealthInv
<1>7. CASE ReceiveFrame
  <2>1. /\ phase = "read" /\ phase' = "drain"
        /\ \E value : health' = [health EXCEPT !.identified = value]
    BY <1>7 DEF ReceiveFrame
  <2>2. PICK value : health' = [connected |-> health.connected, identified |-> value,
                                orphan |-> health.orphan]
    BY <2>1 DEF HealthInv
  <2>3. /\ health'.connected = health.connected /\ health'.identified = value
        /\ health'.orphan = health.orphan
    BY <2>2
  <2>4. health' = [connected |-> health'.connected, identified |-> health'.identified,
                   orphan |-> health'.orphan]
    BY <2>2, <2>3
  <2>5. health.connected = TRUE /\ health.orphan = FALSE
    BY <2>1 DEF HealthInv
  <2> QED BY <2>1, <2>3, <2>4, <2>5 DEF HealthInv
<1>8. CASE DrainAction
  <2>1. Ending \/ UNCHANGED <<phase, health>>
    BY <1>8 DEF DrainAction, Ending
  <2> QED BY <2>1, <1>1, HealthAfterEnding
<1>9. CASE SubmitTask
  <2>1. phase = "drain" /\ phase' = "read" /\ UNCHANGED health
    BY <1>9 DEF SubmitTask
  <2> QED BY <2>1 DEF HealthInv
<1>10. CASE BackoffOver
  <2>1. Ending \/ (phase = "backoff" /\ phase' = "loop" /\ UNCHANGED health)
    BY <1>10 DEF BackoffOver, Ending, Ended
  <2> QED BY <2>1, HealthAfterEnding DEF HealthInv
<1>11. CASE Restart
  <2>1. phase \in {"stopped", "failed"} /\ phase' = "loop" /\ UNCHANGED health
    BY <1>11 DEF Restart, Ended
  <2> QED BY <2>1 DEF HealthInv
<1>12. CASE \/ HeartbeatTick \/ ReceiveAck \/ Shutdown \/ PublishEvent \/ SendControl
            \/ InvalidateSession \/ CloseConnection \/ LoseConnection \/ ExpireSession
  <2>1. UNCHANGED <<phase, health>>
    BY <1>12 DEF HeartbeatTick, ReceiveAck, Shutdown, PublishEvent, SendControl,
                 InvalidateSession, CloseConnection, LoseConnection, ExpireSession, clientVars
  <2> QED BY <2>1, <1>1
<1> QED BY EndingSteps, <1>0, <1>2, <1>3, <1>4, <1>5, <1>6, <1>7, <1>8, <1>9, <1>10, <1>11, <1>12

LEMMA SingleFrame ==
  ASSUME NEW S, NEW x \in S
  PROVE  <<x>> \in Seq(S) /\ <<x>> # <<>> /\ Head(<<x>>) = x
OBVIOUS

LEMMA HelloStep == ASSUME HelloFirst, GatewayNext PROVE HelloFirst'
<1>0. CASE Ending
  BY <1>0, PhaseAfterEnding DEF HelloFirst
<1>1. CASE phase' # "hello"
  BY <1>1 DEF HelloFirst
<1>2. CASE UNCHANGED <<phase, conn, wire>>
  BY <1>2 DEF HelloFirst
<1>3. CASE Connect
  <2>1. wire' = <<Control("hello", FALSE)>> /\ conn' = "open" BY <1>3 DEF Connect
  <2>2. Control("hello", FALSE) \in FirstFrames BY DEF FirstFrames
  <2> DEFINE hello == Control("hello", FALSE)
  <2> HIDE DEF FirstFrames, hello
  <2>3. <<hello>> \in Seq(FirstFrames) /\ <<hello>> # <<>> /\ Head(<<hello>>) = hello
    BY <2>2, SingleFrame DEF hello
  <2> QED BY <2>1, <2>3 DEF HelloFirst, hello
<1>4. CASE CloseConnection /\ phase = "hello"
  <2>1. PICK class \in CloseClasses : wire' = Append(wire, Close(class))
    BY <1>4 DEF CloseConnection
  <2>2. Alive /\ conn' = "down" BY <1>4 DEF CloseConnection
  <2>3. Close(class) \in FirstFrames BY DEF FirstFrames
  <2>4. wire \in Seq(FirstFrames) /\ wire # <<>> /\ Head(wire) = Control("hello", FALSE)
    BY <1>4, <2>2 DEF HelloFirst, Alive
  <2> DEFINE frame == Close(class)
  <2> HIDE DEF FirstFrames, frame
  <2>5. Append(wire, frame) \in Seq(FirstFrames) /\ Head(Append(wire, frame)) = Head(wire)
    BY <2>3, <2>4 DEF frame
  <2> QED BY <2>1, <2>2, <2>4, <2>5 DEF HelloFirst, frame
<1>5. CASE LoseConnection /\ phase = "hello"
  <2>1. PICK n \in 0..Len(wire) : wire' = SubSeq(wire, 1, n) BY <1>5 DEF LoseConnection
  <2>2. conn' \in {"down", "gone"} BY <1>5 DEF LoseConnection
  <2>3. wire \in Seq(FirstFrames) /\ (wire # <<>> => Head(wire) = Control("hello", FALSE))
    BY <1>5 DEF HelloFirst
  <2> HIDE DEF FirstFrames
  <2>4. SubSeq(wire, 1, n) \in Seq(FirstFrames) BY <2>3
  <2>5. SubSeq(wire, 1, n) # <<>> => wire # <<>> /\ Head(SubSeq(wire, 1, n)) = Head(wire)
    BY <2>3
  <2> QED BY <2>1, <2>2, <2>3, <2>4, <2>5 DEF HelloFirst
<1>6. CASE LoopTop \/ FetchCredentials \/ ReceiveHello \/ Authenticate \/ HeartbeatTick
           \/ ReceiveAck \/ ReceiveFrame \/ DrainAction \/ SubmitTask \/ BackoffOver \/ Restart
  <2>1. Ending \/ phase' # "hello"
    <3>1. CASE LoopTop \/ BackoffOver BY <3>1 DEF LoopTop, BackoffOver, Ending, Ended
    <3>2. CASE Authenticate BY <3>2 DEF Authenticate, Ending
    <3>3. CASE DrainAction BY <3>3 DEF DrainAction, Ending
    <3>4. CASE \/ FetchCredentials \/ ReceiveHello \/ HeartbeatTick \/ ReceiveAck \/ ReceiveFrame
               \/ SubmitTask \/ Restart
      BY <3>4 DEF FetchCredentials, ReceiveHello, HeartbeatTick, ReceiveAck, ReceiveFrame,
                  SubmitTask, Restart
    <3> QED BY <1>6, <3>1, <3>2, <3>3, <3>4
  <2> QED BY <2>1, <1>0, <1>1
<1>7. CASE Shutdown \/ ExpireSession
  BY <1>7, <1>2 DEF Shutdown, ExpireSession, serverVars, network, clientVars
<1>8. CASE PublishEvent
  <2>1. UNCHANGED <<phase, conn>> /\ (conn # "live" => UNCHANGED wire)
    BY <1>8 DEF PublishEvent, Push2Client, clientVars
  <2>2. phase # "hello" \/ UNCHANGED <<phase, conn, wire>> BY <2>1 DEF HelloFirst
  <2> QED BY <2>1, <2>2, <1>1, <1>2
<1>9. CASE SendControl \/ InvalidateSession
  <2>1. conn = "live" /\ UNCHANGED phase BY <1>9 DEF SendControl, InvalidateSession, clientVars
  <2> QED BY <2>1 DEF HelloFirst
<1>10. CASE (CloseConnection \/ LoseConnection) /\ phase # "hello"
  BY <1>10, <1>1 DEF CloseConnection, LoseConnection, clientVars
<1> QED BY EndingSteps, <1>0, <1>3, <1>4, <1>5, <1>6, <1>7, <1>8, <1>9, <1>10

-----------------------------------------------------------------------------
(* What a frame leaves behind.                                             *)

\* Every frame queues one action at most.
LEMMA OneActionPerFrame ==
  ASSUME NEW f, actions = <<>>, HandleFrame(f)
  PROVE  actions' = <<>> \/ \E a : actions' = <<a>>
<1>1. \A a : Append(<<>>, a) = <<a>>
  OBVIOUS
<1>2. UNCHANGED actions \/ \E a : actions' = Append(actions, a)
  <2>1. CASE HandleDispatch(f) BY <2>1 DEF HandleDispatch, Push
  <2>2. CASE HandleInvalidSession(f) BY <2>2 DEF HandleInvalidSession, Push
  <2>3. CASE HandleHello(f) BY <2>3 DEF HandleHello, Push
  <2>4. CASE HandleSimple(f) BY <2>4 DEF HandleSimple, Push
  <2> QED BY <2>1, <2>2, <2>3, <2>4 DEF HandleFrame
<1> QED BY <1>1, <1>2

\* The HELLO that is awaited makes no task.
LEMMA HelloMakesNoTask ==
  ASSUME HandleFrame(Control("hello", FALSE))
  PROVE  task' = NoTask
BY DEF HandleFrame, HandleDispatch, Control

LEMMA QueueStep == ASSUME QueueInv, HelloFirst, GatewayNext PROVE QueueInv'
<1> USE DEF NothingLeftOver
<1>0. CASE actions' = <<>> /\ task' = NoTask
  BY <1>0 DEF QueueInv
<1>1. CASE UNCHANGED <<phase, actions, task>>
  BY <1>1 DEF QueueInv
<1>2. CASE phase \notin {"auth", "drain"} /\ UNCHANGED <<actions, task>>
  <2>1. actions = <<>> /\ task = NoTask BY <1>2 DEF QueueInv
  <2> QED BY <1>2, <2>1, <1>0
<1>3. CASE \/ LoopTop \/ FetchCredentials \/ CredentialsFail \/ Connect \/ ConnectFails
           \/ StopWhileConnecting \/ HelloFails \/ HelloRefused \/ StopWhileReading \/ AckTimeout
           \/ HeartbeatTick \/ HeartbeatFails \/ StreamEnds \/ ReceiveClose \/ ReceiveAck
           \/ BackoffOver
  <2>1. phase \notin {"auth", "drain"}
    BY <1>3 DEF LoopTop, FetchCredentials, CredentialsFail, Connect, ConnectFails,
                StopWhileConnecting, HelloFails, HelloRefused, StopWhileReading, AckTimeout,
                HeartbeatTick, HeartbeatFails, StreamEnds, ReceiveClose, ReceiveAck, BackoffOver
  <2>2. UNCHANGED <<actions, task>>
    BY <1>3 DEF LoopTop, FetchCredentials, CredentialsFail, Connect, ConnectFails,
                StopWhileConnecting, HelloFails, HelloRefused, StopWhileReading, AckTimeout,
                HeartbeatTick, HeartbeatFails, StreamEnds, ReceiveClose, ReceiveAck, BackoffOver,
                pumpVars
  <2> QED BY <2>1, <2>2, <1>2
<1>4. CASE ReceiveHello
  <2>1. phase = "hello" /\ wire # <<>> /\ HandleFrame(Head(wire)) /\ phase' = "auth"
    BY <1>4 DEF ReceiveHello
  <2>2. task' = NoTask BY <2>1, HelloMakesNoTask DEF HelloFirst
  <2>3. actions' = <<>> \/ \E a : actions' = <<a>>
    BY <2>1, OneActionPerFrame DEF QueueInv
  <2> QED BY <2>1, <2>2, <2>3 DEF QueueInv
<1>5. CASE Authenticate
  <2>1. task = NoTask /\ UNCHANGED task BY <1>5 DEF Authenticate, QueueInv
  <2>2. actions' = <<>>
    <3>1. CASE actions = <<>> BY <1>5, <3>1 DEF Authenticate
    <3>2. CASE \E a : actions = <<a>>
      <4>1. actions' = Tail(actions) BY <1>5, <3>2 DEF Authenticate
      <4> QED BY <3>2, <4>1
    <3> QED BY <3>1, <3>2 DEF QueueInv
  <2> QED BY <2>1, <2>2, <1>0
<1>6. CASE ReceiveFrame
  <2>1. phase = "read" /\ HandleFrame(Head(wire)) /\ phase' = "drain" BY <1>6 DEF ReceiveFrame
  <2>2. actions' = <<>> \/ \E a : actions' = <<a>>
    BY <2>1, OneActionPerFrame DEF QueueInv
  <2> QED BY <2>1, <2>2 DEF QueueInv
<1>7. CASE DrainAction
  <2>1. phase = "drain" /\ actions # <<>> /\ actions' = Tail(actions)
    BY <1>7 DEF DrainAction, PopAction
  <2>2. actions' = <<>>
    <3>1. PICK a : actions = <<a>> BY <2>1 DEF QueueInv
    <3> QED BY <2>1, <3>1
  <2>3. UNCHANGED phase \/ task' = NoTask BY <1>7 DEF DrainAction
  <2> QED BY <2>1, <2>2, <2>3 DEF QueueInv
<1>8. CASE ReconnectRequested \/ SubmitTask \/ SubmitRejected
  <2>1. actions = <<>> /\ UNCHANGED actions
    BY <1>8 DEF ReconnectRequested, SubmitTask, SubmitRejected, Accept, Reject, pumpVars
  <2>2. task' = NoTask
    BY <1>8 DEF ReconnectRequested, SubmitTask, SubmitRejected, Accept, Reject, pumpVars
  <2> QED BY <2>1, <2>2, <1>0
<1>9. CASE Restart
  BY <1>9, <1>0 DEF Restart
<1>11. CASE AbortTask
  <2>1. actions' = <<>> /\ task' = task /\ task = NoTask
    BY <1>11 DEF AbortTask, QueueInv
  <2> QED BY <2>1, <1>0
<1>10. CASE \/ Shutdown \/ PublishEvent \/ SendControl \/ InvalidateSession \/ CloseConnection
            \/ LoseConnection \/ ExpireSession
  <2>1. UNCHANGED <<phase, actions, task>>
    BY <1>10 DEF Shutdown, PublishEvent, SendControl, InvalidateSession, CloseConnection,
                 LoseConnection, ExpireSession, clientVars, pumpVars
  <2> QED BY <2>1, <1>1
<1> QED BY <1>3, <1>4, <1>5, <1>6, <1>7, <1>8, <1>9, <1>10, <1>11
        DEF GatewayNext, ClientStep, EnvironmentStep

-----------------------------------------------------------------------------
(* The access token of the source.                                         *)

LEMMA TokenStep == ASSUME TokenInv, GatewayNext PROVE TokenInv'
<1> DEFINE Holds == Connected \cup {"connect"}
<1>t. issued \in Nat /\ None \in 0..issued /\ None \notin condemned
  BY DEF TokenInv, None
<1>0. CASE /\ phase' \notin Holds /\ token' \in {token, None} /\ connToken' = None
           /\ UNCHANGED <<issued, condemned>>
  BY <1>0, <1>t DEF TokenInv
<1>1. CASE (phase' \in Holds => phase \in Holds) /\ UNCHANGED <<token, connToken, issued, condemned>>
  BY <1>1 DEF TokenInv
<1>2. CASE Ending /\ token' \in {token, None} /\ UNCHANGED <<issued, condemned>>
  <2>1. phase' \in {"stopped", "failed", "backoff"} /\ connToken' = None
    BY <1>2, EndsQuietly, RetriesQuietly, AbortsQuietly DEF Ending, Ended
  <2> QED BY <1>2, <2>1, <1>0 DEF Connected
<1>3. CASE StopWhileConnecting \/ StopWhileReading \/ HelloRefused
  <2>1. (\E p \in Ended : End(p)) /\ UNCHANGED <<issued, condemned>>
    BY <1>3 DEF StopWhileConnecting, StopWhileReading, HelloRefused, Ended, tokenServer
  <2>2. token' = None BY <2>1, EndsQuietly
  <2> QED BY <2>1, <2>2, <1>2 DEF Ending
<1>4. CASE HelloFails \/ StreamEnds \/ ReconnectRequested \/ AckTimeout \/ ConnectFails
           \/ HeartbeatFails \/ SubmitRejected
  <2>1. Retry /\ UNCHANGED <<token, issued, condemned>>
    BY <1>4 DEF HelloFails, StreamEnds, ReconnectRequested, AckTimeout, ConnectFails,
                HeartbeatFails, SubmitRejected, tokenServer
  <2> QED BY <2>1, <1>2 DEF Ending
<1>5. CASE CredentialsFail
  <2>1. (Retry /\ UNCHANGED token) \/ End("failed") BY <1>5 DEF CredentialsFail
  <2>2. UNCHANGED <<issued, condemned>> BY <1>5 DEF CredentialsFail, tokenServer
  <2> QED BY <2>1, <2>2, <1>2, EndsQuietly DEF Ending, Ended
<1>6. CASE LoopTop \/ BackoffOver
  <2>1. \/ End("stopped")
        \/ phase' \in {"credentials", "loop"} /\ UNCHANGED <<token, connToken>>
    BY <1>6 DEF LoopTop, BackoffOver
  <2>2. UNCHANGED <<issued, condemned>> BY <1>6 DEF LoopTop, BackoffOver, tokenServer
  <2>3. CASE End("stopped") BY <2>2, <2>3, <1>2, EndsQuietly DEF Ending, Ended
  <2>4. CASE phase' \in {"credentials", "loop"} /\ UNCHANGED <<token, connToken>>
    BY <2>2, <2>4, <1>1 DEF Connected
  <2> QED BY <2>1, <2>3, <2>4
<1>7. CASE FetchCredentials
  <2>1. UNCHANGED condemned /\ connToken' = token' BY <1>7 DEF FetchCredentials
  <2>2. CASE token # None /\ UNCHANGED <<token, issued>>
    BY <2>1, <2>2 DEF TokenInv
  <2>3. CASE token = None /\ token' = issued + 1 /\ issued' = issued + 1
    <3>1. issued' \in Nat /\ token' \in 0..issued' /\ token' # None /\ token' \notin 1..issued
      BY <2>3, <1>t DEF None
    <3>2. condemned \subseteq 1..issued /\ 1..issued \subseteq 1..issued'
      BY <2>3, <1>t DEF TokenInv
    <3> QED BY <2>1, <3>1, <3>2 DEF TokenInv
  <2> QED BY <1>7, <2>2, <2>3 DEF FetchCredentials
<1>8. CASE ReceiveClose
  <2> DEFINE class == Head(wire).class
  <2>1. phase = "read" /\ UNCHANGED issued BY <1>8 DEF ReceiveClose
  <2>2. connToken \in 1..issued /\ connToken = token
    BY <2>1 DEF TokenInv, Connected, None
  <2>3. \/ End("failed") /\ condemned' \subseteq condemned \cup {connToken}
        \/ Retry /\ token' = None /\ condemned' \subseteq condemned \cup {connToken}
        \/ Retry /\ token' = token /\ UNCHANGED condemned
    BY <1>8 DEF ReceiveClose, InvalidatesToken
  <2>4. phase' \in {"failed", "backoff"} /\ connToken' = None
    BY <2>3, EndsQuietly, RetriesQuietly
  <2>5. \/ token' = None /\ condemned' \subseteq 1..issued
        \/ token' = token /\ UNCHANGED condemned
    BY <2>2, <2>3, EndsQuietly DEF TokenInv
  <2>6. phase' \notin Holds BY <2>4 DEF Connected
  <2>7. None \notin 1..issued BY DEF None
  <2> QED BY <1>t, <2>1, <2>4, <2>5, <2>6, <2>7 DEF TokenInv
<1>9. CASE Authenticate \/ DrainAction
  <2>1. UNCHANGED <<token, issued, condemned>> BY <1>9 DEF Authenticate, DrainAction, tokenServer
  <2>2. \/ Retry
        \/ phase \in Holds /\ UNCHANGED connToken
    BY <1>9 DEF Authenticate, DrainAction, Connected
  <2> QED BY <2>1, <2>2, <1>1, <1>2 DEF Ending
<1>10. CASE \/ Connect \/ ReceiveHello \/ HeartbeatTick \/ ReceiveAck \/ ReceiveFrame \/ SubmitTask
            \/ Shutdown \/ Restart \/ PublishEvent \/ SendControl \/ InvalidateSession
            \/ CloseConnection \/ LoseConnection \/ ExpireSession
  <2>1. UNCHANGED <<token, connToken, issued, condemned>>
    BY <1>10 DEF Connect, ReceiveHello, HeartbeatTick, ReceiveAck, ReceiveFrame, SubmitTask,
                 Shutdown, Restart, PublishEvent, SendControl, InvalidateSession, CloseConnection,
                 LoseConnection, ExpireSession, clientVars, serverVars, tokenServer
  <2>2. phase' \in Holds => phase \in Holds
    BY <1>10 DEF Connect, ReceiveHello, HeartbeatTick, ReceiveAck, ReceiveFrame, SubmitTask,
                 Shutdown, Restart, PublishEvent, SendControl, InvalidateSession, CloseConnection,
                 LoseConnection, ExpireSession, clientVars, Connected
  <2> QED BY <2>1, <2>2, <1>1
<1>11. CASE AbortTask
  <2>1. phase' = "failed" /\ connToken' = None /\ UNCHANGED condemned
    BY <1>11, AbortsQuietly
  <2>2. CASE token' = None /\ UNCHANGED issued
    BY <1>11, <2>1, <2>2, <1>2 DEF Ending
  <2>3. CASE token' = issued + 1 /\ issued' = issued + 1
    <3>1. /\ issued' \in Nat /\ token' \in 0..issued' /\ None \in 0..issued'
          /\ token' \notin 1..issued
      BY <2>3, <1>t DEF None
    <3>2. condemned \subseteq 1..issued /\ 1..issued \subseteq 1..issued'
      BY <2>3, <1>t DEF TokenInv
    <3>3. phase' \notin Holds
      BY <2>1 DEF Connected
    <3> QED BY <2>1, <3>1, <3>2, <3>3 DEF TokenInv
  <2> QED BY <1>11, <2>2, <2>3 DEF AbortTask
<1> QED BY <1>3, <1>4, <1>5, <1>6, <1>7, <1>8, <1>9, <1>10, <1>11
        DEF GatewayNext, ClientStep, EnvironmentStep

-----------------------------------------------------------------------------
(* The theorems.                                                           *)

LEMMA GatewayUnchanged == ASSUME GatewayInv, UNCHANGED gatewayVars PROVE GatewayInv'
<1>1. UNCHANGED <<phase, health, actions, task, token, connToken, issued, condemned, conn, wire>>
  BY DEF gatewayVars, pumpVars, clientVars, serverVars, network, tokenServer
<1> QED BY <1>1 DEF GatewayInv, HealthInv, HelloFirst, QueueInv, NothingLeftOver, TokenInv

LEMMA GatewayInitially == ASSUME GatewayInit PROVE GatewayInv
<1>1. HealthInv
  <2>1. /\ phase = "loop" /\ health = Unconnected
        /\ Unconnected = [connected |-> FALSE, identified |-> FALSE, orphan |-> FALSE]
    BY DEF GatewayInit, Unconnected
  <2>2. health.connected = FALSE /\ health.identified = FALSE /\ health.orphan = FALSE
    BY <2>1
  <2> QED BY <2>1, <2>2 DEF HealthInv, Connected
<1>2. HelloFirst BY DEF GatewayInit, HelloFirst
<1>3. QueueInv BY DEF GatewayInit, PumpInit, QueueInv, NothingLeftOver
<1>4. TokenInv BY DEF GatewayInit, TokenInv, None, Connected
<1> QED BY <1>1, <1>2, <1>3, <1>4 DEF GatewayInv

\* The four parts of the invariant hold whatever server, network, Core and host do.
THEOREM GatewayInvariant == GatewaySpec => []GatewayInv
<1>1. ASSUME GatewayInv, [GatewayNext]_gatewayVars PROVE GatewayInv'
  BY <1>1, HealthStep, HelloStep, QueueStep, TokenStep, GatewayUnchanged DEF GatewayInv
<1> QED BY <1>1, GatewayInitially, PTL DEF GatewaySpec

\* The health snapshot says connected exactly while run_connection has a socket,
\* and identified only while it reads, on every way out of it (event_source.rs) but
\* one: when the future of shutdown() is dropped, AbortHandleOnDrop aborts the task,
\* and the snapshot stays as it was until the next task of the source marks it.
THEOREM HealthIsTrue == GatewaySpec => []HealthTracksPhase
<1>1. GatewayInv => HealthTracksPhase
  <2> SUFFICES ASSUME HealthInv PROVE HealthTracksPhase
    BY DEF GatewayInv
  <2>1. CASE phase \in Connected
    BY <2>1 DEF HealthInv, HealthTracksPhase, Connected
  <2>2. CASE phase \notin Connected
    BY <2>2 DEF HealthInv, HealthTracksPhase, Connected
  <2> QED BY <2>1, <2>2
<1> QED BY <1>1, GatewayInvariant, PTL

\* A frame's task and action are settled before the next frame is read, whatever
\* the frame was and however a connection before it ended (the drain loop and
\* send_auth_action of event_source.rs take the oldest action for their own).
THEOREM NothingIsLeftOver == GatewaySpec => []NothingLeftOver
<1>1. GatewayInv => NothingLeftOver
  BY DEF GatewayInv, QueueInv
<1> QED BY <1>1, GatewayInvariant, PTL

\* A connection never starts with a token a close code has condemned (the reset of
\* the token cell after 4004 and the invalid sessions, event_source.rs).
THEOREM CondemnedNotReused == GatewaySpec => []CondemnedTokenNotReused
<1>1. GatewayInv => CondemnedTokenNotReused
  BY DEF GatewayInv, TokenInv, CondemnedTokenNotReused
<1> QED BY <1>1, GatewayInvariant, PTL

-----------------------------------------------------------------------------
(* The order of the events.                                                *)

\* The numbers of D up to i.
Below(D, i) == {j \in D : j <= i}
Rank(D, i) == Cardinality(Below(D, i))

LEMMA RankFacts ==
  ASSUME NEW n \in Nat, NEW D \in SUBSET (1..n), NEW i \in D
  PROVE  /\ Rank(D, i) \in 1..Cardinality(D)
         /\ \A j \in D : i < j => Rank(D, i) < Rank(D, j)
<1>1. ASSUME NEW T \in SUBSET D PROVE IsFiniteSet(T) /\ Cardinality(T) \in Nat
  <2>1. IsFiniteSet(1..n)
    BY FS_Interval
  <2>2. T \in SUBSET (1..n)
    OBVIOUS
  <2>3. IsFiniteSet(T)
    BY <2>1, <2>2, FS_Subset
  <2> QED
    BY <2>3, FS_CardinalityType
<1>2. \A j \in D : j \in Int
  OBVIOUS
<1>3. ASSUME NEW j \in D PROVE Below(D, j) \in SUBSET D /\ j \in Below(D, j)
  BY <1>2 DEF Below
<1>4. Rank(D, i) <= Cardinality(D) /\ Rank(D, i) \in Nat /\ Cardinality(D) \in Nat
  <2>1. IsFiniteSet(D) /\ Cardinality(D) \in Nat
    BY <1>1
  <2> QED
    BY <2>1, <1>1, <1>3, FS_Subset DEF Rank
<1>5. Rank(D, i) # 0
  <2>1. IsFiniteSet(Below(D, i)) /\ Below(D, i) # {}
    BY <1>1, <1>3
  <2> QED
    BY <2>1, FS_EmptySet DEF Rank
<1>6. ASSUME NEW j \in D, i < j PROVE Rank(D, i) < Rank(D, j)
  <2>1. j \notin Below(D, i)
    BY <1>2, <1>6 DEF Below
  <2>2. Below(D, i) \cup {j} \in SUBSET Below(D, j)
    <3>1. i \in Int /\ j \in Int
      BY <1>2
    <3>2. \A x \in D : x <= i => x <= j
      BY <1>2, <1>6, <3>1
    <3>3. Below(D, i) \subseteq Below(D, j)
      BY <3>2 DEF Below
    <3>4. j \in Below(D, j)
      BY <3>1 DEF Below
    <3> QED
      BY <3>3, <3>4
  <2>3. IsFiniteSet(Below(D, i)) /\ IsFiniteSet(Below(D, j))
    BY <1>1, <1>3
  <2>4. Cardinality(Below(D, i) \cup {j}) = Rank(D, i) + 1
    BY <2>1, <2>3, FS_AddElement DEF Rank
  <2>5. Cardinality(Below(D, i) \cup {j}) <= Rank(D, j)
    BY <2>2, <2>3, FS_Subset DEF Rank
  <2>6. Rank(D, j) \in Nat
    BY <1>1, <1>3 DEF Rank
  <2> QED
    BY <1>4, <2>4, <2>5, <2>6
<1> QED
  BY <1>4, <1>5, <1>6

\* Every rank is taken.
LEMMA RankTaken ==
  ASSUME NEW n \in Nat, NEW D \in SUBSET (1..n), NEW c \in 1..Cardinality(D)
  PROVE  \E i \in D : Rank(D, i) = c
<1> DEFINE f == [i \in D |-> Rank(D, i)]
           places == 1..Cardinality(D)
<1>1. IsFiniteSet(D) /\ Cardinality(D) \in Nat
  <2>1. IsFiniteSet(1..n)
    BY FS_Interval
  <2>2. IsFiniteSet(D)
    BY <2>1, FS_Subset
  <2> QED
    BY <2>2, FS_CardinalityType
<1>2. IsFiniteSet(places) /\ Cardinality(places) = Cardinality(D)
  BY <1>1, FS_Interval
<1>3. \A i \in D : Rank(D, i) \in places /\ \A j \in D : i < j => Rank(D, i) < Rank(D, j)
  BY RankFacts
<1>4. \A i, j \in D : f[i] = f[j] => i = j
  <2>1. \A i \in D : i \in Int /\ Rank(D, i) \in Int
    BY <1>3
  <2> HIDE DEF places
  <2>2. \A i, j \in D : i < j => Rank(D, i) < Rank(D, j)
    BY <1>3
  <2> QED
    BY <2>1, <2>2
<1>5. f \in Injection(D, places)
  <2>1. f \in [D -> places] /\ DOMAIN f = D
    BY <1>3
  <2> QED
    BY <1>4, <2>1 DEF Injection, IsInjective
<1> HIDE DEF f, places
<1>6. f \in Surjection(D, places)
  BY <1>1, <1>2, <1>5, FS_Injection
<1>7. PICK i \in D : f[i] = c
  BY <1>6 DEF Surjection, places
<1> QED
  BY <1>7 DEF f

LEMMA AscendingFacts ==
  ASSUME NEW n \in Nat, NEW D \in SUBSET (1..n)
  PROVE  /\ Ascending(D) \in Seq(D) /\ Len(Ascending(D)) = Cardinality(D)
         /\ Cardinality(D) \in Nat
         /\ \A k \in 1..Cardinality(D) : Ascending(D)[k] \in D /\ Rank(D, Ascending(D)[k]) = k
         /\ \A k, m \in 1..Cardinality(D) : k < m => Ascending(D)[k] < Ascending(D)[m]
<1>1. Cardinality(D) \in Nat
  <2>1. IsFiniteSet(1..n)
    BY FS_Interval
  <2>2. IsFiniteSet(D)
    BY <2>1, FS_Subset
  <2> QED
    BY <2>2, FS_CardinalityType
<1>2. ASSUME NEW k \in 1..Cardinality(D)
      PROVE  Ascending(D)[k] \in D /\ Rank(D, Ascending(D)[k]) = k
  <2>1. Ascending(D)[k] = CHOOSE i \in D : Rank(D, i) = k
    BY DEF Ascending, Rank, Below
  <2>2. \E i \in D : Rank(D, i) = k
    BY RankTaken
  <2> QED
    BY <2>1, <2>2
<1>3. Ascending(D) \in Seq(D) /\ Len(Ascending(D)) = Cardinality(D)
  <2>1. Ascending(D) \in [1..Cardinality(D) -> D]
    BY <1>2 DEF Ascending
  <2> QED
    BY <1>1, <2>1
<1>4. ASSUME NEW k \in 1..Cardinality(D), NEW m \in 1..Cardinality(D), k < m
      PROVE  Ascending(D)[k] < Ascending(D)[m]
  <2> DEFINE a == Ascending(D)[k]
             b == Ascending(D)[m]
  <2>1. a \in D /\ b \in D /\ Rank(D, a) = k /\ Rank(D, b) = m
    BY <1>2
  <2> HIDE DEF a, b
  <2>2. a \in Int /\ b \in Int
    BY <2>1
  <2>3. b < a => Rank(D, b) < Rank(D, a)
    BY <2>1, RankFacts
  <2>4. a # b
    BY <1>1, <1>4, <2>1
  <2>5. ~(b < a)
    BY <1>1, <1>4, <2>1, <2>3
  <2> QED
    BY <2>2, <2>4, <2>5 DEF a, b
<1> QED
  BY <1>1, <1>2, <1>3, <1>4

\* All the numbers are there.
LEMMA AscendingHas ==
  ASSUME NEW n \in Nat, NEW D \in SUBSET (1..n), NEW i \in D
  PROVE  \E k \in 1..Cardinality(D) : Ascending(D)[k] = i
<1>1. Rank(D, i) \in 1..Cardinality(D)
  BY RankFacts
<1>2. PICK a : a = Ascending(D)[Rank(D, i)]
  OBVIOUS
<1>3. a \in D /\ Rank(D, a) = Rank(D, i)
  BY <1>1, <1>2, AscendingFacts
<1>4. a = i
  <2>1. a \in Int /\ i \in Int
    BY <1>3
  <2>2. a < i => Rank(D, a) < Rank(D, i)
    BY <1>3, RankFacts
  <2>3. i < a => Rank(D, i) < Rank(D, a)
    BY <1>3, RankFacts
  <2> QED
    BY <1>1, <1>3, <2>1, <2>2, <2>3
<1> QED
  BY <1>1, <1>2, <1>4

\* A number above the others comes last.
LEMMA AscendingGrows ==
  ASSUME NEW n \in Nat, NEW D \in SUBSET (1..n)
  PROVE  Ascending(D \cup {n + 1}) = Append(Ascending(D), n + 1)
<1> DEFINE E == D \cup {n + 1}
           c == Cardinality(D)
<1>1. E \in SUBSET (1..n + 1) /\ n + 1 \in Nat
  OBVIOUS
<1>2. c \in Nat /\ Cardinality(E) = c + 1
  <2>1. IsFiniteSet(1..n)
    BY FS_Interval
  <2>2. IsFiniteSet(D)
    BY <2>1, FS_Subset
  <2>3. n + 1 \notin D
    OBVIOUS
  <2> QED
    BY <2>2, <2>3, FS_AddElement, FS_CardinalityType
<1>3. ASSUME NEW i \in D PROVE Rank(E, i) = Rank(D, i)
  <2>1. ~(n + 1 <= i)
    OBVIOUS
  <2>2. Below(E, i) = Below(D, i)
    BY <2>1 DEF Below
  <2> QED
    BY <2>2 DEF Rank
<1>4. Rank(E, n + 1) = c + 1
  <2>1. \A j \in E : j <= n + 1
    OBVIOUS
  <2>2. Below(E, n + 1) = E
    BY <2>1 DEF Below
  <2> QED
    BY <1>2, <2>2 DEF Rank
<1> HIDE DEF E
<1>5. PICK a : a = Ascending(D)
  OBVIOUS
<1>6. PICK b : b = Ascending(E)
  OBVIOUS
<1>7. /\ a \in Seq(D) /\ Len(a) = c
      /\ \A k \in 1..c : a[k] \in D /\ Rank(D, a[k]) = k
  BY <1>5, AscendingFacts
<1>8. /\ b \in Seq(E) /\ Len(b) = c + 1
      /\ \A k \in 1..c + 1 : b[k] \in E /\ Rank(E, b[k]) = k
  BY <1>1, <1>2, <1>6, AscendingFacts
<1>9. ASSUME NEW x \in E, NEW y \in E, Rank(E, x) = Rank(E, y) PROVE x = y
  <2>1. x \in Int /\ y \in Int
    BY <1>1
  <2>2. Rank(E, x) \in Int /\ Rank(E, y) \in Int
    <3>1. Rank(E, x) \in 1..Cardinality(E) /\ Rank(E, y) \in 1..Cardinality(E)
      BY <1>1, RankFacts
    <3> QED
      BY <3>1
  <2>3. x < y => Rank(E, x) < Rank(E, y)
    BY <1>1, RankFacts
  <2>4. y < x => Rank(E, y) < Rank(E, x)
    BY <1>1, RankFacts
  <2> QED
    BY <1>9, <2>1, <2>2, <2>3, <2>4
<1>10. D \subseteq E /\ n + 1 \in E
  BY DEF E
<1>11. ASSUME NEW k \in 1..c PROVE b[k] = a[k]
  <2>1. b[k] \in E /\ Rank(E, b[k]) = k
    BY <1>2, <1>8
  <2>2. a[k] \in E /\ Rank(E, a[k]) = k
    BY <1>3, <1>7, <1>10
  <2> QED
    BY <1>9, <2>1, <2>2
<1>12. b[c + 1] = n + 1
  <2>1. b[c + 1] \in E /\ Rank(E, b[c + 1]) = c + 1
    BY <1>2, <1>8
  <2> QED
    BY <1>4, <1>9, <1>10, <2>1
<1>13. b = Append(a, n + 1)
  <2>1. a \in Seq(E)
    <3>1. DOMAIN a = 1..c /\ a = [k \in DOMAIN a |-> a[k]]
      BY <1>2, <1>7
    <3>2. a \in [1..c -> E]
      BY <1>7, <1>10, <3>1
    <3> QED
      BY <1>2, <3>2
  <2>2. /\ Append(a, n + 1) \in Seq(E) /\ Len(Append(a, n + 1)) = c + 1
        /\ \A k \in 1..c : Append(a, n + 1)[k] = a[k]
        /\ Append(a, n + 1)[c + 1] = n + 1
    BY <1>2, <1>7, <1>10, <2>1
  <2>3. \A k \in 1..c + 1 : k \in 1..c \/ k = c + 1
    BY <1>2
  <2>4. PICK d : d = Append(a, n + 1)
    OBVIOUS
  <2>5. d \in Seq(E) /\ Len(d) = c + 1 /\ \A k \in 1..c + 1 : d[k] = b[k]
    BY <1>11, <1>12, <2>2, <2>3, <2>4
  <2> QED
    BY <1>2, <1>8, <2>4, <2>5
<1> QED
  BY <1>5, <1>6, <1>13 DEF E

-----------------------------------------------------------------------------
(* What Core has.                                                          *)

EventPositions == {i \in 1..Len(accepted) : accepted[i][1] = "id"}
LastDelivered == Channel!LastDelivered

LEMMA NothingDelivered == ASSUME accepted = <<>> PROVE Delivered = <<>>
<1>1. EventPositions = {}
  BY DEF EventPositions
<1>2. Len(Ascending({})) = 0
  <2>1. {} \in SUBSET (1..0) /\ 0 \in Nat
    OBVIOUS
  <2> QED
    BY <2>1, AscendingFacts, FS_EmptySet
<1>3. Delivered = [k \in 1..0 |-> accepted[Ascending({})[k]][2]]
  BY <1>1, <1>2 DEF Delivered, EventPositions
<1> QED
  BY <1>3

\* An accepted event is delivered next, another task is no event.
LEMMA DeliveredGrows ==
  ASSUME NEW k \in Keys, accepted \in Seq(Keys), accepted' = Append(accepted, k)
  PROVE  /\ Delivered \in Seq(Nat)
         /\ k[1] = "id" => Delivered' = Append(Delivered, k[2])
         /\ k[1] # "id" => Delivered' = Delivered
<1> DEFINE n == Len(accepted)
<1>1. n \in Nat /\ \A i \in 1..n : accepted[i] \in Keys
  OBVIOUS
<1>2. /\ Len(accepted') = n + 1 /\ accepted'[n + 1] = k
      /\ \A i \in 1..n : accepted'[i] = accepted[i]
  OBVIOUS
<1>3. PICK D \in SUBSET (1..n) : D = EventPositions
  BY DEF EventPositions
<1> HIDE DEF n
<1>4. EventPositions' = IF k[1] = "id" THEN D \cup {n + 1} ELSE D
  <2>1. 1..n + 1 = (1..n) \cup {n + 1} /\ n + 1 \notin 1..n
    BY <1>1
  <2>2. EventPositions' = {i \in 1..n + 1 : accepted'[i][1] = "id"}
    BY <1>2 DEF EventPositions
  <2>3. D = {i \in 1..n : accepted[i][1] = "id"}
    BY <1>3 DEF EventPositions, n
  <2>4. \A i \in 1..n : accepted'[i][1] = "id" <=> i \in D
    BY <1>2, <2>3
  <2>5. accepted'[n + 1][1] = "id" <=> k[1] = "id"
    BY <1>2
  <2> QED
    BY <2>1, <2>2, <2>4, <2>5
<1>5. PICK a : a = Ascending(D)
  OBVIOUS
<1>6. a \in Seq(D) /\ \A j \in 1..Len(a) : a[j] \in 1..n
  BY <1>1, <1>5, AscendingFacts
<1>7. Delivered = [j \in 1..Len(a) |-> accepted[a[j]][2]]
  BY <1>3, <1>5 DEF Delivered, EventPositions
<1>8. ASSUME NEW j \in 1..Len(a) PROVE accepted'[a[j]][2] = accepted[a[j]][2] /\ accepted[a[j]][2] \in Nat
  BY <1>1, <1>2, <1>6 DEF Keys
<1>9. Delivered \in Seq(Nat) /\ Len(Delivered) = Len(a) /\ Len(a) \in Nat
  BY <1>6, <1>7, <1>8
<1>10. ASSUME k[1] # "id" PROVE Delivered' = Delivered
  <2>1. EventPositions' = D
    BY <1>4, <1>10
  <2>2. Delivered' = [j \in 1..Len(a) |-> accepted'[a[j]][2]]
    BY <1>5, <2>1 DEF Delivered, EventPositions
  <2> QED
    BY <1>7, <1>8, <2>2
<1>11. ASSUME k[1] = "id" PROVE Delivered' = Append(Delivered, k[2])
  <2>1. EventPositions' = D \cup {n + 1}
    BY <1>4, <1>11
  <2>2. Ascending(EventPositions') = Append(a, n + 1)
    BY <1>1, <1>5, <2>1, AscendingGrows
  <2>3. PICK b : b = Append(a, n + 1)
    OBVIOUS
  <2>4. /\ Len(b) = Len(a) + 1 /\ b[Len(a) + 1] = n + 1
        /\ \A j \in 1..Len(a) : b[j] = a[j]
    BY <1>6, <2>3
  <2>5. Delivered' = [j \in 1..Len(a) + 1 |-> accepted'[b[j]][2]]
    BY <2>2, <2>3, <2>4 DEF Delivered, EventPositions
  <2>6. k[2] \in Nat
    BY DEF Keys
  <2>7. PICK d \in Seq(Nat) : d = Delivered
    BY <1>9
  <2>8. /\ Append(d, k[2]) \in Seq(Nat) /\ Len(Append(d, k[2])) = Len(a) + 1
        /\ Append(d, k[2])[Len(a) + 1] = k[2]
        /\ \A j \in 1..Len(a) : Append(d, k[2])[j] = d[j]
    BY <1>9, <2>6, <2>7
  <2>9. ASSUME NEW j \in 1..Len(a) + 1 PROVE accepted'[b[j]][2] = Append(d, k[2])[j]
    <3>1. CASE j \in 1..Len(a)
      BY <1>7, <1>8, <2>4, <2>7, <2>8, <3>1
    <3>2. CASE j = Len(a) + 1
      BY <1>2, <2>4, <2>8, <3>2
    <3>3. j \in 1..Len(a) \/ j = Len(a) + 1
      BY <1>9
    <3> QED
      BY <3>1, <3>2, <3>3
  <2>10. Append(d, k[2]) = [j \in 1..Len(a) + 1 |-> Append(d, k[2])[j]]
    BY <2>8
  <2> QED
    BY <2>5, <2>7, <2>9, <2>10
<1> QED
  BY <1>9, <1>10, <1>11

-----------------------------------------------------------------------------
(* Why the events stay in order: the inductive invariant.                  *)

\* The number of the newest event that Core has, or is being offered.
Top == IF task[1] = "id" THEN task[2] ELSE LastDelivered

Dispatches ==
  {Dispatch(t, s, id, n, url) : t \in EventTypes, s \in Nat, id \in Nat, n \in Nat, url \in BOOLEAN}
Controls == {Control(op, resumable) : op \in Opcodes, resumable \in BOOLEAN}
Closes == {Close(class) : class \in CloseClasses}
WireFrames == Dispatches \cup Controls \cup Closes
LogEntries == [kind : EventTypes, id : Nat]

ChannelTypes ==
  /\ wire \in Seq(WireFrames) /\ log \in Seq(LogEntries)
  /\ accepted \in Seq(Keys) /\ task \in Keys \cup {NoTask}
  /\ order \in Seq(Keys)
  /\ published \in Nat
  /\ sessions \in Nat /\ session \in 0..sessions /\ sessionId \in 0..sessions

\* What is offered to Core is newer than what it has, and has been published.
TaskInv ==
  /\ LastDelivered \in 0..published
  /\ task[1] = "id" => task[2] \in LastDelivered + 1 .. published

\* The dedup queue holds a key once, and no key that the set has not.
WindowInv ==
  /\ \A i, j \in 1..Len(order) : order[i] = order[j] => i = j
  /\ \A i \in 1..Len(order) : order[i] \in seen

\* The log of the server's session has the events in the order they were published.
LogInv ==
  /\ \A i \in 1..Len(log) :
       /\ log[i].id <= published
       /\ log[i].id # None <=> log[i].kind \in {"EVENT", "UNKNOWN"}
  /\ \A i, j \in 1..Len(log) :
       i < j /\ log[i].id # None /\ log[j].id # None => log[i].id < log[j].id

\* So have the dispatches on their way.
Rising ==
  \A i, j \in 1..Len(wire) : i < j /\ wire[i].op = "dispatch" /\ wire[j].op = "dispatch" =>
    /\ wire[i].s < wire[j].s
    /\ wire[i].id # None /\ wire[j].id # None => wire[i].id < wire[j].id

\* An event on its way is newer than all that Core has, but for the one sent again
\* from before the resume point: it comes first, and the window remembers it.
InOrder(i) ==
  wire[i].t = "EVENT" =>
    \/ wire[i].id > Top
    \/ Key(wire[i]) \in seen /\ \A j \in 1..i - 1 : wire[j].op # "dispatch"
\* It is in the log, where the resume point has not passed it.
InLog(i) ==
  session # None =>
    /\ wire[i].s \in 1..Len(log)
    /\ log[wire[i].s].kind = wire[i].t /\ log[wire[i].s].id = wire[i].id
    /\ sessionId = session => wire[i].s >= lastSequence
\* A READY on its way opens a session all of whose events are news.
Opens(i) ==
  wire[i].t = "READY" =>
    /\ wire[i].s = 1
    /\ wire[i].session \in 1..sessions /\ wire[i].session # sessionId
    /\ session # None =>
         /\ session = wire[i].session
         /\ \A n \in 1..Len(log) : log[n].kind = "EVENT" => log[n].id > Top
FrameInv ==
  \A i \in 1..Len(wire) : wire[i].op = "dispatch" =>
    /\ wire[i].s \in Nat \ {0}
    /\ wire[i].t \in EventTypes
    /\ wire[i].id \in 0..published
    /\ wire[i].id # None <=> wire[i].t \in {"EVENT", "UNKNOWN"}
    /\ InOrder(i) /\ InLog(i) /\ Opens(i)

\* What a Resume would bring is news, but for the entry at the resume point itself.
PointInv ==
  session # None /\ sessionId = session =>
    /\ lastSequence \in 0..Len(log)
    /\ \A n \in 1..Len(log) : log[n].kind = "EVENT" =>
         /\ n > lastSequence => log[n].id > Top
         /\ n = lastSequence => log[n].id > Top \/ <<"id", log[n].id>> \in seen

\* Where the client is asked to authenticate, the server sends no dispatch before it has.
Asking == {"hello", "invalid"}
Settled ==
  \A i \in 1..Len(wire) : wire[i].op \in Asking =>
    /\ conn # "live"
    /\ \A j \in i + 1 .. Len(wire) : wire[j].op \notin Asking \cup {"dispatch"}
Quiet == conn # "live" /\ \A i \in 1..Len(wire) : wire[i].op \notin Asking \cup {"dispatch"}
QuietInv ==
  /\ phase = "auth" => Quiet
  /\ phase = "drain" /\ actions # <<>> =>
       /\ Head(actions) \in {"Identify", "Resume"} => Quiet
       /\ Head(actions) = "Resume" => sessionId # None
  /\ phase \notin Connected => wire = <<>> /\ conn = "down"

OrderInv ==
  /\ ChannelTypes /\ TaskInv /\ WindowInv /\ LogInv
  /\ Rising /\ FrameInv /\ PointInv

-----------------------------------------------------------------------------
(* Steps that bring nothing new.                                           *)

\* The server keeps its session, or forgets it.
ServerKeeps ==
  /\ UNCHANGED <<published, sessions>>
  /\ \/ UNCHANGED <<session, log>>
     \/ session' = None /\ log' = <<>>

\* The client keeps its resume point and its window, or gives a reservation back.
ClientKeeps ==
  /\ UNCHANGED accepted
  /\ task' \in {task, NoTask}
  /\ UNCHANGED <<lastSequence, sessionId>> \/ sessionId' = None
  /\ \/ UNCHANGED window
     \/ task # NoTask /\ task' = NoTask /\ ForgetDispatch(task)
     \/ seen' = {} /\ order' = <<>> /\ sessionId' = None /\ wire' = <<>>

\* The first d frames are gone, and no dispatch has come.
WireKeeps(d) ==
  /\ wire' \in Seq(WireFrames)
  /\ \A i \in 1..Len(wire') : wire'[i].op = "dispatch" =>
       i + d \in 1..Len(wire) /\ wire'[i] = wire[i + d]

LEMMA TaskKept ==
  ASSUME OrderInv, ServerKeeps, ClientKeeps
  PROVE  TaskInv' /\ Top \in Nat /\ Top' \in Nat /\ Top' <= Top
<1>1. LastDelivered' = LastDelivered
  <2>1. Delivered' = Delivered
    BY DEF ClientKeeps, Delivered
  <2> QED
    BY <2>1 DEF LastDelivered, Channel!LastDelivered
<1>2. LastDelivered \in Nat /\ published' = published /\ published \in Nat
  BY DEF OrderInv, ChannelTypes, TaskInv, ServerKeeps
<1>3. NoTask[1] # "id"
  BY DEF NoTask
<1>4. CASE task' = task
  BY <1>1, <1>2, <1>4 DEF OrderInv, TaskInv, Top
<1>5. CASE task' = NoTask
  BY <1>1, <1>2, <1>3, <1>5 DEF OrderInv, TaskInv, Top
<1> QED
  BY <1>4, <1>5 DEF ClientKeeps

LEMMA ConcatFacts ==
  ASSUME NEW S, NEW s \in Seq(S), NEW t \in Seq(S)
  PROVE  /\ s \o t \in Seq(S) /\ Len(s \o t) = Len(s) + Len(t)
         /\ Len(s) \in Nat /\ Len(t) \in Nat
         /\ \A i \in 1..Len(s) + Len(t) :
              (s \o t)[i] = IF i <= Len(s) THEN s[i] ELSE t[i - Len(s)]
OBVIOUS

LEMMA SliceFacts ==
  ASSUME NEW S, NEW s \in Seq(S), NEW m \in Int, NEW n \in Nat, 1 <= m, m <= n + 1, n <= Len(s)
  PROVE  /\ SubSeq(s, m, n) \in Seq(S) /\ Len(SubSeq(s, m, n)) = n - m + 1
         /\ \A i \in 1..n - m + 1 : SubSeq(s, m, n)[i] = s[m + i - 1]
OBVIOUS

LEMMA RemovalFacts ==
  ASSUME NEW S, NEW s \in Seq(S), NEW p \in 1..Len(s)
  PROVE  /\ RemoveAt(s, p) \in Seq(S) /\ Len(RemoveAt(s, p)) = Len(s) - 1
         /\ \A i \in 1..Len(s) - 1 :
              RemoveAt(s, p)[i] = IF i < p THEN s[i] ELSE s[i + 1]
<1>1. PICK a : a = SubSeq(s, 1, p - 1)
  OBVIOUS
<1>2. PICK b : b = SubSeq(s, p + 1, Len(s))
  OBVIOUS
<1>3. Len(s) \in Nat /\ p \in Int /\ p <= Len(s) /\ 1 <= p
  OBVIOUS
<1>4. /\ a \in Seq(S) /\ Len(a) = p - 1
      /\ \A i \in 1..p - 1 : a[i] = s[i]
  <2>1. 1 \in Int /\ p - 1 \in Nat /\ 1 <= 1 /\ 1 <= (p - 1) + 1 /\ p - 1 <= Len(s)
    BY <1>3
  <2>2. /\ a \in Seq(S) /\ Len(a) = (p - 1) - 1 + 1
        /\ \A i \in 1..(p - 1) - 1 + 1 : a[i] = s[1 + i - 1]
    BY <1>1, <2>1, SliceFacts
  <2> QED
    BY <1>3, <2>2
<1>5. /\ b \in Seq(S) /\ Len(b) = Len(s) - p
      /\ \A i \in 1..Len(s) - p : b[i] = s[p + i]
  <2>1. p + 1 \in Int /\ 1 <= p + 1 /\ p + 1 <= Len(s) + 1 /\ Len(s) <= Len(s)
    BY <1>3
  <2>2. /\ b \in Seq(S) /\ Len(b) = Len(s) - (p + 1) + 1
        /\ \A i \in 1..Len(s) - (p + 1) + 1 : b[i] = s[(p + 1) + i - 1]
    BY <1>2, <1>3, <2>1, SliceFacts
  <2> QED
    BY <1>3, <2>2
<1>6. PICK u : u = a \o b
  OBVIOUS
<1>7. /\ u \in Seq(S) /\ Len(u) = Len(s) - 1
      /\ \A i \in 1..Len(s) - 1 : u[i] = IF i <= p - 1 THEN a[i] ELSE b[i - (p - 1)]
  <2>1. /\ u \in Seq(S) /\ Len(u) = Len(a) + Len(b)
        /\ \A i \in 1..Len(a) + Len(b) : u[i] = IF i <= Len(a) THEN a[i] ELSE b[i - Len(a)]
    BY <1>4, <1>5, <1>6, ConcatFacts
  <2> QED
    BY <1>3, <1>4, <1>5, <2>1
<1>8. RemoveAt(s, p) = u
  BY <1>1, <1>2, <1>6 DEF RemoveAt
<1>9. \A i \in 1..Len(s) - 1 : u[i] = IF i < p THEN s[i] ELSE s[i + 1]
  BY <1>3, <1>4, <1>5, <1>7
<1> QED
  BY <1>7, <1>8, <1>9

\* A reservation given back leaves the window as it was, but for this key.
LEMMA ForgetFacts ==
  ASSUME WindowInv, order \in Seq(Keys), NEW k \in Keys, ForgetDispatch(k)
  PROVE  WindowInv' /\ order' \in Seq(Keys) /\ seen' = seen \ {k}
<1>1. CASE k \notin seen
  <2>1. UNCHANGED <<seen, order>>
    BY <1>1 DEF ForgetDispatch, window
  <2> QED
    BY <1>1, <2>1 DEF WindowInv
<1>2. CASE k \in seen /\ ~\E i \in 1..Len(order) : order[i] = k
  <2>1. seen' = seen \ {k} /\ order' = order
    BY <1>2 DEF ForgetDispatch
  <2> QED
    BY <1>2, <2>1 DEF WindowInv
<1>3. CASE k \in seen /\ \E i \in 1..Len(order) : order[i] = k
  <2>1. PICK p \in 1..Len(order) : p = Position(k) /\ order[p] = k
    BY <1>3 DEF Position
  <2>2. seen' = seen \ {k} /\ order' = RemoveAt(order, p)
    BY <1>3, <2>1 DEF ForgetDispatch
  <2>3. PICK n \in Nat : n = Len(order)
    OBVIOUS
  <2>4. PICK o : o = order'
    OBVIOUS
  <2>5. /\ o \in Seq(Keys) /\ Len(o) = n - 1
        /\ \A i \in 1..n - 1 : o[i] = IF i < p THEN order[i] ELSE order[i + 1]
    BY <2>2, <2>3, <2>4, RemovalFacts
  <2>6. p \in 1..n
    BY <2>3
  <2>7. ASSUME NEW i \in 1..n - 1
        PROVE  \E a \in 1..n : /\ o[i] = order[a] /\ a # p
                               /\ a = IF i < p THEN i ELSE i + 1
    BY <2>5, <2>6
  <2>8. \A a, b \in 1..n : order[a] = order[b] => a = b
    BY <2>3 DEF WindowInv
  <2>9. ASSUME NEW i \in 1..n - 1, NEW j \in 1..n - 1, o[i] = o[j] PROVE i = j
    <3>1. PICK a \in 1..n : o[i] = order[a] /\ a = IF i < p THEN i ELSE i + 1
      BY <2>7
    <3>2. PICK b \in 1..n : o[j] = order[b] /\ b = IF j < p THEN j ELSE j + 1
      BY <2>7
    <3>3. a = b
      BY <2>8, <2>9, <3>1, <3>2
    <3> QED
      BY <2>6, <3>1, <3>2, <3>3
  <2>10. ASSUME NEW i \in 1..n - 1 PROVE o[i] \in seen'
    <3>1. PICK a \in 1..n : o[i] = order[a] /\ a # p
      BY <2>7
    <3>2. order[a] \in seen /\ order[a] # k
      BY <2>1, <2>3, <2>8, <3>1 DEF WindowInv
    <3> QED
      BY <2>2, <3>1, <3>2
  <2> QED
    BY <2>2, <2>4, <2>5, <2>9, <2>10 DEF WindowInv
<1> QED
  BY <1>1, <1>2, <1>3

LEMMA WindowKept ==
  ASSUME OrderInv, ServerKeeps, ClientKeeps
  PROVE  /\ WindowInv' /\ order' \in Seq(Keys)
         /\ \/ seen' = {} /\ sessionId' = None /\ wire' = <<>>
            \/ \A n : <<"id", n>> \in seen => <<"id", n>> \in seen' \/ n > Top'
<1>1. CASE UNCHANGED window
  <2>1. UNCHANGED <<seen, order>>
    BY <1>1 DEF window
  <2> QED
    BY <2>1 DEF OrderInv, WindowInv, ChannelTypes
<1>2. CASE task # NoTask /\ task' = NoTask /\ ForgetDispatch(task)
  <2>1. task \in Keys /\ order \in Seq(Keys) /\ WindowInv
    BY <1>2 DEF OrderInv, ChannelTypes
  <2>2. WindowInv' /\ order' \in Seq(Keys) /\ seen' = seen \ {task}
    BY <1>2, <2>1, ForgetFacts
  <2>3. ASSUME NEW n, <<"id", n>> \in seen, <<"id", n>> \notin seen' PROVE n > Top'
    <3>1. task = <<"id", n>>
      BY <2>2, <2>3
    <3>2. task[1] = "id" /\ task[2] = n
      BY <3>1
    <3>3. n \in LastDelivered + 1 .. published /\ LastDelivered \in Nat
      BY <3>2 DEF OrderInv, TaskInv
    <3>4. LastDelivered' = LastDelivered
      <4>1. Delivered' = Delivered
        BY DEF ClientKeeps, Delivered
      <4> QED
        BY <4>1 DEF LastDelivered, Channel!LastDelivered
    <3>5. Top' = LastDelivered
      BY <1>2, <3>4 DEF Top, NoTask
    <3> QED
      BY <3>3, <3>5
  <2> QED
    BY <2>2, <2>3
<1>3. CASE seen' = {} /\ order' = <<>> /\ sessionId' = None /\ wire' = <<>>
  BY <1>3 DEF WindowInv
<1> QED
  BY <1>1, <1>2, <1>3 DEF ClientKeeps

LEMMA LogKept ==
  ASSUME OrderInv, ServerKeeps
  PROVE  LogInv' /\ log' \in Seq(LogEntries) /\ session' \in {session, None}
<1>1. CASE UNCHANGED <<session, log>>
  BY <1>1 DEF ServerKeeps, OrderInv, LogInv, ChannelTypes
<1>2. CASE session' = None /\ log' = <<>>
  BY <1>2 DEF LogInv
<1> QED
  BY <1>1, <1>2 DEF ServerKeeps

LEMMA PointKept ==
  ASSUME OrderInv, ServerKeeps, ClientKeeps
  PROVE  PointInv'
<1> SUFFICES ASSUME session' # None, sessionId' = session' PROVE PointInv'
  BY DEF PointInv
<1>1. sessionId' # None /\ UNCHANGED <<lastSequence, sessionId, session, log>>
  BY DEF ClientKeeps, ServerKeeps
<1>2. \A n : <<"id", n>> \in seen => <<"id", n>> \in seen' \/ n > Top'
  BY <1>1, WindowKept
<1>3. Top \in Nat /\ Top' \in Nat /\ Top' <= Top
  BY TaskKept
<1>4. /\ lastSequence \in 0..Len(log)
      /\ \A n \in 1..Len(log) : log[n].kind = "EVENT" =>
           /\ n > lastSequence => log[n].id > Top
           /\ n = lastSequence => log[n].id > Top \/ <<"id", log[n].id>> \in seen
  BY <1>1 DEF OrderInv, PointInv
<1>5. log \in Seq(LogEntries) /\ \A n \in 1..Len(log) : log[n].id \in Nat
  <2>1. log \in Seq(LogEntries)
    BY DEF OrderInv, ChannelTypes
  <2>2. \A n \in 1..Len(log) : log[n] \in LogEntries
    BY <2>1
  <2> QED
    BY <2>1, <2>2 DEF LogEntries
<1>6. \A n \in 1..Len(log) : log[n].id > Top => log[n].id > Top'
  BY <1>3, <1>5
<1> QED
  BY <1>1, <1>2, <1>4, <1>6 DEF PointInv

LEMMA FramesKept ==
  ASSUME OrderInv, ServerKeeps, ClientKeeps, NEW d \in Nat, WireKeeps(d)
  PROVE  Rising' /\ FrameInv'
<1>1. \A i \in 1..Len(wire') : wire'[i].op = "dispatch" =>
        i + d \in 1..Len(wire) /\ wire'[i] = wire[i + d]
  BY DEF WireKeeps
<1>2. \A i \in 1..Len(wire') : i \in Nat
  BY DEF WireKeeps
<1>3. Rising'
  <2> SUFFICES ASSUME NEW i \in 1..Len(wire'), NEW j \in 1..Len(wire'), i < j,
                      wire'[i].op = "dispatch", wire'[j].op = "dispatch"
               PROVE  /\ wire'[i].s < wire'[j].s
                      /\ wire'[i].id # None /\ wire'[j].id # None => wire'[i].id < wire'[j].id
    BY DEF Rising
  <2>1. PICK a \in 1..Len(wire) : a = i + d
    BY <1>1
  <2>2. PICK b \in 1..Len(wire) : b = j + d
    BY <1>1
  <2>3. a < b /\ wire'[i] = wire[a] /\ wire'[j] = wire[b]
    BY <1>1, <1>2, <2>1, <2>2
  <2> QED
    BY <2>3 DEF OrderInv, Rising
<1>4. FrameInv'
  <2> SUFFICES ASSUME NEW i \in 1..Len(wire'), wire'[i].op = "dispatch"
               PROVE  /\ wire'[i].s \in Nat \ {0}
                      /\ wire'[i].t \in EventTypes
                      /\ wire'[i].id \in 0..published'
                      /\ wire'[i].id # None <=> wire'[i].t \in {"EVENT", "UNKNOWN"}
                      /\ InOrder(i)' /\ InLog(i)' /\ Opens(i)'
    BY DEF FrameInv
  <2>1. PICK a \in 1..Len(wire) : a = i + d /\ wire'[i] = wire[a]
    BY <1>1
  <2>2. PICK f : f = wire[a]
    OBVIOUS
  <2>3. /\ f.s \in Nat \ {0} /\ f.t \in EventTypes /\ f.id \in 0..published
        /\ f.id # None <=> f.t \in {"EVENT", "UNKNOWN"}
        /\ InOrder(a) /\ InLog(a) /\ Opens(a)
    BY <2>1, <2>2 DEF OrderInv, FrameInv
  <2>4. published' = published /\ sessions' = sessions
    BY DEF ServerKeeps
  <2>5. Top \in Nat /\ Top' \in Nat /\ Top' <= Top
    BY TaskKept
  <2>6. InOrder(i)'
    <3> SUFFICES ASSUME f.t = "EVENT"
                 PROVE  \/ f.id > Top'
                        \/ Key(f) \in seen' /\ \A j \in 1..i - 1 : wire'[j].op # "dispatch"
      BY <2>1, <2>2 DEF InOrder, Key
    <3>1. CASE f.id > Top
      BY <2>3, <2>5, <3>1
    <3>2. CASE Key(f) \in seen /\ \A j \in 1..a - 1 : wire[j].op # "dispatch"
      <4>1. Key(f) = <<"id", f.id>>
        BY <2>3 DEF Key
      <4>2. Key(f) \in seen' \/ f.id > Top'
        <5>1. wire' # <<>>
          OBVIOUS
        <5> QED
          BY <3>2, <4>1, <5>1, WindowKept
      <4>3. ASSUME NEW j \in 1..i - 1, wire'[j].op = "dispatch" PROVE FALSE
        <5>1. j \in 1..Len(wire') /\ j < i
          BY <1>2
        <5>2. PICK b \in 1..Len(wire) : b = j + d /\ wire[b].op = "dispatch"
          BY <1>1, <4>3, <5>1
        <5>3. b \in 1..a - 1
          BY <1>2, <2>1, <5>1, <5>2
        <5> QED
          BY <3>2, <5>2, <5>3
      <4> QED
        BY <4>2, <4>3
    <3> QED
      BY <2>2, <2>3, <3>1, <3>2 DEF InOrder
  <2>7. InLog(i)'
    <3> SUFFICES ASSUME session' # None
                 PROVE  /\ f.s \in 1..Len(log')
                        /\ log'[f.s].kind = f.t /\ log'[f.s].id = f.id
                        /\ sessionId' = session' => f.s >= lastSequence'
      BY <2>1, <2>2 DEF InLog
    <3>1. UNCHANGED <<session, log>>
      BY DEF ServerKeeps
    <3>2. sessionId' = session' => UNCHANGED <<sessionId, lastSequence>>
      BY DEF ClientKeeps
    <3> QED
      BY <2>2, <2>3, <3>1, <3>2 DEF InLog
  <2>8. Opens(i)'
    <3> SUFFICES ASSUME f.t = "READY"
                 PROVE  /\ f.s = 1
                        /\ f.session \in 1..sessions' /\ f.session # sessionId'
                        /\ session' # None =>
                             /\ session' = f.session
                             /\ \A n \in 1..Len(log') : log'[n].kind = "EVENT" => log'[n].id > Top'
      BY <2>1, <2>2 DEF Opens
    <3>1. /\ f.s = 1 /\ f.session \in 1..sessions /\ f.session # sessionId
          /\ session # None =>
               /\ session = f.session
               /\ \A n \in 1..Len(log) : log[n].kind = "EVENT" => log[n].id > Top
      BY <2>2, <2>3 DEF Opens
    <3>2. f.session # sessionId'
      <4>1. None \notin 1..sessions
        BY DEF None
      <4> QED
        BY <3>1, <4>1 DEF ClientKeeps
    <3>3. ASSUME session' # None PROVE session' = session /\ log' = log
      BY <3>3 DEF ServerKeeps
    <3>4. \A n \in 1..Len(log) : log[n].id > Top => log[n].id > Top'
      <4>1. \A n \in 1..Len(log) : log[n] \in LogEntries
        BY DEF OrderInv, ChannelTypes
      <4>2. \A n \in 1..Len(log) : log[n].id \in Nat
        BY <4>1 DEF LogEntries
      <4> QED
        BY <2>5, <4>2
    <3> QED
      BY <2>4, <3>1, <3>2, <3>3, <3>4
  <2> QED
    BY <2>1, <2>2, <2>3, <2>4, <2>6, <2>7, <2>8
<1> QED
  BY <1>3, <1>4

\* A step that brings nothing new keeps everything in order.
LEMMA OrderKept ==
  ASSUME OrderInv, ServerKeeps, ClientKeeps, NEW d \in Nat, WireKeeps(d)
  PROVE  OrderInv'
<1>1. accepted' \in Seq(Keys) /\ task' \in Keys \cup {NoTask}
  BY DEF OrderInv, ChannelTypes, ClientKeeps
<1>2. published' \in Nat /\ sessions' \in Nat /\ session' \in 0..sessions'
  <2>1. published' = published /\ sessions' = sessions /\ session' \in {session, None}
    BY LogKept DEF ServerKeeps
  <2> QED
    BY <2>1 DEF OrderInv, ChannelTypes, None
<1>3. sessionId' \in 0..sessions'
  <2>1. sessions' = sessions /\ sessionId' \in {sessionId, None}
    BY DEF ServerKeeps, ClientKeeps
  <2> QED
    BY <2>1 DEF OrderInv, ChannelTypes, None
<1>4. wire' \in Seq(WireFrames) /\ order' \in Seq(Keys) /\ log' \in Seq(LogEntries)
  BY LogKept, WindowKept DEF WireKeeps
<1>5. ChannelTypes'
  BY <1>1, <1>2, <1>3, <1>4 DEF ChannelTypes
<1> QED
  BY <1>5, TaskKept, WindowKept, LogKept, FramesKept, PointKept DEF OrderInv

-----------------------------------------------------------------------------
(* A dispatch comes out of the wire.                                       *)

\* A remembered key is in the window, and no other key has come.
LEMMA RememberFacts ==
  ASSUME WindowInv, order \in Seq(Keys), NEW k \in Keys, k \notin seen, RememberDedupKey(k)
  PROVE  WindowInv' /\ order' \in Seq(Keys) /\ k \in seen'
<1> DEFINE n == Len(order)
<1>1. PICK o : o = Append(order, k)
  OBVIOUS
<1>2. /\ n \in Nat /\ o \in Seq(Keys) /\ Len(o) = n + 1 /\ o[n + 1] = k
      /\ \A i \in 1..n : o[i] = order[i]
  BY <1>1
<1>3. \A i \in 1..n : order[i] \in seen /\ order[i] # k
  BY DEF WindowInv
<1>4. \A i, j \in 1..n + 1 : o[i] = o[j] => i = j
  <2>1. \A i \in 1..n + 1 : i \in 1..n \/ i = n + 1
    BY <1>2
  <2>2. \A i, j \in 1..n : order[i] = order[j] => i = j
    BY DEF WindowInv
  <2> QED
    BY <1>2, <1>3, <2>1, <2>2
<1> HIDE DEF n
<1>5. CASE n >= Window
  <2>1. order' = Tail(o) /\ seen' = (seen \cup {k}) \ {o[1]}
    BY <1>1, <1>5 DEF RememberDedupKey, n
  <2>2. n >= 1
    BY <1>2, <1>5, WindowAssumption
  <2>3. PICK p : p = order'
    OBVIOUS
  <2>4. p \in Seq(Keys) /\ Len(p) = n /\ \A i \in 1..n : p[i] = o[i + 1]
    BY <1>2, <2>1, <2>3
  <2>5. ASSUME NEW i \in 1..n, NEW j \in 1..n, p[i] = p[j] PROVE i = j
    <3>1. i + 1 \in 1..n + 1 /\ j + 1 \in 1..n + 1 /\ o[i + 1] = o[j + 1]
      BY <1>2, <2>4, <2>5
    <3>2. i + 1 = j + 1
      BY <1>4, <3>1
    <3> QED
      BY <1>2, <3>2
  <2>6. ASSUME NEW i \in 1..n PROVE p[i] \in seen'
    <3>1. i + 1 \in 1..n + 1 /\ 1 \in 1..n + 1 /\ i + 1 # 1
      BY <1>2
    <3>2. o[i + 1] # o[1]
      BY <1>4, <3>1
    <3>3. o[i + 1] \in seen \cup {k}
      <4>1. i + 1 \in 1..n \/ i + 1 = n + 1
        BY <1>2
      <4> QED
        BY <1>2, <1>3, <4>1
    <3> QED
      BY <2>1, <2>4, <3>2, <3>3
  <2>7. k \in seen'
    <3>1. 1 \in 1..n /\ o[1] # k
      BY <1>2, <1>3, <2>2
    <3> QED
      BY <2>1, <3>1
  <2> QED
    BY <2>3, <2>4, <2>5, <2>6, <2>7 DEF WindowInv
<1>6. CASE ~(n >= Window)
  <2>1. order' = o /\ seen' = seen \cup {k}
    BY <1>1, <1>6 DEF RememberDedupKey, n
  <2>2. ASSUME NEW i \in 1..n + 1 PROVE o[i] \in seen'
    <3>1. i \in 1..n \/ i = n + 1
      BY <1>2
    <3> QED
      BY <1>2, <1>3, <2>1, <3>1
  <2> QED
    BY <1>2, <1>4, <2>1, <2>2 DEF WindowInv
<1> QED
  BY <1>5, <1>6

\* What the pump does with a dispatch.
LEMMA DispatchHandled ==
  ASSUME OrderInv, NEW f, f.op = "dispatch", HandleFrame(f)
  PROVE  /\ UNCHANGED accepted
         /\ lastSequence' = KnownSequence(f)
         /\ sessionId' = IF f.t = "READY" THEN f.session ELSE sessionId
         /\ \/ UNCHANGED <<seen, order>> /\ task' = NoTask /\ (f.t = "UNKNOWN" \/ Key(f) \in seen)
            \/ /\ f.t # "UNKNOWN" /\ Key(f) \notin seen
               /\ RememberDedupKey(Key(f)) /\ task' = Key(f)
<1>1. HandleDispatch(f) /\ UNCHANGED accepted
  BY DEF HandleFrame, HandleInvalidSession, HandleHello, HandleSimple
<1> QED
  BY <1>1 DEF HandleDispatch, window

LEMMA TakeDispatch ==
  ASSUME OrderInv, wire # <<>>, Head(wire).op = "dispatch", HandleFrame(Head(wire)), TakeFrame,
         task = NoTask
  PROVE  OrderInv'
<1>1. PICK f : f = wire[1]
  OBVIOUS
<1>2. /\ 1 \in 1..Len(wire) /\ Head(wire) = f /\ wire \in Seq(WireFrames) /\ Len(wire) \in Nat
      /\ wire' = Tail(wire) /\ Len(wire') = Len(wire) - 1 /\ wire' \in Seq(WireFrames)
      /\ \A i \in 1..Len(wire') : wire'[i] = wire[i + 1] /\ i + 1 \in 2..Len(wire) /\ i \in Nat
  BY <1>1 DEF OrderInv, ChannelTypes, TakeFrame
<1>3. f.op = "dispatch" /\ HandleFrame(f)
  BY <1>2
<1>4. UNCHANGED <<session, sessions, log, published>>
  BY DEF TakeFrame, sessionVars
<1>5. /\ f.s \in Nat \ {0} /\ f.t \in EventTypes /\ f.id \in 0..published
      /\ f.id # None <=> f.t \in {"EVENT", "UNKNOWN"}
      /\ InOrder(1) /\ InLog(1) /\ Opens(1)
  BY <1>1, <1>2, <1>3 DEF OrderInv, FrameInv
<1>6. /\ UNCHANGED accepted
      /\ lastSequence' = f.s
      /\ sessionId' = IF f.t = "READY" THEN f.session ELSE sessionId
      /\ \/ UNCHANGED <<seen, order>> /\ task' = NoTask /\ (f.t = "UNKNOWN" \/ Key(f) \in seen)
         \/ /\ f.t # "UNKNOWN" /\ Key(f) \notin seen
            /\ RememberDedupKey(Key(f)) /\ task' = Key(f)
  <2>1. KnownSequence(f) = f.s
    BY <1>5 DEF KnownSequence, None
  <2> QED
    BY <1>3, <2>1, DispatchHandled
<1>7. /\ LastDelivered' = LastDelivered /\ LastDelivered \in 0..published /\ Top = LastDelivered
      /\ published \in Nat
  <2>1. Delivered' = Delivered
    BY <1>6 DEF Delivered
  <2>2. LastDelivered' = LastDelivered
    BY <2>1 DEF LastDelivered, Channel!LastDelivered
  <2> QED
    BY <2>2 DEF OrderInv, TaskInv, Top, NoTask, ChannelTypes
<1>8. Key(f) \in Keys /\ Key(f) = IF f.id # None THEN <<"id", f.id>> ELSE <<"seq", f.s>>
  <2>1. Key(f) = IF f.id # None THEN <<"id", f.id>> ELSE <<"seq", f.s>>
    BY <1>5 DEF Key, None
  <2>2. f.id \in Nat /\ f.s \in Nat
    BY <1>5, <1>7
  <2> QED
    BY <2>1, <2>2 DEF Keys
<1>9. WindowInv' /\ order' \in Seq(Keys) /\ (f.t = "EVENT" => Key(f) \in seen')
  <2>1. WindowInv /\ order \in Seq(Keys)
    BY DEF OrderInv, ChannelTypes
  <2>2. CASE UNCHANGED <<seen, order>> /\ task' = NoTask /\ (f.t = "UNKNOWN" \/ Key(f) \in seen)
    BY <2>1, <2>2 DEF WindowInv
  <2>3. CASE f.t # "UNKNOWN" /\ Key(f) \notin seen /\ RememberDedupKey(Key(f)) /\ task' = Key(f)
    BY <1>8, <2>1, <2>3, RememberFacts
  <2> QED
    BY <1>6, <2>2, <2>3
\* Only a new event raises the top.
<1>10. /\ TaskInv' /\ task' \in Keys \cup {NoTask}
       /\ \/ Top' = Top
          \/ f.t = "EVENT" /\ Top' = f.id /\ f.id > Top
  <2>1. NoTask[1] # "id"
    BY DEF NoTask
  <2>2. CASE task' = NoTask
    BY <1>4, <1>7, <2>1, <2>2 DEF TaskInv, Top
  <2>3. CASE task' = Key(f) /\ f.id = None
    <3>1. task'[1] # "id"
      BY <1>8, <2>3
    <3> QED
      BY <1>4, <1>7, <1>8, <2>3, <3>1 DEF TaskInv, Top
  <2>4. CASE task' = Key(f) /\ f.id # None /\ f.t # "UNKNOWN" /\ Key(f) \notin seen
    <3>1. task'[1] = "id" /\ task'[2] = f.id
      BY <1>8, <2>4
    <3>2. f.t = "EVENT" /\ f.id > Top
      BY <1>1, <1>5, <2>4 DEF InOrder
    <3>3. f.id \in LastDelivered + 1 .. published
      BY <1>5, <1>7, <3>2
    <3> QED
      BY <1>4, <1>7, <1>8, <2>4, <3>1, <3>2, <3>3 DEF TaskInv, Top
  <2> QED
    BY <1>6, <2>2, <2>3, <2>4
<1>11. Top \in Nat /\ Top' \in Nat
  BY <1>5, <1>7, <1>10
<1>12. ASSUME NEW i \in 2..Len(wire), wire[i].op = "dispatch"
       PROVE  /\ f.s < wire[i].s
              /\ f.id # None /\ wire[i].id # None => f.id < wire[i].id
              /\ wire[i].s \in Nat \ {0} /\ wire[i].t \in EventTypes
              /\ wire[i].id \in 0..published
              /\ wire[i].id # None <=> wire[i].t \in {"EVENT", "UNKNOWN"}
              /\ InOrder(i) /\ InLog(i) /\ Opens(i)
  <2>1. i \in 1..Len(wire) /\ 1 < i
    BY <1>2
  <2> QED
    BY <1>1, <1>2, <1>3, <1>12, <2>1 DEF OrderInv, Rising, FrameInv
<1>13. Rising'
  <2> SUFFICES ASSUME NEW i \in 1..Len(wire'), NEW j \in 1..Len(wire'), i < j,
                      wire'[i].op = "dispatch", wire'[j].op = "dispatch"
               PROVE  /\ wire'[i].s < wire'[j].s
                      /\ wire'[i].id # None /\ wire'[j].id # None => wire'[i].id < wire'[j].id
    BY DEF Rising
  <2>1. PICK a \in 1..Len(wire) : a = i + 1 /\ wire'[i] = wire[a]
    BY <1>2
  <2>2. PICK b \in 1..Len(wire) : b = j + 1 /\ wire'[j] = wire[b]
    BY <1>2
  <2>3. a < b
    BY <1>2, <2>1, <2>2
  <2> QED
    BY <2>1, <2>2, <2>3 DEF OrderInv, Rising
<1>14. FrameInv'
  <2> SUFFICES ASSUME NEW i \in 1..Len(wire'), wire'[i].op = "dispatch"
               PROVE  /\ wire'[i].s \in Nat \ {0}
                      /\ wire'[i].t \in EventTypes
                      /\ wire'[i].id \in 0..published'
                      /\ wire'[i].id # None <=> wire'[i].t \in {"EVENT", "UNKNOWN"}
                      /\ InOrder(i)' /\ InLog(i)' /\ Opens(i)'
    BY DEF FrameInv
  <2>1. PICK a \in 2..Len(wire) : a = i + 1 /\ wire'[i] = wire[a] /\ wire[a].op = "dispatch"
    BY <1>2
  <2>2. PICK g : g = wire[a]
    OBVIOUS
  <2>3. /\ f.s < g.s
        /\ f.id # None /\ g.id # None => f.id < g.id
        /\ g.s \in Nat \ {0} /\ g.t \in EventTypes /\ g.id \in 0..published
        /\ g.id # None <=> g.t \in {"EVENT", "UNKNOWN"}
        /\ InOrder(a) /\ InLog(a) /\ Opens(a)
    BY <1>12, <2>1, <2>2
  <2>4. InOrder(i)'
    <3> SUFFICES ASSUME g.t = "EVENT" PROVE g.id > Top'
      BY <2>1, <2>2 DEF InOrder
    <3>1. 1 \in 1..a - 1 /\ wire[1].op = "dispatch"
      BY <1>1, <1>2, <1>3, <2>1
    <3>2. g.id > Top
      BY <2>2, <2>3, <3>1 DEF InOrder
    <3>3. f.t = "EVENT" => g.id > f.id
      BY <1>4, <1>5, <1>7, <2>3
    <3> QED
      BY <1>10, <3>2, <3>3
  <2>5. InLog(i)'
    <3> SUFFICES ASSUME session # None
                 PROVE  /\ g.s \in 1..Len(log)
                        /\ log[g.s].kind = g.t /\ log[g.s].id = g.id
                        /\ g.s >= f.s
      BY <1>4, <1>6, <2>1, <2>2 DEF InLog
    <3> QED
      BY <1>5, <2>2, <2>3 DEF InLog
  <2>6. Opens(i)'
    <3>1. g.t # "READY"
      BY <1>5, <2>2, <2>3 DEF Opens
    <3> QED
      BY <2>1, <2>2, <3>1 DEF Opens
  <2> QED
    BY <1>4, <2>1, <2>2, <2>3, <2>4, <2>5, <2>6
<1>15. PointInv'
  <2> SUFFICES ASSUME session # None, sessionId' = session
               PROVE  /\ f.s \in 0..Len(log)
                      /\ \A n \in 1..Len(log) : log[n].kind = "EVENT" =>
                           /\ n > f.s => log[n].id > Top'
                           /\ n = f.s => log[n].id > Top' \/ <<"id", log[n].id>> \in seen'
    BY <1>4, <1>6 DEF PointInv
  <2>1. f.s \in 1..Len(log) /\ log[f.s].kind = f.t /\ log[f.s].id = f.id
    BY <1>1, <1>5 DEF InLog
  <2>2. \A n \in 1..Len(log) : log[n].id \in Nat
    <3>1. \A n \in 1..Len(log) : log[n] \in LogEntries
      BY DEF OrderInv, ChannelTypes
    <3> QED
      BY <3>1 DEF LogEntries
  <2>3. ASSUME NEW n \in 1..Len(log), log[n].kind = "EVENT", n > f.s PROVE log[n].id > Top
    <3>1. CASE f.t = "READY"
      BY <1>1, <1>5, <2>3, <3>1 DEF Opens
    <3>2. CASE f.t # "READY"
      <4>1. sessionId = session
        BY <1>6, <3>2
      <4>2. f.s >= lastSequence /\ lastSequence \in 0..Len(log)
        BY <1>1, <1>5, <4>1 DEF InLog, OrderInv, PointInv
      <4>3. n > lastSequence
        BY <1>5, <2>3, <4>2
      <4> QED
        BY <2>3, <4>1, <4>3 DEF OrderInv, PointInv
    <3> QED
      BY <3>1, <3>2
  <2>4. ASSUME NEW n \in 1..Len(log), log[n].kind = "EVENT", n > f.s, f.t = "EVENT"
        PROVE  log[n].id > f.id
    <3>1. log[n].id # None /\ log[f.s].id # None
      BY <2>1, <2>4 DEF OrderInv, LogInv
    <3>2. log[f.s].id < log[n].id
      BY <2>1, <2>4, <3>1 DEF OrderInv, LogInv
    <3> QED
      BY <2>1, <2>2, <3>2
  <2>5. ASSUME NEW n \in 1..Len(log), log[n].kind = "EVENT", n = f.s
        PROVE  <<"id", log[n].id>> \in seen'
    <3>1. f.t = "EVENT" /\ f.id # None
      BY <1>5, <2>1, <2>5
    <3> QED
      BY <1>8, <1>9, <2>1, <2>5, <3>1
  <2> QED
    BY <1>10, <2>1, <2>3, <2>4, <2>5
<1>16. ChannelTypes'
  <2>1. sessionId' \in 0..sessions
    <3>1. CASE f.t = "READY"
      <4>1. f.session \in 1..sessions /\ sessions \in Nat
        BY <1>1, <1>5, <3>1 DEF Opens, OrderInv, ChannelTypes
      <4> QED
        BY <1>6, <3>1, <4>1
    <3>2. CASE f.t # "READY"
      BY <1>6, <3>2 DEF OrderInv, ChannelTypes
    <3> QED
      BY <3>1, <3>2
  <2> QED
    BY <1>2, <1>4, <1>6, <1>9, <1>10, <2>1 DEF OrderInv, ChannelTypes
<1>17. LogInv'
  BY <1>4 DEF OrderInv, LogInv
<1> QED
  BY <1>9, <1>10, <1>13, <1>14, <1>15, <1>16, <1>17 DEF OrderInv

\* Core takes the task: what was offered is delivered.
LEMMA TakeTask ==
  ASSUME OrderInv, Accept, UNCHANGED <<wire, log, published, session, sessions>>
  PROVE  /\ OrderInv'
         /\ \/ Delivered' = Delivered
            \/ \E e \in LastDelivered + 1 .. published : Delivered' = Append(Delivered, e)
<1>1. /\ task \in Keys /\ accepted \in Seq(Keys) /\ accepted' = Append(accepted, task)
      /\ task' = NoTask
      /\ UNCHANGED <<lastSequence, sessionId, seen, order>>
  BY DEF Accept, OrderInv, ChannelTypes, resumePoint, window
<1>2. /\ Delivered \in Seq(Nat)
      /\ task[1] = "id" => Delivered' = Append(Delivered, task[2])
      /\ task[1] # "id" => Delivered' = Delivered
  BY <1>1, DeliveredGrows
<1>3. /\ LastDelivered \in 0..published
      /\ task[1] = "id" => task[2] \in LastDelivered + 1 .. published
      /\ published \in Nat /\ published' = published
  BY DEF OrderInv, TaskInv, ChannelTypes
<1>4. Top' = LastDelivered'
  BY <1>1 DEF Top, NoTask
<1>5. LastDelivered' = Top
  <2>1. CASE task[1] = "id"
    <3>1. PICK d \in Seq(Nat) : d = Delivered
      BY <1>2
    <3>2. task[2] \in Nat
      BY <1>3, <2>1
    <3>3. PICK e : e = Append(d, task[2])
      OBVIOUS
    <3>4. Len(e) = Len(d) + 1 /\ e # <<>> /\ e[Len(d) + 1] = task[2]
      BY <3>2, <3>3
    <3>5. Delivered' = e
      BY <1>2, <2>1, <3>1, <3>3
    <3> QED
      BY <2>1, <3>4, <3>5 DEF LastDelivered, Channel!LastDelivered, Top
  <2>2. CASE task[1] # "id"
    BY <1>2, <2>2 DEF LastDelivered, Channel!LastDelivered, Top
  <2> QED
    BY <2>1, <2>2
<1>6. TaskInv'
  <2>1. Top \in 0..published
    BY <1>3 DEF Top
  <2> QED
    BY <1>1, <1>3, <1>5, <2>1 DEF TaskInv, NoTask
<1>7. Top' = Top
  BY <1>4, <1>5
<1>8. ChannelTypes'
  BY <1>1 DEF OrderInv, ChannelTypes
<1>9. WindowInv' /\ LogInv' /\ Rising'
  BY <1>1 DEF OrderInv, WindowInv, LogInv, Rising
<1>10. FrameInv'
  <2> SUFFICES ASSUME NEW i \in 1..Len(wire), wire[i].op = "dispatch"
               PROVE  InOrder(i)' /\ InLog(i)' /\ Opens(i)'
    BY DEF OrderInv, FrameInv
  <2>1. InOrder(i) /\ InLog(i) /\ Opens(i)
    BY DEF OrderInv, FrameInv
  <2>2. InOrder(i)'
    BY <1>1, <1>7, <2>1 DEF InOrder, Key
  <2>3. InLog(i)'
    BY <1>1, <2>1 DEF InLog
  <2>4. Opens(i)'
    BY <1>1, <1>7, <2>1 DEF Opens
  <2> QED
    BY <2>2, <2>3, <2>4
<1>11. PointInv'
  BY <1>1, <1>7 DEF OrderInv, PointInv
<1> QED
  BY <1>2, <1>3, <1>6, <1>8, <1>9, <1>10, <1>11 DEF OrderInv

-----------------------------------------------------------------------------
(* What the server sends.                                                  *)

\* The numbers and ids of the log.
LEMMA LogNumbers ==
  ASSUME OrderInv
  PROVE  /\ log \in Seq(LogEntries) /\ Len(log) \in Nat
         /\ \A n \in 1..Len(log) : log[n].id \in 0..published /\ log[n].kind \in EventTypes
<1>1. log \in Seq(LogEntries) /\ Len(log) \in Nat
  BY DEF OrderInv, ChannelTypes
<1>2. \A n \in 1..Len(log) : log[n] \in LogEntries
  BY <1>1
<1>3. \A n \in 1..Len(log) : log[n].id \in Nat /\ log[n].kind \in EventTypes
  BY <1>2 DEF LogEntries
<1>4. published \in Nat /\ \A n \in 1..Len(log) : log[n].id <= published
  BY DEF OrderInv, ChannelTypes, LogInv
<1> QED
  BY <1>1, <1>3, <1>4

LEMMA TopPublished ==
  ASSUME OrderInv
  PROVE  Top \in 0..published /\ published \in Nat
BY DEF OrderInv, ChannelTypes, TaskInv, Top

\* The frames that are written are frames of the wire.
LEMMA DispatchFrame ==
  ASSUME NEW t \in EventTypes, NEW s \in Nat, NEW id \in Nat, NEW n \in Nat
  PROVE  /\ Dispatch(t, s, id, n, TRUE) \in WireFrames
         /\ Dispatch(t, s, id, n, FALSE) \in WireFrames
<1>1. ASSUME NEW url \in BOOLEAN PROVE Dispatch(t, s, id, n, url) \in Dispatches
  BY DEF Dispatches
<1>2. TRUE \in BOOLEAN /\ FALSE \in BOOLEAN
  OBVIOUS
<1>3. Dispatch(t, s, id, n, TRUE) \in Dispatches /\ Dispatch(t, s, id, n, FALSE) \in Dispatches
  BY <1>1, <1>2, Zenon
<1> QED
  BY <1>3 DEF WireFrames

LEMMA PublishStep ==
  ASSUME OrderInv, PublishEvent
  PROVE  OrderInv'
<1>1. PICK kind \in {"EVENT", "UNKNOWN"} :
        /\ log' = Append(log, Published(Event(Len(log) + 1, kind, published + 1)))
        /\ Push2Client(Event(Len(log) + 1, kind, published + 1))
  BY DEF PublishEvent
<1>2. PICK e : e = Event(Len(log) + 1, kind, published + 1)
  OBVIOUS
<1>3. PICK entry : entry = Published(e)
  OBVIOUS
<1>4. /\ session # None /\ published' = published + 1
      /\ UNCHANGED <<lastSequence, sessionId, seen, order, task, accepted, session, sessions>>
  BY DEF PublishEvent, pumpVars
<1>5. PICK n \in Nat : n = Len(log)
  BY LogNumbers
<1>6. published \in Nat /\ published + 1 \in Nat \ {0} /\ Top \in 0..published
  BY TopPublished
<1>7. /\ e.op = "dispatch" /\ e.t = kind /\ e.s = n + 1 /\ e.id = published + 1 /\ e \in WireFrames
      /\ entry.kind = kind /\ entry.id = published + 1 /\ entry \in LogEntries
  <2>1. e = Dispatch(kind, n + 1, published + 1, None, FALSE)
    BY <1>2, <1>5 DEF Event
  <2>2. e.op = "dispatch" /\ e.t = kind /\ e.s = n + 1 /\ e.id = published + 1
    BY <2>1 DEF Dispatch
  <2>3. kind \in EventTypes
    BY DEF EventTypes
  <2>4. e \in WireFrames
    <3>1. n + 1 \in Nat /\ published + 1 \in Nat /\ None \in Nat
      BY <1>6 DEF None
    <3> QED
      BY <2>1, <2>3, <3>1, DispatchFrame
  <2>5. entry = [kind |-> kind, id |-> published + 1]
    BY <1>3, <2>2 DEF Published
  <2> QED
    BY <1>6, <2>2, <2>3, <2>4, <2>5 DEF LogEntries
<1>8. /\ log' \in Seq(LogEntries) /\ Len(log') = n + 1 /\ log'[n + 1] = entry
      /\ \A i \in 1..n : log'[i] = log[i]
      /\ \A i \in 1..n + 1 : i \in 1..n \/ i = n + 1
  <2>1. log' = Append(log, entry)
    BY <1>1, <1>2, <1>3
  <2> QED
    BY <1>5, <1>7, <2>1, LogNumbers
<1>9. \A i \in 1..n : log[i].id \in 0..published /\ log[i].kind \in EventTypes
  BY <1>5, LogNumbers
<1>10. PICK m \in Nat : m = Len(wire)
  BY DEF OrderInv, ChannelTypes
<1>11. \/ wire' = wire
       \/ /\ wire' \in Seq(WireFrames) /\ Len(wire') = m + 1 /\ wire'[m + 1] = e
          /\ \A i \in 1..m : wire'[i] = wire[i]
          /\ \A i \in 1..m + 1 : i \in 1..m \/ i = m + 1
  <2>1. wire \in Seq(WireFrames)
    BY DEF OrderInv, ChannelTypes
  <2>2. wire' = wire \/ wire' = Append(wire, e)
    BY <1>1, <1>2 DEF Push2Client
  <2> QED
    BY <1>7, <1>10, <2>1, <2>2
<1>12. ChannelTypes'
  BY <1>4, <1>6, <1>8, <1>11 DEF OrderInv, ChannelTypes
<1>13. LastDelivered' = LastDelivered /\ Top' = Top
  <2>1. Delivered' = Delivered
    BY <1>4 DEF Delivered
  <2>2. LastDelivered' = LastDelivered
    BY <2>1 DEF LastDelivered, Channel!LastDelivered
  <2> QED
    BY <1>4, <2>2 DEF Top
<1>14. TaskInv' /\ WindowInv'
  <2>1. LastDelivered' \in 0..published'
    BY <1>4, <1>6, <1>13 DEF OrderInv, TaskInv
  <2>2. task[1] = "id" => task[2] \in LastDelivered + 1 .. published + 1
    BY <1>6 DEF OrderInv, TaskInv
  <2> QED
    BY <1>4, <1>13, <2>1, <2>2 DEF OrderInv, TaskInv, WindowInv
<1>15. LogInv'
  <2>1. ASSUME NEW i \in 1..n + 1
        PROVE  log'[i].id <= published' /\ (log'[i].id # None <=> log'[i].kind \in {"EVENT", "UNKNOWN"})
    <3>1. CASE i \in 1..n
      BY <1>4, <1>5, <1>6, <1>8, <1>9, <3>1 DEF OrderInv, LogInv
    <3>2. CASE i = n + 1
      BY <1>4, <1>6, <1>7, <1>8, <3>2 DEF None
    <3> QED
      BY <1>8, <3>1, <3>2
  <2>2. ASSUME NEW i \in 1..n + 1, NEW j \in 1..n + 1, i < j, log'[i].id # None, log'[j].id # None
        PROVE  log'[i].id < log'[j].id
    <3>1. CASE j \in 1..n
      <4>1. i \in 1..n
        BY <2>2, <3>1
      <4> QED
        BY <1>5, <1>8, <2>2, <3>1, <4>1 DEF OrderInv, LogInv
    <3>2. CASE j = n + 1
      <4>1. i \in 1..n
        BY <2>2, <3>2
      <4> QED
        BY <1>6, <1>7, <1>8, <1>9, <3>2, <4>1
    <3> QED
      BY <1>8, <3>1, <3>2
  <2> QED
    BY <1>8, <2>1, <2>2 DEF LogInv
\* A frame that was on its way has a lower number.
<1>16. ASSUME NEW i \in 1..m, wire[i].op = "dispatch"
       PROVE  /\ wire[i].s \in 1..n /\ wire[i].id \in 0..published
              /\ wire[i].t \in EventTypes
              /\ wire[i].id # None <=> wire[i].t \in {"EVENT", "UNKNOWN"}
              /\ InOrder(i) /\ InLog(i) /\ Opens(i)
  BY <1>4, <1>5, <1>10, <1>16 DEF OrderInv, FrameInv, InLog
<1>17. Rising'
  <2> SUFFICES ASSUME NEW i \in 1..Len(wire'), NEW j \in 1..Len(wire'), i < j,
                      wire'[i].op = "dispatch", wire'[j].op = "dispatch", wire' # wire
               PROVE  /\ wire'[i].s < wire'[j].s
                      /\ wire'[i].id # None /\ wire'[j].id # None => wire'[i].id < wire'[j].id
    BY DEF OrderInv, Rising
  <2>1. i \in 1..m /\ wire'[i] = wire[i]
    BY <1>11
  <2>2. CASE j \in 1..m
    BY <1>10, <1>11, <2>1, <2>2 DEF OrderInv, Rising
  <2>3. CASE j = m + 1
    BY <1>6, <1>7, <1>11, <1>16, <2>1, <2>3
  <2> QED
    BY <1>11, <2>2, <2>3
<1>18. FrameInv'
  <2> SUFFICES ASSUME NEW i \in 1..Len(wire'), wire'[i].op = "dispatch"
               PROVE  /\ wire'[i].s \in Nat \ {0}
                      /\ wire'[i].t \in EventTypes
                      /\ wire'[i].id \in 0..published'
                      /\ wire'[i].id # None <=> wire'[i].t \in {"EVENT", "UNKNOWN"}
                      /\ InOrder(i)' /\ InLog(i)' /\ Opens(i)'
    BY DEF FrameInv
  <2>1. CASE i \in 1..m /\ wire'[i] = wire[i]
    <3>1. /\ wire[i].s \in 1..n /\ wire[i].id \in 0..published
          /\ wire[i].t \in EventTypes
          /\ wire[i].id # None <=> wire[i].t \in {"EVENT", "UNKNOWN"}
          /\ InOrder(i) /\ InLog(i) /\ Opens(i)
      BY <1>16, <2>1
    <3>2. \A j \in 1..i - 1 : wire'[j] = wire[j]
      BY <1>11, <2>1
    <3>3. InOrder(i)'
      BY <1>4, <1>13, <2>1, <3>1, <3>2 DEF InOrder, Key
    <3>4. InLog(i)'
      BY <1>4, <1>5, <1>8, <2>1, <3>1 DEF InLog
    <3>5. Opens(i)'
      BY <1>4, <1>5, <1>6, <1>7, <1>8, <1>13, <2>1, <3>1 DEF Opens
    <3> QED
      BY <1>4, <1>6, <2>1, <3>1, <3>3, <3>4, <3>5
  <2>2. CASE i = m + 1 /\ wire'[i] = e
    <3>1. InOrder(i)'
      BY <1>6, <1>7, <1>13, <2>2 DEF InOrder
    <3>2. sessionId = session => n + 1 >= lastSequence
      BY <1>4, <1>5 DEF OrderInv, PointInv
    <3>3. InLog(i)'
      BY <1>4, <1>7, <1>8, <2>2, <3>2 DEF InLog
    <3>4. Opens(i)'
      BY <1>7, <2>2 DEF Opens
    <3> QED
      BY <1>4, <1>6, <1>7, <2>2, <3>1, <3>3, <3>4 DEF EventTypes, None
  <2> QED
    BY <1>10, <1>11, <2>1, <2>2
<1>19. PointInv'
  <2> SUFFICES ASSUME sessionId = session
               PROVE  /\ lastSequence \in 0..n + 1
                      /\ \A i \in 1..n + 1 : log'[i].kind = "EVENT" =>
                           /\ i > lastSequence => log'[i].id > Top
                           /\ i = lastSequence => log'[i].id > Top \/ <<"id", log'[i].id>> \in seen
    BY <1>4, <1>8, <1>13 DEF PointInv
  <2>1. lastSequence \in 0..n
    BY <1>4, <1>5 DEF OrderInv, PointInv
  <2>2. ASSUME NEW i \in 1..n + 1, log'[i].kind = "EVENT"
        PROVE  /\ i > lastSequence => log'[i].id > Top
               /\ i = lastSequence => log'[i].id > Top \/ <<"id", log'[i].id>> \in seen
    <3>1. CASE i \in 1..n
      BY <1>4, <1>5, <1>8, <2>2, <3>1 DEF OrderInv, PointInv
    <3>2. CASE i = n + 1
      BY <1>6, <1>7, <1>8, <3>2
    <3> QED
      BY <1>8, <3>1, <3>2
  <2> QED
    BY <2>1, <2>2
<1> QED
  BY <1>12, <1>14, <1>15, <1>17, <1>18, <1>19 DEF OrderInv

\* What the client remembers.
clientMemory == <<lastSequence, sessionId, seen, order, task, accepted>>

LEMMA TopRemembered ==
  ASSUME UNCHANGED clientMemory
  PROVE  LastDelivered' = LastDelivered /\ Top' = Top
<1>1. Delivered' = Delivered
  BY DEF clientMemory, Delivered
<1>2. LastDelivered' = LastDelivered
  BY <1>1 DEF LastDelivered, Channel!LastDelivered
<1> QED
  BY <1>2 DEF clientMemory, Top

\* A new session has its READY, and nothing else, on the way.
LEMMA IdentifiedStep ==
  ASSUME OrderInv, Quiet, OnIdentify, UNCHANGED clientMemory
  PROVE  OrderInv' /\ Settled'
<1>1. PICK ready : ready = Ready(sessions + 1)
  OBVIOUS
<1>2. /\ session' = sessions + 1 /\ sessions' = sessions + 1
      /\ log' = <<Published(ready)>> /\ wire' = Append(wire, ready)
      /\ published' = published
      /\ UNCHANGED <<lastSequence, sessionId, seen, order, task, accepted>>
  BY <1>1 DEF OnIdentify, clientMemory
<1>3. sessions \in Nat /\ session \in 0..sessions /\ sessionId \in 0..sessions /\ published \in Nat
  BY DEF OrderInv, ChannelTypes
<1>4. /\ ready.op = "dispatch" /\ ready.t = "READY" /\ ready.s = 1 /\ ready.id = None
      /\ ready.session = sessions + 1
  BY <1>1 DEF Ready, Dispatch
<1>5. ready \in WireFrames
  <2>1. "READY" \in EventTypes /\ 1 \in Nat /\ None \in Nat /\ sessions + 1 \in Nat
    BY <1>3 DEF EventTypes, None
  <2> QED
    BY <1>1, <2>1, DispatchFrame DEF Ready
<1>6. PICK entry : entry = Published(ready)
  OBVIOUS
<1>7. entry.kind = "READY" /\ entry.id = None /\ entry \in LogEntries
  <2>1. entry = [kind |-> "READY", id |-> None]
    BY <1>4, <1>6 DEF Published
  <2>2. "READY" \in EventTypes /\ None \in Nat
    BY DEF EventTypes, None
  <2> QED
    BY <2>1, <2>2 DEF LogEntries
<1>8. /\ log' \in Seq(LogEntries) /\ Len(log') = 1 /\ log'[1] = entry
      /\ \A i \in 1..1 : i = 1
  BY <1>2, <1>6, <1>7
<1>9. PICK m \in Nat : m = Len(wire)
  BY DEF OrderInv, ChannelTypes
<1>10. /\ wire' \in Seq(WireFrames) /\ Len(wire') = m + 1 /\ wire'[m + 1] = ready
       /\ \A i \in 1..m : wire'[i] = wire[i]
       /\ \A i \in 1..m + 1 : i \in 1..m \/ i = m + 1
  <2>1. wire \in Seq(WireFrames)
    BY DEF OrderInv, ChannelTypes
  <2> QED
    BY <1>2, <1>5, <1>9, <2>1
<1>11. \A i \in 1..Len(wire') : wire'[i].op = "dispatch" => i = m + 1 /\ wire'[i] = ready
  BY <1>9, <1>10 DEF Quiet
<1>12. ChannelTypes'
  <2>1. session' \in 0..sessions' /\ sessionId' \in 0..sessions' /\ sessions' \in Nat
    BY <1>2, <1>3
  <2> QED
    BY <1>2, <1>8, <1>10, <2>1 DEF OrderInv, ChannelTypes
<1>13. LastDelivered' = LastDelivered /\ Top' = Top
  BY TopRemembered
<1>14. TaskInv' /\ WindowInv'
  BY <1>2, <1>13 DEF OrderInv, TaskInv, WindowInv
<1>15. LogInv'
  BY <1>2, <1>3, <1>7, <1>8 DEF LogInv, None
<1>16. Rising'
  <2> SUFFICES ASSUME NEW i \in 1..Len(wire'), NEW j \in 1..Len(wire'), i < j,
                      wire'[i].op = "dispatch", wire'[j].op = "dispatch"
               PROVE  FALSE
    BY DEF Rising
  <2>1. i = m + 1 /\ j = m + 1
    BY <1>11
  <2> QED
    BY <1>9, <2>1
<1>17. FrameInv'
  <2> SUFFICES ASSUME NEW i \in 1..Len(wire'), wire'[i].op = "dispatch"
               PROVE  /\ wire'[i].s \in Nat \ {0}
                      /\ wire'[i].t \in EventTypes
                      /\ wire'[i].id \in 0..published'
                      /\ wire'[i].id # None <=> wire'[i].t \in {"EVENT", "UNKNOWN"}
                      /\ InOrder(i)' /\ InLog(i)' /\ Opens(i)'
    BY DEF FrameInv
  <2>1. wire'[i] = ready
    BY <1>11
  <2>2. InOrder(i)'
    BY <1>4, <2>1 DEF InOrder
  <2>3. sessionId' # session'
    BY <1>2, <1>3
  <2>4. InLog(i)'
    BY <1>4, <1>7, <1>8, <2>1, <2>3 DEF InLog
  <2>5. Opens(i)'
    <3>1. sessions + 1 \in 1..sessions' /\ sessions + 1 # sessionId'
      BY <1>2, <1>3
    <3> QED
      BY <1>2, <1>4, <1>7, <1>8, <2>1, <3>1 DEF Opens
  <2> QED
    BY <1>2, <1>3, <1>4, <2>1, <2>2, <2>4, <2>5 DEF EventTypes, None
<1>18. PointInv'
  <2>1. sessionId' # session'
    BY <1>2, <1>3
  <2> QED
    BY <2>1 DEF PointInv
<1>19. Settled'
  <2>1. ASSUME NEW i \in 1..Len(wire') PROVE wire'[i].op \notin Asking
    BY <1>4, <1>9, <1>10, <2>1 DEF Quiet, Asking
  <2> QED
    BY <2>1 DEF Settled
<1> QED
  BY <1>12, <1>14, <1>15, <1>16, <1>17, <1>18, <1>19 DEF OrderInv

\* A resumed session sends again what follows the resume point, and one entry more
\* at most: that one comes first.
Replay(again) ==
  /\ again \in Seq(WireFrames)
  /\ \A k \in 1..Len(again) :
       /\ again[k].op = "dispatch"
       /\ again[k].s \in 1..Len(log) /\ again[k].s >= lastSequence
       /\ again[k].t = log[again[k].s].kind /\ again[k].id = log[again[k].s].id
       /\ again[k].t \in {"EVENT", "UNKNOWN"} /\ again[k].id \in 1..published
  /\ \A k, l \in 1..Len(again) : k < l => again[k].s < again[l].s /\ again[k].id < again[l].id

LEMMA EventFrame ==
  ASSUME NEW s \in Nat, NEW kind \in EventTypes, NEW id \in Nat
  PROVE  /\ Event(s, kind, id) \in WireFrames /\ Event(s, kind, id).op = "dispatch"
         /\ Event(s, kind, id).s = s /\ Event(s, kind, id).t = kind /\ Event(s, kind, id).id = id
<1>1. None \in Nat
  BY DEF None
<1>2. Dispatch(kind, s, id, None, FALSE) \in WireFrames
  BY <1>1, DispatchFrame
<1> QED
  BY <1>2 DEF Event, Dispatch

LEMMA ResumeReplays ==
  ASSUME OrderInv, Overlap \in 0..1, session # None, sessionId = session,
         NEW D, D = {i \in 1..Len(log) : i > lastSequence - Overlap /\ log[i].id # None},
         NEW again,
         again = [k \in 1..Len(Ascending(D)) |->
                    Event(Ascending(D)[k], log[Ascending(D)[k]].kind, log[Ascending(D)[k]].id)]
  PROVE  Replay(again)
<1>1. PICK n : n = Len(log)
  OBVIOUS
<1>2. /\ n \in Nat
      /\ \A i \in 1..n : log[i].id \in 0..published /\ log[i].kind \in EventTypes
  BY <1>1, LogNumbers
<1>3. lastSequence \in 0..n /\ published \in Nat
  BY <1>1 DEF OrderInv, PointInv, ChannelTypes
<1>4. PICK missed : missed = Ascending(D)
  OBVIOUS
<1>5. PICK c : c = Len(missed)
  OBVIOUS
<1>6. /\ c \in Nat /\ \A k \in 1..c : missed[k] \in D
      /\ \A k, l \in 1..c : k < l => missed[k] < missed[l]
  <2>1. D \in SUBSET (1..n)
    BY <1>1
  <2> QED
    BY <1>2, <1>4, <1>5, <2>1, AscendingFacts
<1>7. ASSUME NEW i \in D
      PROVE  /\ i \in 1..n /\ i >= lastSequence
             /\ log[i].kind \in {"EVENT", "UNKNOWN"} /\ log[i].id \in 1..published
  <2>1. i \in 1..n /\ i > lastSequence - Overlap /\ log[i].id # None
    BY <1>1
  <2>2. i >= lastSequence
    BY <1>2, <1>3, <2>1
  <2>3. log[i].id \in 0..published /\ log[i].id # 0
    BY <1>2, <2>1 DEF None
  <2>4. log[i].id \in 1..published
    BY <1>3, <2>3
  <2>5. log[i].kind \in {"EVENT", "UNKNOWN"}
    BY <1>1, <2>1 DEF OrderInv, LogInv
  <2> QED
    BY <2>1, <2>2, <2>4, <2>5
<1>8. again = [k \in 1..c |-> Event(missed[k], log[missed[k]].kind, log[missed[k]].id)]
  BY <1>4, <1>5
<1>9. ASSUME NEW k \in 1..c
      PROVE  /\ again[k].op = "dispatch" /\ again[k].s = missed[k]
             /\ again[k].t = log[missed[k]].kind /\ again[k].id = log[missed[k]].id
             /\ again[k] \in WireFrames
  <2>1. PICK i \in D : i = missed[k]
    BY <1>6
  <2>2. again[k] = Event(i, log[i].kind, log[i].id)
    BY <1>8, <2>1
  <2>3. i \in 1..n /\ log[i].id \in 1..published
    BY <1>7
  <2>4. log[i].kind \in EventTypes /\ i \in Nat /\ log[i].id \in Nat
    BY <1>2, <2>3
  <2>5. PICK f : f = Event(i, log[i].kind, log[i].id)
    OBVIOUS
  <2>6. f \in WireFrames /\ f.op = "dispatch" /\ f.s = i /\ f.t = log[i].kind /\ f.id = log[i].id
    BY <2>4, <2>5, EventFrame
  <2>7. again[k] = f
    BY <2>2, <2>5
  <2> QED
    BY <2>1, <2>6, <2>7
<1>10. /\ again \in Seq(WireFrames) /\ Len(again) = c
  <2>1. again \in [1..c -> WireFrames]
    <3>1. DOMAIN again = 1..c /\ again = [k \in 1..c |-> again[k]]
      BY <1>8
    <3> QED
      BY <1>9, <3>1
  <2>2. \A S : \A t \in [1..c -> S] : t \in Seq(S) /\ Len(t) = c
    BY <1>6
  <2> QED
    BY <2>1, <2>2
<1>11. ASSUME NEW k \in 1..Len(again), NEW l \in 1..Len(again), k < l
       PROVE  again[k].s < again[l].s /\ again[k].id < again[l].id
  <2>0. k \in 1..c /\ l \in 1..c
    BY <1>10, <1>11
  <2>1. PICK i \in D : i = missed[k]
    BY <1>6, <2>0
  <2>2. PICK j \in D : j = missed[l]
    BY <1>6, <2>0
  <2>3. i < j
    BY <1>6, <1>11, <2>0, <2>1, <2>2
  <2>4. /\ i \in 1..n /\ j \in 1..n /\ log[i].id # None /\ log[j].id # None
    <3>1. log[i].id \in 1..published /\ log[j].id \in 1..published
      BY <1>7
    <3> QED
      BY <1>3, <1>7, <3>1 DEF None
  <2>5. log[i].id < log[j].id
    BY <1>1, <2>3, <2>4 DEF OrderInv, LogInv
  <2> QED
    BY <1>9, <2>0, <2>1, <2>2, <2>3, <2>5
<1>12. ASSUME NEW k \in 1..Len(again)
       PROVE  /\ again[k].op = "dispatch"
              /\ again[k].s \in 1..Len(log) /\ again[k].s >= lastSequence
              /\ again[k].t = log[again[k].s].kind /\ again[k].id = log[again[k].s].id
              /\ again[k].t \in {"EVENT", "UNKNOWN"} /\ again[k].id \in 1..published
  <2>0. k \in 1..c
    BY <1>10, <1>12
  <2>1. PICK i \in D : i = missed[k]
    BY <1>6, <2>0
  <2>2. /\ again[k].op = "dispatch" /\ again[k].s = i
        /\ again[k].t = log[i].kind /\ again[k].id = log[i].id
    BY <1>9, <2>0, <2>1
  <2>3. /\ i \in 1..Len(log) /\ i >= lastSequence
        /\ log[i].kind \in {"EVENT", "UNKNOWN"} /\ log[i].id \in 1..published
    BY <1>1, <1>7
  <2> QED
    BY <2>2, <2>3
<1> QED
  BY <1>10, <1>11, <1>12 DEF Replay

LEMMA ResumedStep ==
  ASSUME OrderInv, Quiet, session # None, sessionId = session,
         NEW again, Replay(again),
         NEW resumed, resumed = Resumed(Len(log) + 1),
         wire' = Append(wire \o again, resumed),
         log' = Append(log, Published(resumed)),
         UNCHANGED <<session, sessions, published>>, UNCHANGED clientMemory
  PROVE  OrderInv' /\ Settled'
<1>1. PICK n : n = Len(log)
  OBVIOUS
<1>2. UNCHANGED <<lastSequence, sessionId, seen, order, task, accepted>>
  BY DEF clientMemory
<1>3. published \in Nat /\ Top \in 0..published
  BY TopPublished
<1>4. /\ n \in Nat
      /\ \A i \in 1..n : log[i].id \in 0..published /\ log[i].kind \in EventTypes
  BY <1>1, LogNumbers
<1>5. /\ lastSequence \in 0..n
      /\ \A i \in 1..n : log[i].kind = "EVENT" =>
           /\ i > lastSequence => log[i].id > Top
           /\ i = lastSequence => log[i].id > Top \/ <<"id", log[i].id>> \in seen
  BY <1>1 DEF OrderInv, PointInv
<1>6. PICK c : c = Len(again)
  OBVIOUS
<1>7. again \in Seq(WireFrames) /\ c \in Nat
  BY <1>6 DEF Replay
<1>8. /\ \A k \in 1..c :
           /\ again[k].op = "dispatch"
           /\ again[k].s \in 1..n /\ again[k].s >= lastSequence
           /\ again[k].t = log[again[k].s].kind /\ again[k].id = log[again[k].s].id
           /\ again[k].t \in {"EVENT", "UNKNOWN"} /\ again[k].id \in 1..published
      /\ \A k, l \in 1..c : k < l => again[k].s < again[l].s /\ again[k].id < again[l].id
  BY <1>1, <1>6 DEF Replay
<1>9. log' = Append(log, Published(resumed)) /\ wire' = Append(wire \o again, resumed)
  OBVIOUS
<1>10. /\ resumed.op = "dispatch" /\ resumed.t = "RESUMED" /\ resumed.s = n + 1 /\ resumed.id = None
       /\ resumed \in WireFrames
  <2>1. resumed = Dispatch("RESUMED", n + 1, None, None, FALSE)
    BY <1>1 DEF Resumed
  <2>2. "RESUMED" \in EventTypes /\ n + 1 \in Nat /\ None \in Nat
    BY <1>4 DEF EventTypes, None
  <2>3. resumed \in WireFrames
    BY <2>1, <2>2, DispatchFrame
  <2> QED
    BY <2>1, <2>3 DEF Dispatch
<1>11. PICK entry : entry = Published(resumed)
  OBVIOUS
<1>12. entry.kind = "RESUMED" /\ entry.id = None /\ entry \in LogEntries
  <2>1. entry = [kind |-> "RESUMED", id |-> None]
    BY <1>10, <1>11 DEF Published
  <2>2. "RESUMED" \in EventTypes /\ None \in Nat
    BY DEF EventTypes, None
  <2> QED
    BY <2>1, <2>2 DEF LogEntries
<1>13. /\ log' \in Seq(LogEntries) /\ Len(log') = n + 1 /\ log'[n + 1] = entry
       /\ \A i \in 1..n : log'[i] = log[i]
       /\ \A i \in 1..n + 1 : i \in 1..n \/ i = n + 1
  <2>1. log \in Seq(LogEntries) /\ log' = Append(log, entry)
    BY <1>9, <1>11, LogNumbers
  <2> QED
    BY <1>1, <1>12, <2>1
<1>14. PICK m : m = Len(wire)
  OBVIOUS
<1>15. /\ m \in Nat
       /\ wire' \in Seq(WireFrames) /\ Len(wire') = m + c + 1
       /\ \A i \in 1..m : wire'[i] = wire[i]
       /\ \A k \in 1..c : wire'[m + k] = again[k]
       /\ wire'[m + c + 1] = resumed
  <2>1. wire \in Seq(WireFrames)
    BY DEF OrderInv, ChannelTypes
  <2>2. PICK u : u = wire \o again
    OBVIOUS
  <2>3. /\ u \in Seq(WireFrames) /\ Len(u) = m + c /\ m \in Nat
        /\ \A i \in 1..m + c : u[i] = IF i <= m THEN wire[i] ELSE again[i - m]
    BY <1>6, <1>7, <1>14, <2>1, <2>2, ConcatFacts
  <2>4. PICK v : v = Append(u, resumed)
    OBVIOUS
  <2>5. /\ v \in Seq(WireFrames) /\ Len(v) = m + c + 1 /\ v[m + c + 1] = resumed
        /\ \A i \in 1..m + c : v[i] = u[i]
    BY <1>10, <2>3, <2>4
  <2>6. ASSUME NEW i \in 1..m PROVE v[i] = wire[i]
    <3>1. i \in 1..m + c /\ i <= m
      BY <1>7, <2>3
    <3> QED
      BY <2>3, <2>5, <3>1
  <2>7. ASSUME NEW k \in 1..c PROVE v[m + k] = again[k]
    <3>1. m + k \in 1..m + c /\ ~(m + k <= m) /\ (m + k) - m = k
      BY <1>7, <2>3
    <3> QED
      BY <2>3, <2>5, <3>1
  <2>8. wire' = v
    BY <1>9, <2>2, <2>4
  <2> QED
    BY <2>3, <2>5, <2>6, <2>7, <2>8
\* The dispatches on the wire are those sent again and the RESUMED.
<1>16. ASSUME NEW i \in 1..Len(wire'), wire'[i].op = "dispatch"
       PROVE  \/ \E k \in 1..c : i = m + k /\ wire'[i] = again[k]
              \/ i = m + c + 1 /\ wire'[i] = resumed
  <2>1. i \in 1..m \/ i = m + c + 1 \/ (i - m \in 1..c /\ i = m + (i - m))
    BY <1>7, <1>15
  <2>2. i \notin 1..m
    BY <1>14, <1>15, <1>16 DEF Quiet
  <2> QED
    BY <1>15, <2>1, <2>2
<1>17. ChannelTypes'
  BY <1>2, <1>13, <1>15 DEF OrderInv, ChannelTypes
<1>18. LastDelivered' = LastDelivered /\ Top' = Top
  BY TopRemembered
<1>19. TaskInv' /\ WindowInv'
  BY <1>2, <1>18 DEF OrderInv, TaskInv, WindowInv
<1>20. LogInv'
  <2>1. ASSUME NEW i \in 1..n + 1
        PROVE  log'[i].id <= published' /\ (log'[i].id # None <=> log'[i].kind \in {"EVENT", "UNKNOWN"})
    <3>1. CASE i \in 1..n
      BY <1>1, <1>13, <3>1 DEF OrderInv, LogInv
    <3>2. CASE i = n + 1
      BY <1>3, <1>12, <1>13, <3>2 DEF None
    <3> QED
      BY <1>13, <3>1, <3>2
  <2>2. ASSUME NEW i \in 1..n + 1, NEW j \in 1..n + 1, i < j, log'[i].id # None, log'[j].id # None
        PROVE  log'[i].id < log'[j].id
    <3>1. i \in 1..n /\ j \in 1..n
      BY <1>12, <1>13, <2>2
    <3> QED
      BY <1>1, <1>13, <2>2, <3>1 DEF OrderInv, LogInv
  <2> QED
    BY <1>13, <2>1, <2>2 DEF LogInv
<1>21. Rising'
  <2> SUFFICES ASSUME NEW i \in 1..Len(wire'), NEW j \in 1..Len(wire'), i < j,
                      wire'[i].op = "dispatch", wire'[j].op = "dispatch"
               PROVE  /\ wire'[i].s < wire'[j].s
                      /\ wire'[i].id # None /\ wire'[j].id # None => wire'[i].id < wire'[j].id
    BY DEF Rising
  <2>1. PICK k \in 1..c : i = m + k /\ wire'[i] = again[k]
    <3>1. i # m + c + 1
      BY <1>7, <1>15
    <3> QED
      BY <1>16, <3>1
  <2>2. CASE j = m + c + 1 /\ wire'[j] = resumed
    <3>1. again[k].s < n + 1
      <4>1. again[k].s \in 1..n
        BY <1>8
      <4> QED
        BY <1>4, <4>1
    <3> QED
      BY <1>10, <2>1, <2>2, <3>1
  <2>3. ASSUME NEW l \in 1..c, j = m + l, wire'[j] = again[l]
        PROVE  again[k].s < again[l].s /\ again[k].id < again[l].id
    <3>1. k < l
      BY <1>7, <1>15, <2>1, <2>3
    <3> QED
      BY <1>8, <3>1
  <2> QED
    BY <1>16, <2>1, <2>2, <2>3
<1>22. ASSUME NEW i \in 1..Len(wire'), NEW k \in 1..c, i = m + k, wire'[i] = again[k]
       PROVE  InOrder(i)'
  <2>1. PICK p : p = again[k].s
    OBVIOUS
  <2>2. /\ p \in 1..n /\ p >= lastSequence /\ again[k].t = log[p].kind /\ again[k].id = log[p].id
        /\ again[k].id \in 1..published
    BY <1>8, <2>1
  <2> SUFFICES ASSUME log[p].kind = "EVENT"
               PROVE  \/ log[p].id > Top
                      \/ Key(again[k]) \in seen /\ \A j \in 1..i - 1 : wire'[j].op # "dispatch"
    BY <1>2, <1>18, <1>22, <2>2 DEF InOrder, Key
  <2>3. Key(again[k]) = <<"id", log[p].id>>
    <3>1. again[k].id # None
      BY <1>3, <2>2 DEF None
    <3> QED
      BY <2>2, <3>1 DEF Key
  <2>4. p = lastSequence \/ p > lastSequence
    BY <1>4, <1>5, <2>2
  <2>5. ASSUME p = lastSequence, NEW j \in 1..i - 1, wire'[j].op = "dispatch" PROVE FALSE
    <3>1. j \in 1..Len(wire') /\ j # m + c + 1
      BY <1>7, <1>15, <1>22
    <3>2. PICK l \in 1..c : j = m + l
      BY <1>16, <2>5, <3>1
    <3>3. l < k
      BY <1>7, <1>15, <1>22, <3>2
    <3>4. again[l].s < p /\ again[l].s >= lastSequence /\ again[l].s \in 1..n
      BY <1>8, <2>1, <3>3
    <3> QED
      BY <1>4, <1>5, <2>5, <3>4
  <2> QED
    BY <1>5, <2>2, <2>3, <2>4, <2>5
<1>23. FrameInv'
  <2> SUFFICES ASSUME NEW i \in 1..Len(wire'), wire'[i].op = "dispatch"
               PROVE  /\ wire'[i].s \in Nat \ {0}
                      /\ wire'[i].t \in EventTypes
                      /\ wire'[i].id \in 0..published'
                      /\ wire'[i].id # None <=> wire'[i].t \in {"EVENT", "UNKNOWN"}
                      /\ InOrder(i)' /\ InLog(i)' /\ Opens(i)'
    BY DEF FrameInv
  <2>1. ASSUME NEW k \in 1..c, i = m + k, wire'[i] = again[k]
        PROVE  /\ wire'[i].s \in Nat \ {0}
               /\ wire'[i].t \in EventTypes
               /\ wire'[i].id \in 0..published'
               /\ wire'[i].id # None <=> wire'[i].t \in {"EVENT", "UNKNOWN"}
               /\ InOrder(i)' /\ InLog(i)' /\ Opens(i)'
    <3>1. PICK f : f = again[k]
      OBVIOUS
    <3>2. /\ f.s \in 1..n /\ f.s >= lastSequence
          /\ f.t = log[f.s].kind /\ f.id = log[f.s].id
          /\ f.t \in {"EVENT", "UNKNOWN"} /\ f.id \in 1..published
      BY <1>8, <3>1
    <3>3. InOrder(i)'
      BY <1>22, <2>1
    <3>4. InLog(i)'
      <4>1. f.s \in 1..n + 1 /\ log'[f.s] = log[f.s]
        BY <1>4, <1>13, <3>2
      <4> QED
        BY <1>2, <1>13, <2>1, <3>1, <3>2, <4>1 DEF InLog
    <3>5. Opens(i)'
      BY <2>1, <3>1, <3>2 DEF Opens
    <3>6. f.s \in Nat \ {0} /\ f.id \in 0..published /\ f.id # None /\ f.t \in EventTypes
      BY <1>3, <1>4, <3>2 DEF None, EventTypes
    <3> QED
      BY <2>1, <3>1, <3>2, <3>3, <3>4, <3>5, <3>6
  <2>2. ASSUME i = m + c + 1, wire'[i] = resumed
        PROVE  /\ wire'[i].s \in Nat \ {0}
               /\ wire'[i].t \in EventTypes
               /\ wire'[i].id \in 0..published'
               /\ wire'[i].id # None <=> wire'[i].t \in {"EVENT", "UNKNOWN"}
               /\ InOrder(i)' /\ InLog(i)' /\ Opens(i)'
    <3>1. InOrder(i)' /\ Opens(i)'
      BY <1>10, <2>2 DEF InOrder, Opens
    <3>2. n + 1 \in 1..n + 1 /\ n + 1 >= lastSequence
      BY <1>4, <1>5
    <3>3. InLog(i)'
      BY <1>2, <1>10, <1>12, <1>13, <2>2, <3>2 DEF InLog
    <3>4. resumed.s \in Nat \ {0} /\ resumed.t \in EventTypes /\ resumed.id \in 0..published
      BY <1>3, <1>4, <1>10 DEF EventTypes, None
    <3> QED
      BY <1>10, <2>2, <3>1, <3>3, <3>4
  <2> QED
    BY <1>16, <2>1, <2>2
<1>24. PointInv'
  <2>1. ASSUME NEW i \in 1..n + 1, log'[i].kind = "EVENT"
        PROVE  /\ i > lastSequence => log'[i].id > Top
               /\ i = lastSequence => log'[i].id > Top \/ <<"id", log'[i].id>> \in seen
    <3>1. i \in 1..n
      BY <1>12, <1>13, <2>1
    <3> QED
      BY <1>5, <1>13, <2>1, <3>1
  <2>2. lastSequence \in 0..n + 1
    BY <1>4, <1>5
  <2> QED
    BY <1>2, <1>13, <1>18, <2>1, <2>2 DEF PointInv
<1>25. Settled'
  <2>1. ASSUME NEW i \in 1..Len(wire') PROVE wire'[i].op \notin Asking
    <3>1. \/ \E k \in 1..c : wire'[i] = again[k]
          \/ wire'[i] = resumed
          \/ i \in 1..m
      <4>1. i \in 1..m \/ i = m + c + 1 \/ (i - m \in 1..c /\ i = m + (i - m))
        BY <1>7, <1>15
      <4> QED
        BY <1>15, <4>1
    <3> QED
      BY <1>8, <1>10, <1>14, <1>15, <3>1 DEF Quiet, Asking
  <2> QED
    BY <2>1 DEF Settled
<1> QED
  BY <1>17, <1>19, <1>20, <1>21, <1>23, <1>24, <1>25 DEF OrderInv

-----------------------------------------------------------------------------
(* The wire, step by step.                                                 *)

LEMMA ControlFrame ==
  ASSUME NEW op \in Opcodes, op # "dispatch", NEW resumable \in BOOLEAN
  PROVE  /\ Control(op, resumable) \in WireFrames
         /\ Control(op, resumable).op = op /\ Control(op, resumable).op # "dispatch"
<1>1. Control(op, resumable) \in Controls
  BY DEF Controls
<1>2. Control(op, resumable).op = op
  BY DEF Control
<1> QED
  BY <1>1, <1>2 DEF WireFrames

LEMMA CloseFrame ==
  ASSUME NEW class \in CloseClasses
  PROVE  Close(class) \in WireFrames /\ Close(class).op = "close"
<1>1. Close(class) \in Closes
  BY DEF Closes
<1> QED
  BY <1>1 DEF WireFrames, Close

\* Only dispatches have a sequence number.
LEMMA ControlHasNoNumber ==
  ASSUME NEW f \in WireFrames, f.op # "dispatch", f.op # "close"
  PROVE  f.s = None
<1>1. f \notin Dispatches
  BY DEF Dispatches, Dispatch
<1>2. f \notin Closes
  BY DEF Closes, Close
<1>3. f \in Controls
  BY <1>1, <1>2 DEF WireFrames
<1> QED
  BY <1>3 DEF Controls, Control

LEMMA WireGone ==
  ASSUME wire' = <<>>
  PROVE  WireKeeps(0) /\ Settled'
BY DEF WireKeeps, Settled

LEMMA WireSame ==
  ASSUME wire \in Seq(WireFrames), UNCHANGED wire, conn' = conn \/ conn' # "live", Settled
  PROVE  WireKeeps(0) /\ Settled'
<1>1. PICK n \in Nat : n = Len(wire)
  OBVIOUS
<1> QED
  BY <1>1 DEF WireKeeps, Settled

LEMMA WireTaken ==
  ASSUME wire \in Seq(WireFrames), wire # <<>>, wire' = Tail(wire), conn' = conn, Settled
  PROVE  WireKeeps(1) /\ Settled'
<1>1. PICK n : n = Len(wire)
  OBVIOUS
<1>2. /\ n \in Nat /\ n >= 1 /\ wire' \in Seq(WireFrames) /\ Len(wire') = n - 1
      /\ \A i \in 1..n - 1 : wire'[i] = wire[i + 1]
  BY <1>1
<1>3. \A i \in 1..n - 1 : i + 1 \in 1..n
  BY <1>2
<1>4. WireKeeps(1)
  BY <1>1, <1>2, <1>3 DEF WireKeeps
<1>5. ASSUME NEW i \in 1..n - 1, wire'[i].op \in Asking, NEW j \in i + 1 .. n - 1
      PROVE  conn' # "live" /\ wire'[j].op \notin Asking \cup {"dispatch"}
  <2>1. /\ i + 1 \in 1..n /\ wire[i + 1].op \in Asking
        /\ j + 1 \in (i + 1) + 1 .. n /\ wire'[j] = wire[j + 1]
    BY <1>2, <1>5
  <2> QED
    BY <1>1, <2>1 DEF Settled
<1>6. ASSUME NEW i \in 1..n - 1, wire'[i].op \in Asking
      PROVE  conn' # "live"
  BY <1>1, <1>2, <1>3, <1>6 DEF Settled
<1> QED
  BY <1>2, <1>4, <1>5, <1>6 DEF Settled

LEMMA WireCut ==
  ASSUME wire \in Seq(WireFrames), NEW m \in 0..Len(wire), wire' = SubSeq(wire, 1, m),
         conn' # "live", Settled
  PROVE  /\ WireKeeps(0) /\ Settled'
         /\ \A i \in 1..Len(wire') : i \in 1..Len(wire) /\ wire'[i] = wire[i]
<1>1. PICK n : n = Len(wire)
  OBVIOUS
<1>2. /\ n \in Nat /\ m \in Nat /\ m <= n /\ wire' \in Seq(WireFrames) /\ Len(wire') = m
      /\ \A i \in 1..m : wire'[i] = wire[i]
  <2>1. n \in Nat /\ m \in Nat /\ m <= n /\ 1 <= m + 1 /\ 1 \in Int /\ 1 <= 1
    BY <1>1
  <2>2. /\ wire' \in Seq(WireFrames) /\ Len(wire') = m - 1 + 1
        /\ \A i \in 1..m - 1 + 1 : wire'[i] = wire[1 + i - 1]
    BY <1>1, <2>1, SliceFacts
  <2> QED
    BY <2>1, <2>2
<1>3. \A i \in 1..m : i \in 1..n
  BY <1>2
<1>4. ASSUME NEW i \in 1..m, wire'[i].op \in Asking, NEW j \in i + 1 .. m
      PROVE  wire'[j].op \notin Asking \cup {"dispatch"}
  <2>1. i \in 1..n /\ j \in i + 1 .. n /\ wire'[i] = wire[i] /\ wire'[j] = wire[j]
    BY <1>2
  <2> QED
    BY <1>1, <1>4, <2>1 DEF Settled
<1> QED
  BY <1>1, <1>2, <1>3, <1>4 DEF WireKeeps, Settled

LEMMA WireAppended ==
  ASSUME wire \in Seq(WireFrames), NEW f \in WireFrames, wire' = Append(wire, f)
  PROVE  /\ wire' \in Seq(WireFrames) /\ Len(wire') = Len(wire) + 1 /\ Len(wire) \in Nat
         /\ wire'[Len(wire) + 1] = f
         /\ \A i \in 1..Len(wire) : wire'[i] = wire[i]
         /\ \A i \in 1..Len(wire') : i \in 1..Len(wire) \/ i = Len(wire) + 1
OBVIOUS

LEMMA WireKeepsControl ==
  ASSUME wire \in Seq(WireFrames), NEW f \in WireFrames, wire' = Append(wire, f),
         f.op # "dispatch"
  PROVE  WireKeeps(0)
<1>1. PICK n : n = Len(wire)
  OBVIOUS
<1>2. /\ wire' \in Seq(WireFrames) /\ n \in Nat /\ wire'[n + 1] = f
      /\ \A i \in 1..n : wire'[i] = wire[i]
      /\ \A i \in 1..Len(wire') : i \in 1..n \/ i = n + 1
  BY <1>1, WireAppended
<1> QED
  BY <1>1, <1>2 DEF WireKeeps

\* A frame is added where no dispatch may follow ...
LEMMA SettledControl ==
  ASSUME wire \in Seq(WireFrames), NEW f \in WireFrames, wire' = Append(wire, f), Settled,
         conn' = conn \/ conn' # "live", f.op \notin Asking \cup {"dispatch"}
  PROVE  Settled'
<1>1. PICK n : n = Len(wire)
  OBVIOUS
<1>2. /\ n \in Nat /\ wire'[n + 1] = f /\ Len(wire') = n + 1
      /\ \A i \in 1..n : wire'[i] = wire[i]
      /\ \A i \in 1..n + 1 : i \in 1..n \/ i = n + 1
  BY <1>1, WireAppended
<1>3. ASSUME NEW i \in 1..n + 1, wire'[i].op \in Asking
      PROVE  /\ i \in 1..n /\ wire[i].op \in Asking /\ conn' # "live"
             /\ \A j \in i + 1 .. n + 1 : wire'[j].op \notin Asking \cup {"dispatch"}
  <2>1. i \in 1..n /\ wire[i].op \in Asking
    BY <1>2, <1>3
  <2>2. /\ conn # "live"
        /\ \A j \in i + 1 .. n : wire[j].op \notin Asking \cup {"dispatch"}
    BY <1>1, <2>1 DEF Settled
  <2>3. ASSUME NEW j \in i + 1 .. n + 1 PROVE wire'[j].op \notin Asking \cup {"dispatch"}
    <3>1. j \in i + 1 .. n \/ j = n + 1
      BY <1>2, <2>1
    <3>2. j \in i + 1 .. n => j \in 1..n
      BY <1>2, <2>1
    <3> QED
      BY <1>2, <2>2, <3>1, <3>2
  <2> QED
    BY <2>1, <2>2, <2>3
<1> QED
  BY <1>2, <1>3 DEF Settled

\* ... or where none asks.
LEMMA SettledFrame ==
  ASSUME wire \in Seq(WireFrames), NEW f \in WireFrames, wire' = Append(wire, f),
         \A i \in 1..Len(wire) : wire[i].op \notin Asking,
         f.op \in Asking => conn' # "live"
  PROVE  Settled'
<1>1. PICK n : n = Len(wire)
  OBVIOUS
<1>2. /\ n \in Nat /\ wire'[n + 1] = f /\ Len(wire') = n + 1
      /\ \A i \in 1..n : wire'[i] = wire[i]
      /\ \A i \in 1..n + 1 : i \in 1..n \/ i = n + 1
  BY <1>1, WireAppended
<1>3. ASSUME NEW i \in 1..n + 1, wire'[i].op \in Asking
      PROVE  i = n + 1 /\ conn' # "live" /\ \A j \in i + 1 .. n + 1 : FALSE
  <2>1. i = n + 1
    BY <1>1, <1>2, <1>3
  <2> QED
    BY <1>2, <1>3, <2>1
<1> QED
  BY <1>2, <1>3 DEF Settled

-----------------------------------------------------------------------------
(* The steps of the source.                                                *)

ChannelInv == OrderInv /\ Settled /\ QuietInv

LEMMA PumpRests == ASSUME UNCHANGED pumpVars, task \in Keys \cup {NoTask} PROVE ClientKeeps
BY DEF pumpVars, ClientKeeps, window

LEMMA SessionRests == ASSUME UNCHANGED sessionVars PROVE ServerKeeps
BY DEF sessionVars, ServerKeeps

\* A connection that ends leaves nothing on the wire.
LEMMA AfterEnding ==
  ASSUME OrderInv, Ending, ClientKeeps
  PROVE  ChannelInv'
<1>1. wire' = <<>> /\ conn' = "down" /\ UNCHANGED sessionVars
  BY AbortsQuietly DEF Ending, End, Retry, HangUp
<1>2. phase' \in {"stopped", "failed", "backoff"}
  BY PhaseAfterEnding
<1>3. OrderInv'
  <2>1. ServerKeeps /\ WireKeeps(0)
    BY <1>1, SessionRests, WireGone
  <2> QED
    BY <2>1, OrderKept
<1>4. Settled'
  BY <1>1, WireGone
<1>5. QuietInv'
  BY <1>1, <1>2 DEF QuietInv, Connected
<1> QED
  BY <1>3, <1>4, <1>5 DEF ChannelInv

LEMMA EndingOrder ==
  ASSUME OrderInv,
         \/ CredentialsFail \/ ConnectFails \/ StopWhileConnecting \/ HelloFails \/ HelloRefused
         \/ StopWhileReading \/ AckTimeout \/ HeartbeatFails \/ StreamEnds \/ ReceiveClose
         \/ ReconnectRequested \/ SubmitRejected \/ AbortTask
         \/ LoopTop /\ Ending
         \/ BackoffOver /\ Ending
         \/ Authenticate /\ Ending
         \/ DrainAction /\ Retry
  PROVE  ChannelInv'
<1>1. task \in Keys \cup {NoTask}
  BY DEF OrderInv, ChannelTypes
<1>2. CASE \/ CredentialsFail \/ ConnectFails \/ StopWhileConnecting \/ HelloFails \/ HelloRefused
           \/ StopWhileReading \/ AckTimeout \/ HeartbeatFails \/ StreamEnds
  <2>1. Ending
    BY <1>2 DEF CredentialsFail, ConnectFails, StopWhileConnecting, HelloFails, HelloRefused,
                StopWhileReading, AckTimeout, HeartbeatFails, StreamEnds, Ending, Ended
  <2>2. UNCHANGED pumpVars
    BY <1>2 DEF CredentialsFail, ConnectFails, StopWhileConnecting, HelloFails, HelloRefused,
                StopWhileReading, AckTimeout, HeartbeatFails, StreamEnds
  <2> QED
    BY <1>1, <2>1, <2>2, PumpRests, AfterEnding
<1>3. CASE (LoopTop /\ Ending) \/ (BackoffOver /\ Ending)
  <2>1. UNCHANGED pumpVars
    BY <1>3 DEF LoopTop, BackoffOver
  <2> QED
    BY <1>1, <1>3, <2>1, PumpRests, AfterEnding
<1>4. CASE ReceiveClose
  <2>1. Ending
    BY <1>4 DEF ReceiveClose, Ending, Ended
  <2>2. UNCHANGED <<seen, order, task, accepted>> /\ (UNCHANGED resumePoint \/ ClearSession)
    BY <1>4 DEF ReceiveClose, window
  <2>3. ClientKeeps
    BY <2>2 DEF ClientKeeps, window, resumePoint, ClearSession
  <2> QED
    BY <2>1, <2>3, AfterEnding
<1>5. CASE (Authenticate /\ Ending) \/ (DrainAction /\ Retry) \/ ReconnectRequested
  <2>1. Ending
    BY <1>5 DEF ReconnectRequested, Ending
  <2>2. UNCHANGED <<lastSequence, sessionId, seen, order, accepted>> /\ task' \in {task, NoTask}
    BY <1>5 DEF Authenticate, DrainAction, ReconnectRequested, resumePoint, window
  <2>3. ClientKeeps
    BY <2>2 DEF ClientKeeps, window
  <2> QED
    BY <2>1, <2>3, AfterEnding
<1>6. CASE SubmitRejected
  <2>1. Reject /\ Ending
    BY <1>6 DEF SubmitRejected, Ending
  <2>2. ClientKeeps
    BY <2>1 DEF Reject, ClientKeeps, resumePoint
  <2> QED
    BY <2>1, <2>2, AfterEnding
<1>7. CASE AbortTask
  <2>1. UNCHANGED <<lastSequence, sessionId, seen, order, accepted, task>> /\ Ending
    BY <1>7, AbortsQuietly DEF Ending, resumePoint, window
  <2>2. ClientKeeps
    BY <1>1, <2>1 DEF ClientKeeps, window
  <2> QED
    BY <2>1, <2>2, AfterEnding
<1> QED
  BY <1>2, <1>3, <1>4, <1>5, <1>6, <1>7

\* Where no connection is, or the client reads, nothing of QuietInv is at stake.
LEMMA IdleOrder ==
  ASSUME ChannelInv,
         \/ LoopTop /\ ~Ending
         \/ BackoffOver /\ ~Ending
         \/ FetchCredentials \/ Shutdown \/ Restart \/ ExpireSession
         \/ UNCHANGED gatewayVars
  PROVE  ChannelInv'
<1>1. UNCHANGED network /\ ServerKeeps
  <2>1. CASE ExpireSession
    BY <2>1 DEF ExpireSession, ServerKeeps
  <2>2. CASE ~ExpireSession
    <3>1. UNCHANGED <<network, sessionVars>>
      BY <2>2 DEF LoopTop, BackoffOver, Ending, Ended, FetchCredentials, Shutdown, Restart,
                  gatewayVars, serverVars
    <3> QED
      BY <3>1, SessionRests
  <2> QED
    BY <2>1, <2>2
<1>2. wire' = wire /\ conn' = conn
  BY <1>1 DEF network
<1>3. wire \in Seq(WireFrames) /\ task \in Keys \cup {NoTask}
  BY DEF ChannelInv, OrderInv, ChannelTypes
<1>4. WireKeeps(0) /\ Settled'
  BY <1>2, <1>3, WireSame DEF ChannelInv
<1>5. CASE Restart
  <2>1. /\ phase \in {"stopped", "failed"} /\ phase' = "loop"
        /\ sessionId' = None /\ seen' = {} /\ order' = <<>> /\ task' = NoTask /\ UNCHANGED accepted
    BY <1>5 DEF Restart, Ended, ClearSession
  <2>2. wire = <<>> /\ conn = "down"
    BY <2>1 DEF ChannelInv, QuietInv, Connected
  <2>3. ClientKeeps
    BY <1>2, <2>1, <2>2 DEF ClientKeeps
  <2>4. OrderInv'
    BY <1>1, <1>4, <2>3, OrderKept DEF ChannelInv
  <2>5. QuietInv'
    BY <1>2, <2>1, <2>2 DEF QuietInv
  <2> QED
    BY <1>4, <2>4, <2>5 DEF ChannelInv
<1>6. CASE ~Restart
  <2>1. UNCHANGED pumpVars
    BY <1>6 DEF LoopTop, BackoffOver, FetchCredentials, Shutdown, ExpireSession, gatewayVars
  <2>2. ClientKeeps
    BY <1>3, <2>1, PumpRests
  <2>3. OrderInv'
    BY <1>1, <1>4, <2>2, OrderKept DEF ChannelInv
  <2>4. \/ UNCHANGED <<phase, actions, sessionId>>
        \/ phase \notin Connected /\ phase' \notin Connected
    BY <1>6, <2>1 DEF LoopTop, BackoffOver, Ending, Ended, FetchCredentials, Shutdown,
                      ExpireSession, gatewayVars, clientVars, pumpVars, Connected
  <2>5. QuietInv'
    <3>1. CASE UNCHANGED <<phase, actions, sessionId>>
      BY <1>2, <3>1 DEF ChannelInv, QuietInv, Quiet
    <3>2. CASE phase \notin Connected /\ phase' \notin Connected
      BY <1>2, <3>2 DEF ChannelInv, QuietInv, Connected
    <3> QED
      BY <2>4, <3>1, <3>2
  <2> QED
    BY <1>4, <2>3, <2>5 DEF ChannelInv
<1> QED
  BY <1>5, <1>6

LEMMA ConnectOrder ==
  ASSUME ChannelInv, Connect
  PROVE  ChannelInv'
<1>1. /\ phase' = "hello" /\ wire' = <<Control("hello", FALSE)>> /\ conn' = "open"
      /\ UNCHANGED <<pumpVars, sessionVars>>
  BY DEF Connect
<1>2. PICK f : f = Control("hello", FALSE)
  OBVIOUS
<1>3. f \in WireFrames /\ f.op = "hello"
  <2>1. "hello" \in Opcodes /\ FALSE \in BOOLEAN
    BY DEF Opcodes
  <2> QED
    BY <1>2, <2>1, ControlFrame
<1>4. wire' \in Seq(WireFrames) /\ Len(wire') = 1 /\ wire'[1] = f
  <2>1. wire' = <<f>>
    BY <1>1, <1>2
  <2>2. <<f>> \in Seq(WireFrames) /\ Len(<<f>>) = 1 /\ <<f>>[1] = f
    BY <1>3
  <2> QED
    BY <2>1, <2>2
<1>5. \A i \in 1..1 : i = 1 /\ \A j \in i + 1 .. 1 : FALSE
  OBVIOUS
<1>6. WireKeeps(0)
  BY <1>3, <1>4, <1>5 DEF WireKeeps
<1>7. Settled'
  BY <1>1, <1>4, <1>5 DEF Settled
<1>8. ClientKeeps /\ ServerKeeps
  BY <1>1, PumpRests, SessionRests DEF ChannelInv, OrderInv, ChannelTypes
<1>9. OrderInv'
  BY <1>6, <1>8, OrderKept DEF ChannelInv
<1>10. QuietInv'
  BY <1>1 DEF QuietInv, Connected
<1> QED
  BY <1>7, <1>9, <1>10 DEF ChannelInv

\* Frames of the pump other than dispatches: the resume point stays or is cleared.
LEMMA ControlHandled ==
  ASSUME NEW f, HandleFrame(f), f.op # "dispatch", f.s = None, task \in Keys \cup {NoTask}
  PROVE  ClientKeeps
<1>1. KnownSequence(f) = lastSequence
  BY DEF KnownSequence
<1>2. task' = NoTask /\ UNCHANGED <<window, accepted>>
  BY DEF HandleFrame, HandleDispatch
<1>3. UNCHANGED <<lastSequence, sessionId>> \/ sessionId' = None
  <2>1. HandleInvalidSession(f) \/ HandleHello(f) \/ HandleSimple(f)
    BY DEF HandleFrame, HandleDispatch
  <2>2. CASE HandleInvalidSession(f)
    BY <1>1, <2>2 DEF HandleInvalidSession, ClearSession
  <2>3. CASE HandleHello(f)
    BY <1>1, <2>3 DEF HandleHello
  <2>4. CASE HandleSimple(f)
    BY <1>1, <2>4 DEF HandleSimple
  <2> QED
    BY <2>1, <2>2, <2>3, <2>4
<1> QED
  BY <1>2, <1>3 DEF ClientKeeps

\* The pump asks for authentication only where the server does, and for Resume only
\* with a session.
LEMMA AuthActions ==
  ASSUME NEW f, HandleFrame(f), actions = <<>>, actions' # <<>>
  PROVE  /\ Head(actions') \in {"Identify", "Resume"} => f.op \in Asking
         /\ Head(actions') = "Resume" => sessionId' # None
<1>1. \A a : Append(<<>>, a) = <<a>> /\ Head(<<a>>) = a
  OBVIOUS
<1>2. CASE HandleDispatch(f)
  <2>1. \E a \in {"UnknownEvent", "DispatchTask"} : actions' = Append(<<>>, a)
    BY <1>2 DEF HandleDispatch, Push
  <2> QED
    BY <1>1, <2>1
<1>3. CASE HandleInvalidSession(f)
  <2>1. /\ f.op \in Asking
        /\ \/ actions' = Append(<<>>, "Resume") /\ sessionId # None /\ sessionId' = sessionId
           \/ actions' = Append(<<>>, "Identify")
    BY <1>3 DEF HandleInvalidSession, Push, Asking
  <2> QED
    BY <1>1, <2>1
<1>4. CASE HandleHello(f)
  <2>1. /\ f.op \in Asking /\ sessionId' = sessionId
        /\ \/ actions' = Append(<<>>, "Resume") /\ sessionId # None
           \/ actions' = Append(<<>>, "Identify")
    BY <1>4 DEF HandleHello, Push, Asking
  <2> QED
    BY <1>1, <2>1
<1>5. CASE HandleSimple(f)
  <2>1. \E a \in {"Reconnect", "AckHeartbeat", "Heartbeat", "UnknownOpcode"} :
          actions' = Append(<<>>, a)
    BY <1>5 DEF HandleSimple, Push, SimpleAction
  <2> QED
    BY <1>1, <2>1
<1> QED
  BY <1>2, <1>3, <1>4, <1>5 DEF HandleFrame

LEMMA HelloOrder ==
  ASSUME ChannelInv, HelloFirst, ReceiveHello
  PROVE  ChannelInv'
<1>1. /\ phase = "hello" /\ phase' = "auth" /\ wire # <<>> /\ wire' = Tail(wire) /\ conn' = conn
      /\ HandleFrame(Head(wire)) /\ UNCHANGED sessionVars
  BY DEF ReceiveHello, TakeFrame
<1>2. PICK f : f = Head(wire)
  OBVIOUS
<1>3. f.op = "hello" /\ f.s = None /\ conn # "live"
  BY <1>1, <1>2 DEF HelloFirst, Control
<1>4. wire \in Seq(WireFrames) /\ task \in Keys \cup {NoTask}
  BY DEF ChannelInv, OrderInv, ChannelTypes
<1>5. WireKeeps(1) /\ Settled'
  BY <1>1, <1>4, WireTaken DEF ChannelInv
<1>6. ClientKeeps /\ ServerKeeps
  BY <1>1, <1>2, <1>3, <1>4, ControlHandled, SessionRests
<1>7. OrderInv'
  BY <1>5, <1>6, OrderKept DEF ChannelInv
<1>8. Quiet'
  <2>1. PICK n : n = Len(wire)
    OBVIOUS
  <2>2. /\ n \in Nat /\ n >= 1 /\ Len(wire') = n - 1 /\ wire[1] = f
        /\ \A i \in 1..n - 1 : wire'[i] = wire[i + 1]
    BY <1>1, <1>2, <1>4, <2>1
  <2>3. \A j \in 2..n : wire[j].op \notin Asking \cup {"dispatch"}
    BY <1>3, <2>1, <2>2 DEF ChannelInv, Settled, Asking
  <2>4. ASSUME NEW i \in 1..n - 1 PROVE wire'[i].op \notin Asking \cup {"dispatch"}
    <3>1. i + 1 \in 2..n
      BY <2>2
    <3> QED
      BY <2>2, <2>3, <3>1
  <2> QED
    BY <1>1, <1>3, <2>2, <2>4 DEF Quiet
<1>9. QuietInv'
  BY <1>1, <1>8 DEF QuietInv, Connected
<1> QED
  BY <1>5, <1>7, <1>9 DEF ChannelInv

LEMMA FrameOrder ==
  ASSUME ChannelInv, QueueInv, ReceiveFrame
  PROVE  ChannelInv'
<1>1. /\ phase = "read" /\ phase' = "drain" /\ wire # <<>> /\ wire' = Tail(wire) /\ conn' = conn
      /\ HandleFrame(Head(wire)) /\ TakeFrame /\ UNCHANGED sessionVars
      /\ Head(wire).op # "close"
  BY DEF ReceiveFrame, TakeFrame
<1>2. PICK f : f = Head(wire)
  OBVIOUS
<1>3. wire \in Seq(WireFrames) /\ task = NoTask /\ actions = <<>>
  BY <1>1 DEF ChannelInv, OrderInv, ChannelTypes, QueueInv, NothingLeftOver
<1>4. WireKeeps(1) /\ Settled'
  BY <1>1, <1>3, WireTaken DEF ChannelInv
<1>5. OrderInv'
  <2>1. CASE f.op = "dispatch"
    BY <1>1, <1>2, <1>3, <2>1, TakeDispatch DEF ChannelInv
  <2>2. CASE f.op # "dispatch"
    <3>1. f \in WireFrames
      BY <1>1, <1>2, <1>3
    <3>2. f.s = None
      BY <1>1, <1>2, <2>2, <3>1, ControlHasNoNumber
    <3>3. ClientKeeps /\ ServerKeeps
      BY <1>1, <1>2, <1>3, <2>2, <3>2, ControlHandled, SessionRests
    <3> QED
      BY <1>4, <3>3, OrderKept DEF ChannelInv
  <2> QED
    BY <2>1, <2>2
<1>6. ASSUME f.op \in Asking PROVE Quiet'
  <2>1. PICK n : n = Len(wire)
    OBVIOUS
  <2>2. /\ n \in Nat /\ n >= 1 /\ Len(wire') = n - 1 /\ wire[1] = f
        /\ \A i \in 1..n - 1 : wire'[i] = wire[i + 1]
    BY <1>1, <1>2, <1>3, <2>1
  <2>3. conn # "live" /\ \A j \in 2..n : wire[j].op \notin Asking \cup {"dispatch"}
    BY <1>6, <2>1, <2>2 DEF ChannelInv, Settled
  <2>4. ASSUME NEW i \in 1..n - 1 PROVE wire'[i].op \notin Asking \cup {"dispatch"}
    <3>1. i + 1 \in 2..n
      BY <2>2
    <3> QED
      BY <2>2, <2>3, <3>1
  <2> QED
    BY <1>1, <2>2, <2>3, <2>4 DEF Quiet
<1>7. QuietInv'
  <2>1. actions' # <<>> =>
          /\ Head(actions') \in {"Identify", "Resume"} => f.op \in Asking
          /\ Head(actions') = "Resume" => sessionId' # None
    BY <1>1, <1>2, <1>3, AuthActions
  <2> QED
    BY <1>1, <1>6, <2>1 DEF QuietInv, Connected
<1> QED
  BY <1>4, <1>5, <1>7 DEF ChannelInv

\* The client authenticates where nothing is on its way: the one place where dispatches
\* may have numbers below those before.
LEMMA AuthOrder ==
  ASSUME OrderInv, Settled, Quiet, Overlap \in 0..1,
         NEW a \in {"Identify", "Resume"}, SendAuth(a), a = "Resume" => sessionId # None,
         UNCHANGED clientMemory
  PROVE  OrderInv' /\ Settled'
<1>1. wire \in Seq(WireFrames)
  BY DEF OrderInv, ChannelTypes
<1>2. ClientKeeps
  BY DEF clientMemory, ClientKeeps, window
<1>3. CASE Lost
  <2>1. UNCHANGED <<wire, conn>> /\ UNCHANGED sessionVars
    BY <1>3 DEF Lost, network
  <2> QED
    BY <1>1, <1>2, <2>1, WireSame, SessionRests, OrderKept
<1>4. CASE OnIdentify
  BY <1>4, IdentifiedStep
<1>5. CASE a = "Resume" /\ OnResume(sessionId, lastSequence)
  <2>1. PICK D : D = {i \in 1..Len(log) : i > lastSequence - Overlap /\ log[i].id # None}
    OBVIOUS
  <2>2. PICK again :
          again = [n \in 1..Len(Ascending(D)) |->
                     Event(Ascending(D)[n], log[Ascending(D)[n]].kind, log[Ascending(D)[n]].id)]
    OBVIOUS
  <2>3. PICK resumed : resumed = Resumed(Len(log) + 1)
    OBVIOUS
  <2>4. \/ /\ sessionId = session
           /\ wire' = Append(wire \o again, resumed)
           /\ log' = Append(log, Published(resumed))
           /\ UNCHANGED <<session, sessions, published>>
        \/ /\ wire' = Append(wire, Control("invalid", FALSE))
           /\ UNCHANGED <<conn, sessionVars>>
    BY <1>5, <2>1, <2>2, <2>3 DEF OnResume
  <2>5. CASE /\ sessionId = session
             /\ wire' = Append(wire \o again, resumed)
             /\ log' = Append(log, Published(resumed))
             /\ UNCHANGED <<session, sessions, published>>
    <3>1. session # None
      BY <1>5, <2>5
    <3>2. Replay(again)
      BY <2>1, <2>2, <2>5, <3>1, ResumeReplays
    <3> QED
      BY <2>3, <2>5, <3>1, <3>2, ResumedStep
  <2>6. CASE wire' = Append(wire, Control("invalid", FALSE)) /\ UNCHANGED <<conn, sessionVars>>
    <3>1. PICK f : f = Control("invalid", FALSE)
      OBVIOUS
    <3>2. f \in WireFrames /\ f.op = "invalid" /\ f.op # "dispatch"
      <4>1. "invalid" \in Opcodes /\ FALSE \in BOOLEAN
        BY DEF Opcodes
      <4> QED
        BY <3>1, <4>1, ControlFrame
    <3>3. wire' = Append(wire, f) /\ conn' = conn /\ conn # "live"
      BY <2>6, <3>1 DEF Quiet
    <3>4. WireKeeps(0)
      BY <1>1, <3>2, <3>3, WireKeepsControl
    <3>5. Settled'
      <4>1. \A i \in 1..Len(wire) : wire[i].op \notin Asking
        BY DEF Quiet
      <4> QED
        BY <1>1, <3>2, <3>3, <4>1, SettledFrame
    <3>6. OrderInv'
      BY <1>2, <2>6, <3>4, SessionRests, OrderKept
    <3> QED
      BY <3>5, <3>6
  <2> QED
    BY <2>4, <2>5, <2>6
<1> QED
  BY <1>3, <1>4, <1>5 DEF SendAuth

\* A heartbeat is answered, or not.
LEMMA HeartbeatOrder ==
  ASSUME OrderInv, Settled, ClientKeeps, SendHeartbeat
  PROVE  OrderInv' /\ Settled' /\ conn' = conn /\ (Quiet => Quiet')
<1>1. wire \in Seq(WireFrames)
  BY DEF OrderInv, ChannelTypes
<1>2. CASE Lost
  <2>1. UNCHANGED <<wire, conn>> /\ UNCHANGED sessionVars
    BY <1>2 DEF Lost, network
  <2> QED
    BY <1>1, <2>1, WireSame, SessionRests, OrderKept DEF Quiet
<1>3. CASE wire' = Append(wire, Control("ack", FALSE)) /\ UNCHANGED <<conn, sessionVars>>
  <2>1. PICK f : f = Control("ack", FALSE)
    OBVIOUS
  <2>2. f \in WireFrames /\ f.op = "ack"
    <3>1. "ack" \in Opcodes /\ FALSE \in BOOLEAN
      BY DEF Opcodes
    <3> QED
      BY <2>1, <3>1, ControlFrame
  <2>3. f.op # "dispatch" /\ f.op \notin Asking \cup {"dispatch"}
    BY <2>2 DEF Asking
  <2>4. wire' = Append(wire, f) /\ conn' = conn /\ UNCHANGED sessionVars
    BY <1>3, <2>1
  <2>5. WireKeeps(0) /\ Settled'
    BY <1>1, <2>2, <2>3, <2>4, WireKeepsControl, SettledControl
  <2>6. OrderInv'
    BY <2>4, <2>5, SessionRests, OrderKept
  <2>7. Quiet => Quiet'
    <3>1. /\ wire'[Len(wire) + 1] = f
          /\ \A i \in 1..Len(wire) : wire'[i] = wire[i]
          /\ \A i \in 1..Len(wire') : i \in 1..Len(wire) \/ i = Len(wire) + 1
      BY <1>1, <2>2, <2>4, WireAppended
    <3> QED
      BY <2>3, <2>4, <3>1 DEF Quiet
  <2> QED
    BY <2>4, <2>5, <2>6, <2>7
<1> QED
  BY <1>2, <1>3 DEF SendHeartbeat

LEMMA ReadingOrder ==
  ASSUME ChannelInv, HeartbeatTick \/ ReceiveAck
  PROVE  ChannelInv'
<1>1. /\ phase = "read" /\ phase' = "read" /\ UNCHANGED pumpVars
  BY DEF HeartbeatTick, ReceiveAck
<1>2. wire \in Seq(WireFrames) /\ ClientKeeps
  BY <1>1, PumpRests DEF ChannelInv, OrderInv, ChannelTypes
<1>3. OrderInv' /\ Settled'
  <2>1. CASE HeartbeatTick
    BY <1>2, <2>1, HeartbeatOrder DEF HeartbeatTick, ChannelInv
  <2>2. CASE ReceiveAck
    <3>1. wire # <<>> /\ wire' = Tail(wire) /\ conn' = conn /\ UNCHANGED sessionVars
      BY <2>2 DEF ReceiveAck, TakeFrame
    <3>2. WireKeeps(1) /\ Settled'
      BY <1>2, <3>1, WireTaken DEF ChannelInv
    <3> QED
      BY <1>2, <3>1, <3>2, SessionRests, OrderKept DEF ChannelInv
  <2> QED
    BY <2>1, <2>2
<1>4. QuietInv'
  BY <1>1 DEF QuietInv, Connected
<1> QED
  BY <1>3, <1>4 DEF ChannelInv

LEMMA AuthenticateOrder ==
  ASSUME ChannelInv, Overlap \in 0..1, Authenticate
  PROVE  ChannelInv'
<1>1. CASE Ending
  BY <1>1, EndingOrder DEF ChannelInv
<1>2. CASE ~Ending
  <2>1. PICK a \in {"Identify", "Resume"} : SendAuth(a) /\ (a = "Resume" => sessionId # None)
    BY <1>2 DEF Authenticate, Ending
  <2>2. phase = "auth" /\ phase' = "read" /\ UNCHANGED clientMemory
    BY <1>2 DEF Authenticate, Ending, clientMemory, resumePoint, window
  <2>3. Quiet
    BY <2>2 DEF ChannelInv, QuietInv
  <2>4. OrderInv' /\ Settled'
    BY <2>1, <2>2, <2>3, AuthOrder DEF ChannelInv
  <2>5. QuietInv'
    BY <2>2 DEF QuietInv, Connected
  <2> QED
    BY <2>4, <2>5 DEF ChannelInv
<1> QED
  BY <1>1, <1>2

LEMMA DrainOrder ==
  ASSUME ChannelInv, QueueInv, Overlap \in 0..1, DrainAction
  PROVE  ChannelInv'
<1>1. CASE Retry
  BY <1>1, EndingOrder DEF ChannelInv
<1>2. CASE ~Retry
  <2>1. /\ phase = "drain" /\ phase' = "drain" /\ actions # <<>> /\ actions' = Tail(actions)
        /\ UNCHANGED clientMemory
    BY <1>2 DEF DrainAction, PopAction, clientMemory, resumePoint, window
  <2>2. actions' = <<>>
    <3>1. PICK a : actions = <<a>>
      BY <2>1 DEF QueueInv
    <3> QED
      BY <2>1, <3>1
  <2>3. ClientKeeps
    BY <2>1 DEF clientMemory, ClientKeeps, window
  <2>4. \/ Head(actions) \in {"Identify", "Resume"} /\ SendAuth(Head(actions))
        \/ SendHeartbeat
        \/ UNCHANGED <<network, sessionVars>>
    BY <1>2 DEF DrainAction
  <2>5. OrderInv' /\ Settled'
    <3>1. CASE Head(actions) \in {"Identify", "Resume"} /\ SendAuth(Head(actions))
      <4>1. Quiet /\ (Head(actions) = "Resume" => sessionId # None)
        BY <2>1, <3>1 DEF ChannelInv, QuietInv
      <4> QED
        BY <2>1, <3>1, <4>1, AuthOrder DEF ChannelInv
    <3>2. CASE SendHeartbeat
      BY <2>3, <3>2, HeartbeatOrder DEF ChannelInv
    <3>3. CASE UNCHANGED <<network, sessionVars>>
      <4>1. wire \in Seq(WireFrames) /\ UNCHANGED wire /\ conn' = conn
        BY <3>3 DEF network, ChannelInv, OrderInv, ChannelTypes
      <4> QED
        BY <2>3, <3>3, <4>1, WireSame, SessionRests, OrderKept DEF ChannelInv
    <3> QED
      BY <2>4, <3>1, <3>2, <3>3
  <2>6. QuietInv'
    BY <2>1, <2>2 DEF QuietInv, Connected
  <2> QED
    BY <2>5, <2>6 DEF ChannelInv
<1> QED
  BY <1>1, <1>2

LEMMA SubmitOrder ==
  ASSUME ChannelInv, SubmitTask
  PROVE  ChannelInv'
<1>1. /\ phase' = "read" /\ UNCHANGED <<wire, conn, log, published, session, sessions, sessionVars>>
      /\ Accept \/ UNCHANGED pumpVars
  BY DEF SubmitTask, serverVars, network, sessionVars
<1>2. wire \in Seq(WireFrames)
  BY DEF ChannelInv, OrderInv, ChannelTypes
<1>3. WireKeeps(0) /\ Settled'
  BY <1>1, <1>2, WireSame DEF ChannelInv
<1>4. OrderInv'
  <2>1. CASE Accept
    BY <1>1, <2>1, TakeTask DEF ChannelInv
  <2>2. CASE UNCHANGED pumpVars
    <3>1. ClientKeeps
      BY <2>2, PumpRests DEF ChannelInv, OrderInv, ChannelTypes
    <3> QED
      BY <1>1, <1>3, <3>1, SessionRests, OrderKept DEF ChannelInv
  <2> QED
    BY <1>1, <2>1, <2>2
<1>5. QuietInv'
  BY <1>1 DEF QuietInv, Connected
<1> QED
  BY <1>3, <1>4, <1>5 DEF ChannelInv

\* What the server and the network do leaves the client's side of QuietInv alone.
LEMMA ServerIsQuiet ==
  ASSUME ChannelInv, UNCHANGED <<phase, actions, sessionId>>, Quiet => Quiet',
         conn = "down" => UNCHANGED <<wire, conn>>
  PROVE  QuietInv'
BY DEF ChannelInv, QuietInv

LEMMA PublishOrder ==
  ASSUME ChannelInv, PublishEvent
  PROVE  ChannelInv'
<1>1. OrderInv'
  BY PublishStep DEF ChannelInv
<1>2. UNCHANGED <<phase, actions, sessionId, conn>>
  BY DEF PublishEvent, clientVars, pumpVars, resumePoint
<1>3. wire \in Seq(WireFrames) /\ wire' \in Seq(WireFrames) /\ Settled
  BY <1>1 DEF ChannelInv, OrderInv, ChannelTypes
<1>4. CASE conn # "live"
  <2>1. wire' = wire
    BY <1>4 DEF PublishEvent, Push2Client
  <2>2. Settled'
    BY <1>2, <1>3, <2>1, WireSame
  <2>3. QuietInv'
    BY <1>2, <2>1, ServerIsQuiet DEF Quiet
  <2> QED
    BY <1>1, <2>2, <2>3 DEF ChannelInv
<1>5. CASE conn = "live"
  <2>1. PICK f : wire' = Append(wire, f) /\ f.op = "dispatch"
    BY <1>5 DEF PublishEvent, Push2Client, Event, Dispatch
  <2>2. f \in WireFrames
    <3>1. PICK n : n = Len(wire)
      OBVIOUS
    <3>2. n \in Nat /\ Len(wire') = n + 1 /\ wire'[n + 1] = f
      BY <1>3, <2>1, <3>1
    <3> QED
      BY <1>3, <3>2
  <2>3. \A i \in 1..Len(wire) : wire[i].op \notin Asking
    BY <1>3, <1>5 DEF Settled
  <2>4. f.op \notin Asking
    BY <2>1 DEF Asking
  <2>5. Settled'
    BY <1>3, <2>1, <2>2, <2>3, <2>4, SettledFrame
  <2>6. QuietInv'
    BY <1>2, <1>5, ServerIsQuiet DEF Quiet
  <2> QED
    BY <1>1, <2>5, <2>6 DEF ChannelInv
<1> QED
  BY <1>4, <1>5

\* The pump does nothing, and the server appends a frame other than a dispatch.
LEMMA AppendedOrder ==
  ASSUME ChannelInv, UNCHANGED <<pumpVars, phase>>, ServerKeeps, conn \in {"open", "live"},
         NEW f \in WireFrames, wire' = Append(wire, f), f.op # "dispatch",
         conn' = conn \/ conn' # "live",
         \/ f.op \notin Asking
         \/ conn = "live" /\ conn' # "live"
  PROVE  ChannelInv'
<1>1. wire \in Seq(WireFrames) /\ Settled /\ task \in Keys \cup {NoTask}
  BY DEF ChannelInv, OrderInv, ChannelTypes
<1>2. OrderInv'
  BY <1>1, WireKeepsControl, PumpRests, OrderKept DEF ChannelInv
<1>3. CASE f.op \notin Asking
  <2>1. f.op \notin Asking \cup {"dispatch"}
    BY <1>3
  <2>2. Settled'
    BY <1>1, <2>1, SettledControl
  <2>3. /\ wire'[Len(wire) + 1] = f
        /\ \A i \in 1..Len(wire) : wire'[i] = wire[i]
        /\ \A i \in 1..Len(wire') : i \in 1..Len(wire) \/ i = Len(wire) + 1
    BY <1>1, WireAppended
  <2>4. Quiet => Quiet'
    BY <2>1, <2>3 DEF Quiet
  <2>5. QuietInv'
    BY <2>4, ServerIsQuiet DEF pumpVars, resumePoint
  <2> QED
    BY <1>2, <2>2, <2>5 DEF ChannelInv
<1>4. CASE conn = "live" /\ conn' # "live"
  <2>1. \A i \in 1..Len(wire) : wire[i].op \notin Asking
    BY <1>1, <1>4 DEF Settled
  <2>2. Settled'
    BY <1>1, <1>4, <2>1, SettledFrame
  <2>3. QuietInv'
    BY <1>4, ServerIsQuiet DEF Quiet, pumpVars, resumePoint
  <2> QED
    BY <1>2, <2>2, <2>3 DEF ChannelInv
<1> QED
  BY <1>3, <1>4

LEMMA NetworkOrder ==
  ASSUME ChannelInv, SendControl \/ InvalidateSession \/ CloseConnection \/ LoseConnection
  PROVE  ChannelInv'
<1>1. UNCHANGED <<pumpVars, phase>> /\ conn \in {"open", "live"}
  BY DEF SendControl, InvalidateSession, CloseConnection, LoseConnection, Alive, clientVars
<1>2. CASE SendControl
  <2>1. PICK op \in {"heartbeat", "reconnect", "other"} : wire' = Append(wire, Control(op, FALSE))
    BY <1>2 DEF SendControl, Push2Client
  <2>2. PICK f : f = Control(op, FALSE)
    OBVIOUS
  <2>3. f \in WireFrames /\ f.op = op
    <3>1. op \in Opcodes /\ op # "dispatch" /\ FALSE \in BOOLEAN
      BY DEF Opcodes
    <3> QED
      BY <2>2, <3>1, ControlFrame
  <2>4. f.op # "dispatch" /\ f.op \notin Asking /\ wire' = Append(wire, f)
    BY <2>1, <2>2, <2>3 DEF Asking
  <2>5. conn' = conn /\ ServerKeeps
    BY <1>2, SessionRests DEF SendControl
  <2> QED
    BY <1>1, <2>3, <2>4, <2>5, AppendedOrder
<1>3. CASE InvalidateSession
  <2>1. PICK resumable \in BOOLEAN :
          /\ wire' = Append(wire, Control("invalid", resumable))
          /\ session' = IF resumable THEN session ELSE None
          /\ log' = IF resumable THEN log ELSE <<>>
    BY <1>3 DEF InvalidateSession
  <2>2. PICK f : f = Control("invalid", resumable)
    OBVIOUS
  <2>3. f \in WireFrames /\ f.op # "dispatch" /\ wire' = Append(wire, f)
    <3>1. "invalid" \in Opcodes
      BY DEF Opcodes
    <3> QED
      BY <2>1, <2>2, <3>1, ControlFrame
  <2>4. conn = "live" /\ conn' # "live" /\ ServerKeeps
    BY <1>3, <2>1 DEF InvalidateSession, ServerKeeps
  <2> QED
    BY <1>1, <2>3, <2>4, AppendedOrder
<1>4. CASE CloseConnection
  <2>1. PICK class \in CloseClasses :
          /\ wire' = Append(wire, Close(class))
          /\ session' = IF class = "Reidentify" THEN None ELSE session
          /\ log' = IF class = "Reidentify" THEN <<>> ELSE log
    BY <1>4 DEF CloseConnection
  <2>2. PICK f : f = Close(class)
    OBVIOUS
  <2>3. f \in WireFrames /\ f.op = "close" /\ wire' = Append(wire, f)
    BY <2>1, <2>2, CloseFrame
  <2>4. f.op # "dispatch" /\ f.op \notin Asking
    BY <2>3 DEF Asking
  <2>5. conn' # "live" /\ ServerKeeps
    BY <1>4, <2>1 DEF CloseConnection, ServerKeeps
  <2> QED
    BY <1>1, <2>3, <2>4, <2>5, AppendedOrder
<1>5. CASE LoseConnection
  <2>1. PICK m \in 0..Len(wire) : wire' = SubSeq(wire, 1, m)
    BY <1>5 DEF LoseConnection
  <2>2. conn' # "live" /\ ServerKeeps
    BY <1>5, SessionRests DEF LoseConnection
  <2>3. wire \in Seq(WireFrames) /\ Settled /\ task \in Keys \cup {NoTask}
    BY DEF ChannelInv, OrderInv, ChannelTypes
  <2>4. /\ WireKeeps(0) /\ Settled'
        /\ \A i \in 1..Len(wire') : i \in 1..Len(wire) /\ wire'[i] = wire[i]
    BY <2>1, <2>2, <2>3, WireCut
  <2>5. OrderInv'
    BY <1>1, <2>2, <2>3, <2>4, PumpRests, OrderKept DEF ChannelInv
  <2>6. Quiet => Quiet'
    BY <2>2, <2>4 DEF Quiet
  <2>7. QuietInv'
    BY <1>1, <2>6, ServerIsQuiet DEF pumpVars, resumePoint
  <2> QED
    BY <2>4, <2>5, <2>7 DEF ChannelInv
<1> QED
  BY <1>2, <1>3, <1>4, <1>5

LEMMA ChannelInitially == ASSUME GatewayInit PROVE ChannelInv
<1>1. /\ wire = <<>> /\ log = <<>> /\ accepted = <<>> /\ order = <<>> /\ task = NoTask
      /\ published = 0 /\ sessions = 0 /\ session = 0 /\ sessionId = 0
      /\ phase = "loop" /\ conn = "down"
  BY DEF GatewayInit, PumpInit, None
<1>2. Delivered = <<>> /\ LastDelivered = 0
  BY <1>1, NothingDelivered DEF LastDelivered, Channel!LastDelivered
<1>3. ChannelTypes
  BY <1>1 DEF ChannelTypes
<1>4. TaskInv
  BY <1>1, <1>2 DEF TaskInv, NoTask
<1>5. WindowInv /\ LogInv /\ Rising /\ FrameInv /\ Settled
  BY <1>1 DEF WindowInv, LogInv, Rising, FrameInv, Settled
<1>6. PointInv
  BY <1>1 DEF PointInv, None
<1>7. QuietInv
  BY <1>1 DEF QuietInv
<1> QED
  BY <1>3, <1>4, <1>5, <1>6, <1>7 DEF ChannelInv, OrderInv

LEMMA ChannelStep ==
  ASSUME GatewayInv, ChannelInv, Overlap \in 0..1, [GatewayNext]_gatewayVars
  PROVE  ChannelInv'
<1>1. OrderInv /\ HelloFirst /\ QueueInv
  BY DEF ChannelInv, GatewayInv
<1>2. CASE \/ CredentialsFail \/ ConnectFails \/ StopWhileConnecting \/ HelloFails \/ HelloRefused
           \/ StopWhileReading \/ AckTimeout \/ HeartbeatFails \/ StreamEnds \/ ReceiveClose
           \/ ReconnectRequested \/ SubmitRejected \/ AbortTask
  BY <1>1, <1>2, EndingOrder
<1>3. CASE LoopTop
  BY <1>1, <1>3, EndingOrder, IdleOrder
<1>4. CASE BackoffOver
  BY <1>1, <1>4, EndingOrder, IdleOrder
<1>5. CASE FetchCredentials \/ Shutdown \/ Restart \/ ExpireSession \/ UNCHANGED gatewayVars
  BY <1>5, IdleOrder
<1>6. CASE Connect \/ ReceiveHello \/ Authenticate \/ HeartbeatTick \/ ReceiveAck
  BY <1>1, <1>6, ConnectOrder, HelloOrder, AuthenticateOrder, ReadingOrder
<1>7. CASE ReceiveFrame \/ DrainAction \/ SubmitTask
  BY <1>1, <1>7, FrameOrder, DrainOrder, SubmitOrder
<1>8. CASE PublishEvent \/ SendControl \/ InvalidateSession \/ CloseConnection \/ LoseConnection
  BY <1>8, PublishOrder, NetworkOrder
<1> QED
  BY <1>2, <1>3, <1>4, <1>5, <1>6, <1>7, <1>8 DEF GatewayNext, ClientStep, EnvironmentStep

\* Core takes a task in SubmitTask alone, the Gateway publishes in PublishEvent alone.
LEMMA OthersDeliverNothing ==
  ASSUME [GatewayNext]_gatewayVars, ~SubmitTask, ~PublishEvent
  PROVE  UNCHANGED <<accepted, published>>
<1>1. CASE \/ LoopTop \/ FetchCredentials \/ CredentialsFail \/ Connect \/ ConnectFails
           \/ StopWhileConnecting \/ HelloFails \/ HelloRefused
           \/ StopWhileReading \/ AckTimeout \/ HeartbeatFails \/ StreamEnds \/ BackoffOver
  BY <1>1 DEF LoopTop, FetchCredentials, CredentialsFail, Connect, ConnectFails,
              StopWhileConnecting, HelloFails, HelloRefused, StopWhileReading, AckTimeout,
              HeartbeatFails, StreamEnds, BackoffOver, End, Retry, HangUp, pumpVars, sessionVars
<1>2. CASE ReceiveHello \/ ReceiveFrame
  <2>1. PICK f : HandleFrame(f)
    BY <1>2 DEF ReceiveHello, ReceiveFrame
  <2>2. UNCHANGED accepted
    BY <2>1 DEF HandleFrame, HandleDispatch
  <2>3. UNCHANGED published
    BY <1>2 DEF ReceiveHello, ReceiveFrame, TakeFrame, sessionVars
  <2> QED
    BY <2>2, <2>3
<1>3. CASE Authenticate \/ DrainAction \/ HeartbeatTick
  <2>1. UNCHANGED accepted
    BY <1>3 DEF Authenticate, DrainAction, HeartbeatTick, pumpVars
  <2>2. UNCHANGED published
    BY <1>3 DEF Authenticate, DrainAction, HeartbeatTick, SendAuth, SendHeartbeat, Lost,
                OnIdentify, OnResume, Retry, HangUp, sessionVars
  <2> QED
    BY <2>1, <2>2
<1>4. CASE ReceiveClose \/ ReceiveAck \/ ReconnectRequested \/ SubmitRejected
  BY <1>4 DEF ReceiveClose, ReceiveAck, ReconnectRequested, SubmitRejected, Reject, End, Retry,
              HangUp, TakeFrame, pumpVars, sessionVars
<1>5. CASE \/ Shutdown \/ Restart \/ SendControl \/ InvalidateSession \/ CloseConnection
           \/ LoseConnection \/ ExpireSession \/ UNCHANGED gatewayVars
  BY <1>5 DEF Shutdown, Restart, SendControl, InvalidateSession, CloseConnection, LoseConnection,
              ExpireSession, gatewayVars, serverVars, pumpVars, sessionVars
<1>6. CASE AbortTask
  BY <1>6, AbortsQuietly DEF sessionVars
<1> QED
  BY <1>1, <1>2, <1>3, <1>4, <1>5, <1>6 DEF GatewayNext, ClientStep, EnvironmentStep

LEMMA StepImplements ==
  ASSUME ChannelInv, [GatewayNext]_gatewayVars
  PROVE  [Channel!ChannelNext]_<<published, Delivered>>
<1>1. CASE SubmitTask
  <2>1. UNCHANGED <<wire, log, published, session, sessions>> /\ (Accept \/ UNCHANGED pumpVars)
    BY <1>1 DEF SubmitTask, serverVars, network, sessionVars
  <2>2. CASE Accept
    <3>1. \/ Delivered' = Delivered
          \/ \E e \in LastDelivered + 1 .. published : Delivered' = Append(Delivered, e)
      BY <2>1, <2>2, TakeTask DEF ChannelInv
    <3> QED
      BY <2>1, <3>1 DEF Channel!ChannelNext, Channel!Deliver, LastDelivered
  <2>3. CASE UNCHANGED pumpVars
    BY <2>1, <2>3 DEF pumpVars, Delivered
  <2> QED
    BY <2>1, <2>2, <2>3
<1>2. CASE PublishEvent
  <2>1. published' = published + 1 /\ UNCHANGED accepted
    BY <1>2 DEF PublishEvent, pumpVars
  <2> QED
    BY <2>1 DEF Channel!ChannelNext, Channel!Publish, Delivered
<1>3. CASE ~SubmitTask /\ ~PublishEvent
  <2>1. UNCHANGED <<accepted, published>>
    BY <1>3, OthersDeliverNothing
  <2> QED
    BY <2>1 DEF Delivered
<1> QED
  BY <1>1, <1>2, <1>3

\* The event source implements the event channel: whatever server, network, Core and
\* host do, Core accepts the events in the order they were published and none of them
\* twice, though a Resume brings an entry again and a rejected task leaves the window
\* (run_connection of event_source.rs, handle_dispatch and forget_dispatch of
\* gateway/connection.rs).  The size of the window does not matter here: a server that goes
\* back further than the entry at the resume point needs a window that remembers as much.
THEOREM EventsAreDeliveredInOrder ==
  ASSUME Overlap \in 0..1
  PROVE  GatewaySpec => DeliversInOrder
<1>1. GatewayInit => ChannelInv /\ Channel!ChannelInit
  <2> SUFFICES ASSUME GatewayInit PROVE ChannelInv /\ Channel!ChannelInit
    OBVIOUS
  <2>1. accepted = <<>> /\ published = 0
    BY DEF GatewayInit, PumpInit
  <2> QED
    BY <2>1, ChannelInitially, NothingDelivered DEF Channel!ChannelInit
<1>2. GatewayInv /\ ChannelInv /\ [GatewayNext]_gatewayVars => ChannelInv'
  BY ChannelStep
<1>3. ChannelInv /\ [GatewayNext]_gatewayVars => [Channel!ChannelNext]_<<published, Delivered>>
  BY StepImplements
<1> QED
  BY <1>1, <1>2, <1>3, GatewayInvariant, PTL DEF GatewaySpec, DeliversInOrder, Channel!ChannelSpec

-----------------------------------------------------------------------------
(* No event is skipped: what the steps need to know of sequences.          *)

LEMMA AppendFacts ==
  ASSUME NEW S, NEW s \in Seq(S), NEW x \in S
  PROVE  /\ Append(s, x) \in Seq(S) /\ Len(Append(s, x)) = Len(s) + 1
         /\ Append(s, x)[Len(s) + 1] = x
         /\ \A i \in 1..Len(s) : Append(s, x)[i] = s[i]
OBVIOUS

\* The wire after a replay.
LEMMA WireReplayed ==
  ASSUME NEW m, NEW c, wire \in Seq(WireFrames), m = Len(wire),
         NEW again \in Seq(WireFrames), c = Len(again),
         NEW resumed \in WireFrames, wire' = Append(wire \o again, resumed)
  PROVE  /\ m \in Nat /\ c \in Nat
         /\ wire' \in Seq(WireFrames) /\ Len(wire') = m + c + 1
         /\ \A i \in 1..m : wire'[i] = wire[i]
         /\ \A k \in 1..c : wire'[m + k] = again[k]
         /\ wire'[m + c + 1] = resumed
         /\ \A i \in 1..m + c + 1 : i \in 1..m \/ i = m + c + 1 \/ (i - m \in 1..c /\ i = m + (i - m))
<1>1. PICK u : u = wire \o again
  OBVIOUS
<1>2. /\ u \in Seq(WireFrames) /\ Len(u) = m + c /\ m \in Nat /\ c \in Nat
      /\ \A i \in 1..m + c : u[i] = IF i <= m THEN wire[i] ELSE again[i - m]
  BY <1>1, ConcatFacts
<1>3. PICK v : v = Append(u, resumed)
  OBVIOUS
<1>4. /\ v \in Seq(WireFrames) /\ Len(v) = m + c + 1 /\ v[m + c + 1] = resumed
      /\ \A i \in 1..m + c : v[i] = u[i]
  BY <1>2, <1>3, AppendFacts
<1>5. ASSUME NEW i \in 1..m PROVE v[i] = wire[i]
  <2>1. i \in 1..m + c /\ i <= m
    BY <1>2
  <2> QED
    BY <1>2, <1>4, <2>1
<1>6. ASSUME NEW k \in 1..c PROVE v[m + k] = again[k]
  <2>1. m + k \in 1..m + c /\ ~(m + k <= m) /\ (m + k) - m = k
    BY <1>2
  <2> QED
    BY <1>2, <1>4, <2>1
<1>7. wire' = v
  BY <1>1, <1>3
<1>8. \A i \in 1..m + c + 1 : i \in 1..m \/ i = m + c + 1 \/ (i - m \in 1..c /\ i = m + (i - m))
  BY <1>2
<1> QED
  BY <1>2, <1>4, <1>5, <1>6, <1>7, <1>8

-----------------------------------------------------------------------------
(* No event is skipped.                                                    *)

\* Core has taken the task with this key, or is offered it.
Taken(k) == task = k \/ \E i \in 1..Len(accepted) : accepted[i] = k

\* Entry n of the log comes within the first i frames.
Comes(n, i) == \E j \in 1..i : wire[j].op = "dispatch" /\ wire[j].s = n

\* An event is not lost if Core has it or it is on its way.
Here(n, i) == log[n].kind = "EVENT" => Taken(<<"id", log[n].id>>) \/ Comes(n, i)

\* As long as Core rejects nothing: Core has what is up to the resume point; what comes
\* before a frame in the log comes before it on the wire, or has come; and where the
\* session is live, the rest of its log is on the wire.
Passed ==
  sessionId = session => \A n \in 1..Len(log) : n <= lastSequence => Here(n, 0)
NoGap ==
  \A i \in 1..Len(wire) : wire[i].op = "dispatch" =>
    \A n \in 1..Len(log) : n < wire[i].s => Here(n, i - 1)
LiveBringsAll == conn = "live" => \A n \in 1..Len(log) : Here(n, Len(wire))
GapInv == session # None => Passed /\ NoGap /\ LiveBringsAll

\* A key is in the window only where its task was taken.
SeenInv == \A k \in seen : k # NoTask /\ Taken(k)

\* A task in hand is dropped by no step but its own: there is nothing else to be done
\* for its frame.
HandInv ==
  task # NoTask =>
    /\ current = "dispatch"
    /\ actions = <<>> \/ Head(actions) = "DispatchTask"

SkipInv ==
  /\ rejects \in Nat
  /\ HandInv
  /\ rejects = 0 => GapInv /\ SeenInv

-----------------------------------------------------------------------------
(* Steps that lose nothing.                                                *)

\* The frames up to m, without the first d, are kept, as far as they are dispatches.
WireHolds(d, m) ==
  /\ \A i \in 1..Len(wire') : wire'[i].op = "dispatch" => i + d \in 1..m /\ wire'[i] = wire[i + d]
  /\ \A j \in 1..m : wire[j].op = "dispatch" => j - d \in 1..Len(wire') /\ wire'[j - d] = wire[j]
  /\ conn' = "live" => conn = "live" /\ m = Len(wire)

Holds == \E d \in Nat, m \in 0..Len(wire) : WireHolds(d, m)

TakenStays == \A k : k # NoTask /\ Taken(k) => Taken(k)'

ClientHolds ==
  /\ TakenStays
  /\ seen' \subseteq seen
  /\ UNCHANGED <<lastSequence, sessionId>> \/ sessionId' = None

LEMMA IdIsNoTask == \A x : <<"id", x>> # NoTask
BY DEF NoTask

LEMMA GapKept ==
  ASSUME OrderInv, wire' \in Seq(WireFrames), GapInv, ServerKeeps, TakenStays,
         UNCHANGED <<lastSequence, sessionId>> \/ sessionId' = None, Holds
  PROVE  GapInv'
<1> SUFFICES ASSUME session' # None PROVE Passed' /\ NoGap' /\ LiveBringsAll'
  BY DEF GapInv
<1>1. UNCHANGED <<session, log>> /\ session # None /\ Passed /\ NoGap /\ LiveBringsAll
  BY DEF ServerKeeps, GapInv
<1>2. PICK d \in Nat, m \in 0..Len(wire) : WireHolds(d, m)
  BY DEF Holds
<1>3. PICK w \in Nat, v \in Nat : w = Len(wire) /\ v = Len(wire')
  BY DEF OrderInv, ChannelTypes
<1>4. m \in Nat /\ m <= w
  BY <1>2, <1>3
<1>5. ASSUME NEW n, NEW i \in 0..m, Here(n, i), NEW e \in Int, i - d <= e \/ e = v
      PROVE  Here(n, e)'
  <2> SUFFICES ASSUME log[n].kind = "EVENT" PROVE Taken(<<"id", log[n].id>>)' \/ Comes(n, e)'
    BY <1>1 DEF Here
  <2>1. CASE Taken(<<"id", log[n].id>>)
    <3>1. PICK k : k = <<"id", log[n].id>>
      OBVIOUS
    <3>2. k # NoTask /\ Taken(k)
      BY <2>1, <3>1, IdIsNoTask
    <3>3. Taken(k)'
      BY <3>2 DEF TakenStays
    <3> QED
      BY <1>1, <3>1, <3>3
  <2>2. CASE Comes(n, i)
    <3>1. PICK j \in 1..i : wire[j].op = "dispatch" /\ wire[j].s = n
      BY <2>2 DEF Comes
    <3>2. j \in 1..m
      BY <1>4
    <3>3. j - d \in 1..v /\ wire'[j - d] = wire[j]
      BY <1>2, <1>3, <3>1, <3>2 DEF WireHolds
    <3>4. j - d \in 1..e
      BY <1>4, <1>5, <3>3
    <3> QED
      BY <3>1, <3>3, <3>4 DEF Comes
  <2> QED
    BY <1>5, <2>1, <2>2 DEF Here
<1>6. Passed'
  <2> SUFFICES ASSUME sessionId' = session', NEW n \in 1..Len(log'), n <= lastSequence'
               PROVE  Here(n, 0)'
    BY DEF Passed
  <2>1. UNCHANGED <<lastSequence, sessionId>>
    OBVIOUS
  <2>2. Here(n, 0)
    BY <1>1, <2>1 DEF Passed
  <2> QED
    BY <1>4, <1>5, <2>2
<1>7. NoGap'
  <2> SUFFICES ASSUME NEW i \in 1..Len(wire'), wire'[i].op = "dispatch",
                      NEW n \in 1..Len(log'), n < wire'[i].s
               PROVE  Here(n, i - 1)'
    BY DEF NoGap
  <2>1. i + d \in 1..m /\ wire'[i] = wire[i + d] /\ i \in Int
    BY <1>2, <1>3 DEF WireHolds
  <2>2. i + d \in 1..Len(wire) /\ i + d - 1 \in 0..m /\ i + d - 1 - d <= i - 1 /\ i - 1 \in Int
    BY <1>2, <1>3, <1>4, <2>1
  <2>3. Here(n, i + d - 1)
    BY <1>1, <2>1, <2>2 DEF NoGap
  <2> QED
    BY <1>5, <2>2, <2>3
<1>8. LiveBringsAll'
  <2> SUFFICES ASSUME conn' = "live", NEW n \in 1..Len(log')
               PROVE  Here(n, Len(wire))'
    BY DEF LiveBringsAll
  <2>1. conn = "live" /\ m = w
    BY <1>2, <1>3 DEF WireHolds
  <2>2. Here(n, m)
    BY <1>1, <1>3, <2>1 DEF LiveBringsAll
  <2>3. Here(n, v)'
    BY <1>3, <1>4, <1>5, <2>2
  <2> QED
    BY <1>3, <2>3
<1> QED
  BY <1>6, <1>7, <1>8

LEMMA SeenKept == ASSUME SeenInv, TakenStays, seen' \subseteq seen PROVE SeenInv'
BY DEF SeenInv, TakenStays

LEMMA HoldsNothing == ASSUME OrderInv, wire' = <<>>, conn' = "down" PROVE Holds
<1>1. Len(wire) \in Nat /\ 0 \in 0..Len(wire) /\ 0 \in Nat
  BY DEF OrderInv, ChannelTypes
<1>2. WireHolds(0, 0)
  BY DEF WireHolds
<1> QED
  BY <1>1, <1>2 DEF Holds

LEMMA HoldsAll ==
  ASSUME OrderInv, wire' = wire, conn' = "live" => conn = "live"
  PROVE  Holds
<1>1. PICK w \in Nat : w = Len(wire)
  BY DEF OrderInv, ChannelTypes
<1>2. WireHolds(0, w)
  BY <1>1 DEF WireHolds
<1>3. w \in 0..Len(wire) /\ 0 \in Nat
  BY <1>1
<1> QED
  BY <1>2, <1>3 DEF Holds

LEMMA HoldsTail ==
  ASSUME OrderInv, wire # <<>>, Head(wire).op # "dispatch", wire' = Tail(wire), conn' = conn
  PROVE  Holds
<1>1. PICK w \in Nat : w = Len(wire)
  BY DEF OrderInv, ChannelTypes
<1>2. /\ w >= 1 /\ Len(wire') = w - 1 /\ wire[1].op # "dispatch"
      /\ \A i \in 1..w - 1 : wire'[i] = wire[i + 1]
  BY <1>1 DEF OrderInv, ChannelTypes
<1>3. ASSUME NEW j \in 1..w, wire[j].op = "dispatch"
      PROVE  j - 1 \in 1..w - 1 /\ wire'[j - 1] = wire[j]
  <2>1. j # 1
    BY <1>2, <1>3
  <2>2. j - 1 \in 1..w - 1 /\ j - 1 + 1 = j
    BY <2>1
  <2> QED
    BY <1>2, <2>2
<1>4. \A i \in 1..w - 1 : i + 1 \in 1..w
  OBVIOUS
<1>5. WireHolds(1, w)
  BY <1>1, <1>2, <1>3, <1>4 DEF WireHolds
<1>6. w \in 0..Len(wire) /\ 1 \in Nat
  BY <1>1
<1> QED
  BY <1>5, <1>6 DEF Holds

LEMMA HoldsControl ==
  ASSUME OrderInv, NEW f \in WireFrames, f.op # "dispatch", wire' = Append(wire, f),
         conn' = "live" => conn = "live"
  PROVE  Holds
<1>1. PICK w \in Nat : w = Len(wire)
  BY DEF OrderInv, ChannelTypes
<1>2. /\ Len(wire') = w + 1 /\ wire'[w + 1] = f
      /\ \A i \in 1..w : wire'[i] = wire[i]
      /\ \A i \in 1..w + 1 : i \in 1..w \/ i = w + 1
  BY <1>1, WireAppended DEF OrderInv, ChannelTypes
<1>3. WireHolds(0, w)
  BY <1>1, <1>2 DEF WireHolds
<1>4. w \in 0..Len(wire) /\ 0 \in Nat
  BY <1>1
<1> QED
  BY <1>3, <1>4 DEF Holds

LEMMA HoldsCut ==
  ASSUME OrderInv, NEW m \in 0..Len(wire), wire' = SubSeq(wire, 1, m), conn' # "live"
  PROVE  Holds
<1>1. PICK w \in Nat : w = Len(wire)
  BY DEF OrderInv, ChannelTypes
<1>2. m \in Nat /\ m <= w /\ 1 <= m + 1 /\ 1 \in Int
  BY <1>1
<1>3. Len(wire') = m /\ \A i \in 1..m : wire'[i] = wire[i]
  <2>1. Len(wire') = m - 1 + 1 /\ \A i \in 1..m - 1 + 1 : wire'[i] = wire[1 + i - 1]
    BY <1>1, <1>2, SliceFacts DEF OrderInv, ChannelTypes
  <2> QED
    BY <1>2, <2>1
<1>4. WireHolds(0, m)
  BY <1>2, <1>3 DEF WireHolds
<1> QED
  BY <1>4 DEF Holds

\* What stays of the client's memory.
LEMMA TakenUnchanged ==
  ASSUME UNCHANGED accepted, task' = task \/ task = NoTask
  PROVE  TakenStays
BY DEF TakenStays, Taken

LEMMA PumpHolds == ASSUME UNCHANGED pumpVars PROVE ClientHolds
<1>1. UNCHANGED <<lastSequence, sessionId, seen, task, accepted>>
  BY DEF pumpVars
<1> QED
  BY <1>1, TakenUnchanged DEF ClientHolds

LEMMA MemoryHolds == ASSUME UNCHANGED clientMemory PROVE ClientHolds
<1>1. UNCHANGED <<lastSequence, sessionId, seen, task, accepted>>
  BY DEF clientMemory
<1> QED
  BY <1>1, TakenUnchanged DEF ClientHolds

\* A frame that is no dispatch.
LEMMA ControlHolds ==
  ASSUME NEW f, HandleFrame(f), f.op # "dispatch", f.s = None, task = NoTask
  PROVE  ClientHolds
<1>1. KnownSequence(f) = lastSequence
  BY DEF KnownSequence
<1>2. task' = NoTask /\ UNCHANGED <<window, accepted>>
  BY DEF HandleFrame, HandleDispatch
<1>3. UNCHANGED <<lastSequence, sessionId>> \/ sessionId' = None
  <2>1. HandleInvalidSession(f) \/ HandleHello(f) \/ HandleSimple(f)
    BY DEF HandleFrame, HandleDispatch
  <2>2. CASE HandleInvalidSession(f)
    BY <1>1, <2>2 DEF HandleInvalidSession, ClearSession
  <2>3. CASE HandleHello(f)
    BY <1>1, <2>3 DEF HandleHello
  <2>4. CASE HandleSimple(f)
    BY <1>1, <2>4 DEF HandleSimple
  <2> QED
    BY <2>1, <2>2, <2>3, <2>4
<1> QED
  BY <1>2, <1>3, TakenUnchanged DEF ClientHolds, window

-----------------------------------------------------------------------------
(* A task in hand.                                                         *)

LEMMA HandStep ==
  ASSUME QueueInv, HelloFirst, HandInv, [GatewayNext]_gatewayVars
  PROVE  HandInv'
<1>1. phase # "drain" => task = NoTask
  BY DEF QueueInv, NothingLeftOver
<1>2. CASE \/ LoopTop \/ FetchCredentials \/ CredentialsFail \/ Connect \/ ConnectFails
           \/ StopWhileConnecting \/ HelloFails \/ HelloRefused
           \/ StopWhileReading \/ AckTimeout \/ HeartbeatFails \/ HeartbeatTick \/ StreamEnds
           \/ BackoffOver \/ ReceiveAck \/ ReceiveClose \/ Authenticate
  <2>1. phase # "drain" /\ task' = task
    BY <1>2 DEF LoopTop, FetchCredentials, CredentialsFail, Connect, ConnectFails,
                StopWhileConnecting, HelloFails, HelloRefused, StopWhileReading, AckTimeout,
                HeartbeatFails, HeartbeatTick, StreamEnds, BackoffOver, ReceiveAck, ReceiveClose,
                Authenticate, pumpVars
  <2> QED
    BY <1>1, <2>1 DEF HandInv
<1>3. CASE Shutdown \/ PublishEvent \/ SendControl \/ InvalidateSession \/ CloseConnection
           \/ LoseConnection \/ ExpireSession \/ UNCHANGED gatewayVars
  <2>1. UNCHANGED <<task, current, actions>>
    BY <1>3 DEF Shutdown, PublishEvent, SendControl, InvalidateSession, CloseConnection,
                LoseConnection, ExpireSession, gatewayVars, pumpVars, clientVars
  <2> QED
    BY <2>1 DEF HandInv
<1>4. CASE Restart \/ ReconnectRequested \/ SubmitTask \/ SubmitRejected
  <2>1. task' = NoTask
    BY <1>4 DEF Restart, ReconnectRequested, SubmitTask, SubmitRejected, Accept, Reject, pumpVars
  <2> QED
    BY <2>1 DEF HandInv
<1>5. CASE ReceiveHello
  <2>1. wire # <<>> /\ phase = "hello" /\ HandleFrame(Head(wire))
    BY <1>5 DEF ReceiveHello
  <2>2. Head(wire).op # "dispatch"
    BY <2>1 DEF HelloFirst, Control
  <2>3. task' = NoTask
    BY <2>1, <2>2 DEF HandleFrame, HandleDispatch
  <2> QED
    BY <2>3 DEF HandInv
<1>6. CASE ReceiveFrame
  <2>1. PICK f : f = Head(wire)
    OBVIOUS
  <2>2. HandleFrame(f) /\ current' = f.op /\ phase = "read" /\ actions = <<>>
    BY <1>6, <2>1 DEF ReceiveFrame, QueueInv, NothingLeftOver
  <2>3. CASE HandleDispatch(f)
    <3>1. f.op = "dispatch" /\ (task' = NoTask \/ actions' = Append(<<>>, "DispatchTask"))
      BY <2>2, <2>3 DEF HandleDispatch, Push
    <3>2. Append(<<>>, "DispatchTask") = <<"DispatchTask">> /\ Head(<<"DispatchTask">>) = "DispatchTask"
      OBVIOUS
    <3> QED
      BY <2>2, <3>1, <3>2 DEF HandInv
  <2>4. CASE ~HandleDispatch(f)
    BY <2>2, <2>4 DEF HandleFrame, HandInv
  <2> QED
    BY <2>3, <2>4
<1>7. CASE DrainAction
  <2>1. actions # <<>> /\ actions' = Tail(actions)
    BY <1>7 DEF DrainAction, PopAction
  <2>2. actions' = <<>>
    <3>1. PICK a : actions = <<a>>
      BY <2>1 DEF QueueInv
    <3> QED
      BY <2>1, <3>1
  <2>3. task' = NoTask \/ UNCHANGED <<task, current>>
    BY <1>7 DEF DrainAction
  <2> QED
    BY <2>2, <2>3 DEF HandInv
<1>8. CASE AbortTask
  <2>1. task' = NoTask
    BY <1>1, <1>8 DEF AbortTask
  <2> QED
    BY <2>1 DEF HandInv
<1> QED
  BY <1>2, <1>3, <1>4, <1>5, <1>6, <1>7, <1>8 DEF GatewayNext, ClientStep, EnvironmentStep

-----------------------------------------------------------------------------
(* Steps that take something.                                              *)

\* The frame in front is a dispatch: what comes before it in the log has come, it is
\* taken itself, and what was behind it is one step nearer.
LEMMA GapTaken ==
  ASSUME OrderInv, GapInv, SeenInv, wire # <<>>, Head(wire).op = "dispatch", TakeFrame,
         HandleFrame(Head(wire)), task = NoTask
  PROVE  GapInv' /\ SeenInv'
<1>1. PICK f : f = wire[1]
  OBVIOUS
<1>2. PICK w \in Nat : w = Len(wire)
  BY DEF OrderInv, ChannelTypes
<1>3. /\ w >= 1 /\ Head(wire) = f /\ Len(wire') = w - 1 /\ conn' = conn
      /\ \A i \in 1..w - 1 : wire'[i] = wire[i + 1] /\ i + 1 \in 1..w /\ i \in Nat
  BY <1>1, <1>2 DEF OrderInv, ChannelTypes, TakeFrame
<1>4. f.op = "dispatch" /\ HandleFrame(f)
  BY <1>3
<1>5. UNCHANGED <<session, log, published>>
  BY DEF TakeFrame, sessionVars
<1>6. /\ f.s \in Nat \ {0} /\ f.id \in 0..published /\ (f.id # None <=> f.t \in {"EVENT", "UNKNOWN"})
      /\ InLog(1)
  BY <1>1, <1>2, <1>3, <1>4 DEF OrderInv, FrameInv
<1>7. /\ UNCHANGED accepted
      /\ lastSequence' = f.s
      /\ \/ UNCHANGED <<seen, order>> /\ task' = NoTask /\ (f.t = "UNKNOWN" \/ Key(f) \in seen)
         \/ f.t # "UNKNOWN" /\ RememberDedupKey(Key(f)) /\ task' = Key(f)
  BY <1>4, <1>6, DispatchHandled DEF KnownSequence, None
<1>8. TakenStays
  BY <1>7, TakenUnchanged
<1>9. Key(f) # NoTask
  BY DEF Key, NoTask
<1>10. SeenInv'
  <2>1. seen' \subseteq seen \cup {Key(f)} /\ (seen' # seen => task' = Key(f))
    BY <1>7 DEF RememberDedupKey
  <2>2. ASSUME NEW k \in seen' PROVE k # NoTask /\ Taken(k)'
    <3>1. CASE k \in seen
      BY <1>8, <3>1 DEF SeenInv, TakenStays
    <3>2. CASE k \notin seen
      BY <1>9, <2>1, <2>2, <3>2 DEF Taken
    <3> QED
      BY <3>1, <3>2
  <2> QED
    BY <2>2 DEF SeenInv
<1>11. ASSUME f.t = "EVENT" PROVE Taken(<<"id", f.id>>)'
  <2>1. Key(f) = <<"id", f.id>>
    BY <1>6, <1>11 DEF Key
  <2>2. CASE task' = Key(f)
    BY <2>1, <2>2 DEF Taken
  <2>3. CASE Key(f) \in seen
    <3>1. PICK k : k = Key(f)
      OBVIOUS
    <3>2. k # NoTask /\ Taken(k)
      BY <2>3, <3>1 DEF SeenInv
    <3>3. Taken(k)'
      BY <1>8, <3>2 DEF TakenStays
    <3> QED
      BY <2>1, <3>1, <3>3
  <2> QED
    BY <1>7, <1>11, <2>2, <2>3
<1>12. ASSUME session' # None PROVE Passed' /\ NoGap' /\ LiveBringsAll'
  <2>1. session # None /\ NoGap /\ LiveBringsAll
    BY <1>5, <1>12 DEF GapInv
  <2>2. log[f.s].kind = f.t /\ log[f.s].id = f.id
    BY <1>1, <1>6, <2>1 DEF InLog
  <2>3. Here(f.s, 0)'
    BY <1>5, <1>11, <2>2 DEF Here
  <2>4. ASSUME NEW n \in 1..Len(log), NEW i \in 0..w, i >= 1 \/ n < f.s, Here(n, i),
               NEW e \in Nat, e = i - 1 \/ i = 0
        PROVE  Here(n, e)'
    <3> SUFFICES ASSUME log[n].kind = "EVENT" PROVE Taken(<<"id", log[n].id>>)' \/ Comes(n, e)'
      BY <1>5 DEF Here
    <3>1. CASE Taken(<<"id", log[n].id>>)
      <4>1. PICK k : k = <<"id", log[n].id>>
        OBVIOUS
      <4>2. k # NoTask /\ Taken(k)
        BY <3>1, <4>1, IdIsNoTask
      <4>3. Taken(k)'
        BY <1>8, <4>2 DEF TakenStays
      <4> QED
        BY <1>5, <4>1, <4>3
    <3>2. CASE Comes(n, i)
      <4>1. PICK j \in 1..i : wire[j].op = "dispatch" /\ wire[j].s = n
        BY <3>2 DEF Comes
      <4>2. CASE j = 1
        BY <1>1, <1>5, <1>11, <2>2, <4>1, <4>2
      <4>3. CASE j # 1
        <5>1. j - 1 \in 1..w - 1 /\ j - 1 + 1 = j /\ j - 1 \in 1..e
          BY <1>2, <2>4, <4>1, <4>3
        <5>2. wire'[j - 1] = wire[j]
          BY <1>3, <5>1
        <5> QED
          BY <4>1, <5>1, <5>2 DEF Comes
      <4> QED
        BY <4>2, <4>3
    <3> QED
      BY <2>4, <3>1, <3>2 DEF Here
  <2>5. \A n \in 1..Len(log) : n < f.s => Here(n, 0)
    <3>1. 1 \in 1..Len(wire) /\ 1 - 1 = 0
      BY <1>2, <1>3
    <3> QED
      BY <1>1, <1>4, <2>1, <3>1 DEF NoGap
  <2>6. Passed'
    <3> SUFFICES ASSUME NEW n \in 1..Len(log), n <= f.s PROVE Here(n, 0)'
      BY <1>5, <1>7 DEF Passed
    <3>1. CASE n = f.s
      BY <2>3, <3>1
    <3>2. CASE n < f.s
      BY <1>2, <2>4, <2>5, <3>2
    <3> QED
      BY <1>6, <3>1, <3>2
  <2>7. NoGap'
    <3> SUFFICES ASSUME NEW i \in 1..w - 1, wire'[i].op = "dispatch",
                        NEW n \in 1..Len(log), n < wire'[i].s
                 PROVE  Here(n, i - 1)'
      BY <1>3, <1>5 DEF NoGap
    <3>1. wire'[i] = wire[i + 1] /\ i + 1 \in 1..Len(wire) /\ i + 1 - 1 = i
          /\ i \in 0..w /\ i >= 1 /\ i - 1 \in Nat
      BY <1>2, <1>3
    <3>2. Here(n, i)
      BY <2>1, <3>1 DEF NoGap
    <3> QED
      BY <2>4, <3>1, <3>2
  <2>8. LiveBringsAll'
    <3> SUFFICES ASSUME conn' = "live", NEW n \in 1..Len(log) PROVE Here(n, w - 1)'
      BY <1>3, <1>5 DEF LiveBringsAll
    <3>1. Here(n, w) /\ w \in 0..w /\ w >= 1 /\ w - 1 \in Nat
      BY <1>2, <1>3, <2>1 DEF LiveBringsAll
    <3> QED
      BY <2>4, <3>1
  <2> QED
    BY <2>6, <2>7, <2>8
<1> QED
  BY <1>10, <1>12 DEF GapInv

\* The Gateway publishes into a session all of which a live connection brings.
LEMMA GapPublished ==
  ASSUME OrderInv, GapInv, PublishEvent
  PROVE  GapInv'
<1>1. PICK kind \in {"EVENT", "UNKNOWN"} :
        /\ log' = Append(log, Published(Event(Len(log) + 1, kind, published + 1)))
        /\ Push2Client(Event(Len(log) + 1, kind, published + 1))
  BY DEF PublishEvent
<1>2. PICK e : e = Event(Len(log) + 1, kind, published + 1)
  OBVIOUS
<1>3. PICK l \in Nat, w \in Nat : l = Len(log) /\ w = Len(wire)
  BY DEF OrderInv, ChannelTypes
<1>4. e.op = "dispatch" /\ e.s = l + 1 /\ e \in WireFrames
  <2>1. kind \in EventTypes /\ l + 1 \in Nat /\ published + 1 \in Nat
    BY DEF EventTypes, OrderInv, ChannelTypes
  <2> QED
    BY <1>2, <1>3, <2>1, EventFrame
<1>5. /\ Len(log') = l + 1 /\ \A n \in 1..l : log'[n] = log[n]
      /\ \A n \in 1..l + 1 : n \in 1..l \/ n = l + 1
  BY <1>1, <1>3 DEF OrderInv, ChannelTypes
<1>6. session # None /\ UNCHANGED <<lastSequence, sessionId, task, accepted, session, conn>>
  BY DEF PublishEvent, pumpVars
<1>7. Passed /\ NoGap /\ LiveBringsAll
  BY <1>6 DEF GapInv
<1>8. PICK v \in Nat :
        /\ v = Len(wire') /\ v >= w
        /\ \A i \in 1..w : wire'[i] = wire[i]
        /\ \A i \in 1..v : i \in 1..w \/ (conn = "live" /\ i = w + 1 /\ wire'[i] = e)
        /\ conn = "live" => v = w + 1
  <2>1. wire \in Seq(WireFrames)
    BY DEF OrderInv, ChannelTypes
  <2>2. CASE conn = "live"
    <3>1. wire' = Append(wire, e)
      BY <1>1, <1>2, <2>2 DEF Push2Client
    <3>2. /\ Len(wire') = w + 1 /\ wire'[w + 1] = e
          /\ \A i \in 1..w : wire'[i] = wire[i]
          /\ \A i \in 1..w + 1 : i \in 1..w \/ i = w + 1
      BY <1>3, <1>4, <2>1, <3>1, WireAppended
    <3>3. w + 1 \in Nat /\ w + 1 >= w
      OBVIOUS
    <3> QED
      BY <2>2, <3>2, <3>3
  <2>3. CASE conn # "live"
    <3>1. wire' = wire
      BY <1>1, <2>3 DEF Push2Client
    <3> QED
      BY <1>3, <2>3, <3>1
  <2> QED
    BY <2>2, <2>3
<1>9. ASSUME NEW n \in 1..l, NEW i \in 0..w, Here(n, i), NEW x \in Nat, i <= x
      PROVE  Here(n, x)'
  <2>1. Taken(<<"id", log[n].id>>) => Taken(<<"id", log[n].id>>)'
    BY <1>5, <1>6 DEF Taken
  <2>2. ASSUME Comes(n, i) PROVE Comes(n, x)'
    <3>1. PICK j \in 1..i : wire[j].op = "dispatch" /\ wire[j].s = n
      BY <2>2 DEF Comes
    <3>2. j \in 1..w /\ j \in 1..x
      BY <1>9, <3>1
    <3> QED
      BY <1>8, <3>1, <3>2 DEF Comes
  <2> QED
    BY <1>5, <1>9, <2>1, <2>2 DEF Here
<1>10. Passed'
  <2> SUFFICES ASSUME sessionId = session, NEW n \in 1..l + 1, n <= lastSequence
               PROVE  Here(n, 0)'
    BY <1>5, <1>6 DEF Passed
  <2>1. lastSequence \in 0..l
    BY <1>3, <1>6 DEF OrderInv, PointInv
  <2>2. n \in 1..l
    BY <1>5, <2>1
  <2>3. Here(n, 0)
    BY <1>3, <1>7, <2>2 DEF Passed
  <2> QED
    BY <1>9, <2>2, <2>3
<1>11. NoGap'
  <2> SUFFICES ASSUME NEW i \in 1..v, wire'[i].op = "dispatch",
                      NEW n \in 1..l + 1, n < wire'[i].s
               PROVE  Here(n, i - 1)'
    BY <1>5, <1>8 DEF NoGap
  <2>1. CASE i \in 1..w
    <3>1. wire'[i] = wire[i] /\ i - 1 \in 0..w /\ i - 1 \in Nat
      BY <1>8, <2>1
    <3>2. wire[i].s \in 1..l
      BY <1>3, <1>6, <2>1, <3>1 DEF OrderInv, FrameInv, InLog
    <3>3. n \in 1..l
      BY <3>1, <3>2
    <3>4. Here(n, i - 1)
      BY <1>3, <1>7, <2>1, <3>1, <3>3 DEF NoGap
    <3> QED
      BY <1>9, <3>1, <3>3, <3>4
  <2>2. CASE conn = "live" /\ i = w + 1 /\ wire'[i] = e
    <3>1. n \in 1..l /\ i - 1 = w /\ w \in 0..w
      BY <1>4, <2>2
    <3>2. Here(n, w)
      BY <1>3, <1>7, <2>2, <3>1 DEF LiveBringsAll
    <3> QED
      BY <1>9, <3>1, <3>2
  <2> QED
    BY <1>8, <2>1, <2>2
<1>12. LiveBringsAll'
  <2> SUFFICES ASSUME conn = "live", NEW n \in 1..l + 1 PROVE Here(n, v)'
    BY <1>5, <1>6, <1>8 DEF LiveBringsAll
  <2>1. CASE n \in 1..l
    <3>1. Here(n, w) /\ w \in 0..w
      BY <1>3, <1>7, <2>1 DEF LiveBringsAll
    <3> QED
      BY <1>8, <1>9, <2>1, <3>1
  <2>2. CASE n = l + 1
    <3>1. v = w + 1 /\ v \in 1..v
      BY <1>8
    <3>2. wire'[v].op = "dispatch" /\ wire'[v].s = n
      BY <1>4, <1>8, <2>2, <3>1
    <3> QED
      BY <3>1, <3>2 DEF Here, Comes
  <2> QED
    BY <1>5, <2>1, <2>2
<1> QED
  BY <1>10, <1>11, <1>12 DEF GapInv

\* A new session has no event yet.
LEMMA GapIdentified ==
  ASSUME OrderInv, OnIdentify
  PROVE  GapInv'
<1>1. PICK ready : ready = Ready(sessions + 1)
  OBVIOUS
<1>2. log' = <<Published(ready)>> /\ Published(ready).kind = "READY"
  BY <1>1 DEF OnIdentify, Ready, Dispatch, Published
<1>3. \A n \in 1..Len(log') : log'[n].kind # "EVENT"
  BY <1>2
<1>4. \A n \in 1..Len(log') : \A i : Here(n, i)'
  BY <1>3 DEF Here
<1>5. PICK v : v = Len(wire')
  OBVIOUS
<1>6. Passed' /\ NoGap'
  BY <1>4 DEF Passed, NoGap
<1>7. LiveBringsAll'
  BY <1>3 DEF LiveBringsAll, Here
<1> QED
  BY <1>6, <1>7 DEF GapInv

\* A Resume that is granted is answered with the events after the resume point ...
Brings(again) ==
  \A n \in 1..Len(log) : log[n].kind = "EVENT" /\ n > lastSequence =>
    \E k \in 1..Len(again) : again[k].s = n

LEMMA ResumeBrings ==
  ASSUME OrderInv, Overlap \in Nat, session # None, sessionId = session,
         NEW D, D = {i \in 1..Len(log) : i > lastSequence - Overlap /\ log[i].id # None},
         NEW again,
         again = [k \in 1..Len(Ascending(D)) |->
                    Event(Ascending(D)[k], log[Ascending(D)[k]].kind, log[Ascending(D)[k]].id)]
  PROVE  Brings(again)
<1>1. PICK l \in Nat : l = Len(log)
  BY DEF OrderInv, ChannelTypes
<1>2. PICK missed : missed = Ascending(D)
  OBVIOUS
<1>3. PICK c : c = Len(missed)
  OBVIOUS
<1>4. D \in SUBSET (1..l)
  BY <1>1
<1>5. c = Cardinality(D) /\ c \in Nat /\ \A k \in 1..c : missed[k] \in D
  BY <1>1, <1>2, <1>3, <1>4, AscendingFacts
<1>6. ASSUME NEW n \in D PROVE \E k \in 1..c : missed[k] = n
  <2>1. \E k \in 1..Cardinality(D) : Ascending(D)[k] = n
    BY <1>1, <1>4, AscendingHas
  <2> QED
    BY <1>2, <1>5, <2>1
<1>7. ASSUME NEW n \in 1..l, log[n].kind = "EVENT", n > lastSequence
      PROVE  \E k \in 1..Len(again) : again[k].s = n
  <2>1. log[n].id # None
    BY <1>1, <1>7 DEF OrderInv, LogInv
  <2>2. lastSequence \in Int
    BY DEF OrderInv, PointInv
  <2>3. n > lastSequence - Overlap
    BY <1>7, <2>2
  <2>4. n \in D
    BY <1>1, <2>1, <2>3
  <2>5. PICK k \in 1..c : missed[k] = n
    BY <1>6, <2>4
  <2>6. again = [i \in 1..c |-> Event(missed[i], log[missed[i]].kind, log[missed[i]].id)]
    BY <1>2, <1>3
  <2>7. PICK f : f = Event(n, log[n].kind, log[n].id)
    OBVIOUS
  <2>8. Len(again) = c /\ again[k] = f
    BY <1>5, <2>5, <2>6, <2>7
  <2>9. f.s = n
    BY <2>7 DEF Event, Dispatch
  <2> QED
    BY <2>8, <2>9
<1> QED
  BY <1>1, <1>7 DEF Brings

\* ... in their order, so that each comes behind those it follows.
LEMMA GapResumed ==
  ASSUME OrderInv, GapInv, Quiet, session # None, sessionId = session,
         UNCHANGED <<session, lastSequence, sessionId, task, accepted>>,
         NEW again, Replay(again), Brings(again),
         NEW resumed, resumed = Resumed(Len(log) + 1),
         wire' = Append(wire \o again, resumed),
         log' = Append(log, Published(resumed))
  PROVE  GapInv'
<1>1. PICK l \in Nat, w \in Nat : l = Len(log) /\ w = Len(wire)
  BY DEF OrderInv, ChannelTypes
<1>2. log' = Append(log, Published(resumed)) /\ wire' = Append(wire \o again, resumed)
  OBVIOUS
<1>4. PICK c \in Nat : c = Len(again)
  BY DEF Replay
<1>5. /\ again \in Seq(WireFrames)
      /\ \A k \in 1..c : again[k].op = "dispatch" /\ again[k].s \in 1..l
      /\ \A k, m \in 1..c : k < m => again[k].s < again[m].s
      /\ \A n \in 1..l : log[n].kind = "EVENT" /\ n > lastSequence => \E k \in 1..c : again[k].s = n
  BY <1>1, <1>4 DEF Replay, Brings
<1>6. resumed.op = "dispatch" /\ resumed.t = "RESUMED" /\ resumed.s = l + 1 /\ resumed \in WireFrames
  <2>1. resumed = Dispatch("RESUMED", l + 1, None, None, FALSE)
    BY <1>1 DEF Resumed
  <2>2. "RESUMED" \in EventTypes /\ l + 1 \in Nat /\ None \in Nat
    BY DEF EventTypes, None
  <2>3. resumed \in WireFrames
    BY <2>1, <2>2, DispatchFrame
  <2> QED
    BY <2>1, <2>3 DEF Dispatch
<1>7. /\ Len(log') = l + 1 /\ log'[l + 1].kind = "RESUMED"
      /\ \A n \in 1..l : log'[n] = log[n]
      /\ \A n \in 1..l + 1 : n \in 1..l \/ n = l + 1
  <2>1. Published(resumed).kind = "RESUMED"
    BY <1>6 DEF Published
  <2> QED
    BY <1>1, <1>2, <2>1 DEF OrderInv, ChannelTypes
<1>8. /\ Len(wire') = w + c + 1 /\ wire'[w + c + 1] = resumed
      /\ \A i \in 1..w : wire'[i] = wire[i]
      /\ \A k \in 1..c : wire'[w + k] = again[k]
      /\ \A i \in 1..w + c + 1 : i \in 1..w \/ i = w + c + 1 \/ (i - w \in 1..c /\ i = w + (i - w))
  <2>1. wire \in Seq(WireFrames)
    BY DEF OrderInv, ChannelTypes
  <2> QED
    BY <1>1, <1>2, <1>4, <1>5, <1>6, <2>1, WireReplayed
<1>9. Passed
  BY DEF GapInv
<1>10. ASSUME NEW n \in 1..l, NEW k \in 1..c + 1, k = c + 1 \/ n < again[k].s,
              NEW x \in Nat, x = w + k - 1 \/ x = w + c + 1
       PROVE  Here(n, x)'
  <2> SUFFICES ASSUME log[n].kind = "EVENT" PROVE Taken(<<"id", log[n].id>>)' \/ Comes(n, x)'
    BY <1>7 DEF Here
  <2>1. CASE n <= lastSequence
    <3>1. Here(n, 0)
      BY <1>1, <1>9, <2>1 DEF Passed
    <3>2. ~Comes(n, 0)
      BY DEF Comes
    <3> QED
      BY <1>7, <3>1, <3>2 DEF Here, Taken
  <2>2. CASE ~(n <= lastSequence)
    <3>1. lastSequence \in Int
      BY DEF OrderInv, PointInv
    <3>2. PICK m \in 1..c : again[m].s = n
      <4>1. n > lastSequence
        BY <2>2, <3>1
      <4> QED
        BY <1>5, <4>1
    <3>3. m < k
      <4>1. CASE k = c + 1
        BY <3>2, <4>1
      <4>2. CASE k \in 1..c
        <5>1. again[k].s \in Int /\ again[m].s \in Int /\ again[m].s < again[k].s
          BY <1>5, <1>10, <3>2, <4>2
        <5>2. ~(k < m) /\ k # m
          BY <1>5, <4>2, <5>1
        <5> QED
          BY <4>2, <5>2
      <4> QED
        BY <4>1, <4>2
    <3>4. w + m \in 1..x
      BY <1>10, <3>3
    <3>5. wire'[w + m].op = "dispatch" /\ wire'[w + m].s = n
      BY <1>5, <1>8, <3>2
    <3> QED
      BY <3>4, <3>5 DEF Comes
  <2> QED
    BY <2>1, <2>2
<1>11. Passed'
  <2> SUFFICES ASSUME NEW n \in 1..l + 1, n <= lastSequence PROVE Here(n, 0)'
    BY <1>7 DEF Passed
  <2>1. n \in 1..l
    BY <1>1, <1>7 DEF OrderInv, PointInv
  <2>2. Here(n, 0) /\ ~Comes(n, 0)
    BY <1>1, <1>9, <2>1 DEF Passed, Comes
  <2>3. Taken(<<"id", log[n].id>>) => Taken(<<"id", log[n].id>>)'
    BY <1>7, <2>1 DEF Taken
  <2> QED
    BY <1>7, <2>1, <2>2, <2>3 DEF Here
<1>12. NoGap'
  <2> SUFFICES ASSUME NEW i \in 1..w + c + 1, wire'[i].op = "dispatch",
                      NEW n \in 1..l + 1, n < wire'[i].s
               PROVE  Here(n, i - 1)'
    BY <1>7, <1>8 DEF NoGap
  <2>1. i \notin 1..w
    BY <1>1, <1>8 DEF Quiet
  <2>2. CASE i = w + c + 1
    <3>1. n \in 1..l /\ c + 1 \in 1..c + 1 /\ i - 1 = w + (c + 1) - 1 /\ i - 1 \in Nat
      BY <1>6, <1>8, <2>2
    <3> QED
      BY <1>10, <3>1
  <2>3. CASE i - w \in 1..c /\ i = w + (i - w)
    <3>1. wire'[i].s = again[i - w].s /\ again[i - w].s \in 1..l
      BY <1>5, <1>8, <2>3
    <3>2. i - w \in 1..c + 1 /\ i - 1 = w + (i - w) - 1 /\ i - 1 \in Nat
      BY <2>3
    <3>3. PICK e : e = again[i - w].s
      OBVIOUS
    <3>4. e \in 1..l /\ n < e
      BY <3>1, <3>3
    <3>5. n \in 1..l /\ n < again[i - w].s
      BY <3>3, <3>4
    <3> QED
      BY <1>10, <3>2, <3>5
  <2> QED
    BY <1>8, <2>1, <2>2, <2>3
<1>13. LiveBringsAll'
  <2> SUFFICES ASSUME NEW n \in 1..l + 1 PROVE Here(n, w + c + 1)'
    BY <1>7, <1>8 DEF LiveBringsAll
  <2>1. CASE n \in 1..l
    <3>1. c + 1 \in 1..c + 1 /\ w + c + 1 \in Nat
      OBVIOUS
    <3> QED
      BY <1>10, <2>1, <3>1
  <2>2. CASE n = l + 1
    BY <1>7, <2>2 DEF Here
  <2> QED
    BY <1>7, <2>1, <2>2
<1> QED
  BY <1>11, <1>12, <1>13 DEF GapInv


-----------------------------------------------------------------------------
(* The steps of the source.                                                *)

LEMMA SkipKept ==
  ASSUME OrderInv, GapInv, SeenInv, wire' \in Seq(WireFrames), ServerKeeps, ClientHolds, Holds
  PROVE  GapInv' /\ SeenInv'
BY GapKept, SeenKept DEF ClientHolds

LEMMA GapAuth ==
  ASSUME OrderInv, GapInv, SeenInv, Quiet, Overlap \in 0..1, wire' \in Seq(WireFrames),
         NEW a \in {"Identify", "Resume"}, SendAuth(a), a = "Resume" => sessionId # None,
         UNCHANGED clientMemory
  PROVE  GapInv' /\ SeenInv'
<1>1. ClientHolds
  BY MemoryHolds
<1>2. SeenInv'
  BY <1>1, SeenKept DEF ClientHolds
<1>3. CASE Lost
  <2>1. wire' = wire /\ conn' = conn /\ UNCHANGED sessionVars
    BY <1>3 DEF Lost, network
  <2>2. Holds /\ ServerKeeps
    BY <2>1, HoldsAll, SessionRests
  <2> QED
    BY <1>1, <2>2, SkipKept
<1>4. CASE OnIdentify
  BY <1>2, <1>4, GapIdentified
<1>5. CASE a = "Resume" /\ OnResume(sessionId, lastSequence)
  <2>1. PICK D : D = {i \in 1..Len(log) : i > lastSequence - Overlap /\ log[i].id # None}
    OBVIOUS
  <2>2. PICK again :
          again = [n \in 1..Len(Ascending(D)) |->
                     Event(Ascending(D)[n], log[Ascending(D)[n]].kind, log[Ascending(D)[n]].id)]
    OBVIOUS
  <2>3. PICK resumed : resumed = Resumed(Len(log) + 1)
    OBVIOUS
  <2>4. \/ /\ sessionId = session
           /\ wire' = Append(wire \o again, resumed)
           /\ log' = Append(log, Published(resumed))
           /\ UNCHANGED <<session, sessions, published>>
        \/ /\ wire' = Append(wire, Control("invalid", FALSE))
           /\ UNCHANGED <<conn, sessionVars>>
    BY <1>5, <2>1, <2>2, <2>3 DEF OnResume
  <2>5. CASE /\ sessionId = session
             /\ wire' = Append(wire \o again, resumed)
             /\ log' = Append(log, Published(resumed))
             /\ UNCHANGED <<session, sessions, published>>
    <3>1. session # None
      BY <1>5, <2>5
    <3>2. Replay(again)
      BY <2>1, <2>2, <2>5, <3>1, ResumeReplays
    <3>3. Overlap \in Nat
      OBVIOUS
    <3>4. Brings(again)
      BY <2>1, <2>2, <2>5, <3>1, <3>3, ResumeBrings
    <3>5. UNCHANGED <<lastSequence, sessionId, task, accepted>>
      BY DEF clientMemory
    <3>6. GapInv'
      BY <2>3, <2>5, <3>1, <3>2, <3>4, <3>5, GapResumed
    <3> QED
      BY <1>2, <3>6
  <2>6. CASE wire' = Append(wire, Control("invalid", FALSE)) /\ UNCHANGED <<conn, sessionVars>>
    <3>1. PICK f : f = Control("invalid", FALSE)
      OBVIOUS
    <3>2. f \in WireFrames /\ f.op # "dispatch"
      <4>1. "invalid" \in Opcodes /\ FALSE \in BOOLEAN
        BY DEF Opcodes
      <4> QED
        BY <3>1, <4>1, ControlFrame
    <3>3. wire' = Append(wire, f) /\ conn' = conn
      BY <2>6, <3>1
    <3>4. Holds /\ ServerKeeps
      BY <2>6, <3>2, <3>3, HoldsControl, SessionRests
    <3> QED
      BY <1>1, <3>4, SkipKept
  <2> QED
    BY <2>4, <2>5, <2>6
<1> QED
  BY <1>3, <1>4, <1>5 DEF SendAuth

\* The connection ends, and with it what is on the way; the server keeps its log.
LEMMA SkipEnding ==
  ASSUME OrderInv, HandInv, GapInv, SeenInv,
         \/ CredentialsFail \/ ConnectFails \/ StopWhileConnecting \/ HelloFails \/ HelloRefused
         \/ StopWhileReading \/ AckTimeout \/ HeartbeatFails \/ StreamEnds \/ ReceiveClose
         \/ ReconnectRequested \/ AbortTask
         \/ LoopTop /\ Ending
         \/ BackoffOver /\ Ending
         \/ Authenticate /\ Ending
         \/ DrainAction /\ Retry
  PROVE  GapInv' /\ SeenInv'
<1>1. ASSUME Ending, ClientHolds PROVE GapInv' /\ SeenInv'
  <2>1. wire' = <<>> /\ conn' = "down" /\ UNCHANGED sessionVars
    BY <1>1, AbortsQuietly DEF Ending, End, Retry, HangUp
  <2>2. wire' \in Seq(WireFrames)
    BY <2>1
  <2>3. Holds /\ ServerKeeps
    BY <2>1, HoldsNothing, SessionRests
  <2> QED
    BY <1>1, <2>2, <2>3, SkipKept
<1>2. CASE \/ CredentialsFail \/ ConnectFails \/ StopWhileConnecting \/ HelloFails \/ HelloRefused
           \/ StopWhileReading \/ AckTimeout \/ HeartbeatFails \/ StreamEnds
  <2>1. Ending
    BY <1>2 DEF CredentialsFail, ConnectFails, StopWhileConnecting, HelloFails, HelloRefused,
                StopWhileReading, AckTimeout, HeartbeatFails, StreamEnds, Ending, Ended
  <2>2. UNCHANGED pumpVars
    BY <1>2 DEF CredentialsFail, ConnectFails, StopWhileConnecting, HelloFails, HelloRefused,
                StopWhileReading, AckTimeout, HeartbeatFails, StreamEnds
  <2> QED
    BY <1>1, <2>1, <2>2, PumpHolds
<1>3. CASE (LoopTop /\ Ending) \/ (BackoffOver /\ Ending)
  <2>1. UNCHANGED pumpVars
    BY <1>3 DEF LoopTop, BackoffOver
  <2> QED
    BY <1>1, <1>3, <2>1, PumpHolds
<1>4. CASE ReceiveClose
  <2>1. Ending
    BY <1>4 DEF ReceiveClose, Ending, Ended
  <2>2. UNCHANGED <<seen, order, task, accepted>> /\ (UNCHANGED resumePoint \/ ClearSession)
    BY <1>4 DEF ReceiveClose, window
  <2>3. ClientHolds
    BY <2>2, TakenUnchanged DEF ClientHolds, resumePoint, ClearSession
  <2> QED
    BY <1>1, <2>1, <2>3
<1>5. CASE Authenticate /\ Ending
  <2>1. UNCHANGED clientMemory
    BY <1>5 DEF Authenticate, clientMemory, resumePoint, window
  <2> QED
    BY <1>1, <1>5, <2>1, MemoryHolds
<1>6. CASE (DrainAction /\ Retry) \/ ReconnectRequested
  <2>1. Ending /\ phase' # "drain"
    BY <1>6 DEF ReconnectRequested, Ending, Retry
  <2>2. task = NoTask
    <3>1. CASE ReconnectRequested
      BY <3>1 DEF ReconnectRequested, HandInv
    <3>2. CASE DrainAction
      <4>1. actions # <<>> /\ Head(actions) # "DispatchTask"
        BY <2>1, <1>6, <3>2 DEF DrainAction, PopAction, Retry, ReconnectRequested
      <4> QED
        BY <4>1 DEF HandInv
    <3> QED
      BY <1>6, <3>1, <3>2
  <2>3. UNCHANGED <<lastSequence, sessionId, seen, accepted>>
    BY <1>6 DEF DrainAction, ReconnectRequested, resumePoint, window
  <2>4. ClientHolds
    BY <2>2, <2>3, TakenUnchanged DEF ClientHolds
  <2> QED
    BY <1>1, <2>1, <2>4
<1>7. CASE AbortTask
  <2>1. UNCHANGED <<lastSequence, sessionId, seen, accepted, task>> /\ Ending
    BY <1>7, AbortsQuietly DEF Ending, resumePoint, window
  <2>2. ClientHolds
    BY <2>1, TakenUnchanged DEF ClientHolds
  <2> QED
    BY <1>1, <2>1, <2>2
<1> QED
  BY <1>2, <1>3, <1>4, <1>5, <1>6, <1>7

\* Nothing moves on the wire.
LEMMA SkipIdle ==
  ASSUME OrderInv, QueueInv, GapInv, SeenInv, wire' \in Seq(WireFrames),
         \/ LoopTop /\ ~Ending
         \/ BackoffOver /\ ~Ending
         \/ FetchCredentials \/ Shutdown \/ Restart \/ ExpireSession
         \/ UNCHANGED gatewayVars
  PROVE  GapInv' /\ SeenInv'
<1>1. UNCHANGED network /\ ServerKeeps
  <2>1. CASE ExpireSession
    BY <2>1 DEF ExpireSession, ServerKeeps
  <2>2. CASE ~ExpireSession
    <3>1. UNCHANGED <<network, sessionVars>>
      BY <2>2 DEF LoopTop, BackoffOver, Ending, Ended, FetchCredentials, Shutdown, Restart,
                  gatewayVars, serverVars
    <3> QED
      BY <3>1, SessionRests
  <2> QED
    BY <2>1, <2>2
<1>2. Holds
  BY <1>1, HoldsAll DEF network
<1>3. ClientHolds
  <2>1. CASE Restart
    <3>1. task = NoTask
      BY <2>1 DEF Restart, Ended, QueueInv, NothingLeftOver
    <3>2. seen' = {} /\ sessionId' = None /\ UNCHANGED accepted
      BY <2>1 DEF Restart, ClearSession
    <3> QED
      BY <3>1, <3>2, TakenUnchanged DEF ClientHolds
  <2>2. CASE ~Restart
    <3>1. UNCHANGED pumpVars
      BY <2>2 DEF LoopTop, BackoffOver, FetchCredentials, Shutdown, ExpireSession, gatewayVars
    <3> QED
      BY <3>1, PumpHolds
  <2> QED
    BY <2>1, <2>2
<1> QED
  BY <1>1, <1>2, <1>3, SkipKept

\* A heartbeat is answered, or not.
LEMMA SkipHeartbeat ==
  ASSUME OrderInv, GapInv, SeenInv, wire' \in Seq(WireFrames), ClientHolds, SendHeartbeat
  PROVE  GapInv' /\ SeenInv'
<1>1. CASE Lost
  <2>1. wire' = wire /\ conn' = conn /\ UNCHANGED sessionVars
    BY <1>1 DEF Lost, network
  <2>2. Holds /\ ServerKeeps
    BY <2>1, HoldsAll, SessionRests
  <2> QED
    BY <2>2, SkipKept
<1>2. CASE wire' = Append(wire, Control("ack", FALSE)) /\ UNCHANGED <<conn, sessionVars>>
  <2>1. PICK f : f = Control("ack", FALSE)
    OBVIOUS
  <2>2. f \in WireFrames /\ f.op # "dispatch"
    <3>1. "ack" \in Opcodes /\ FALSE \in BOOLEAN
      BY DEF Opcodes
    <3> QED
      BY <2>1, <3>1, ControlFrame
  <2>3. wire' = Append(wire, f) /\ conn' = conn /\ UNCHANGED sessionVars
    BY <1>2, <2>1
  <2>4. Holds /\ ServerKeeps
    BY <2>2, <2>3, HoldsControl, SessionRests
  <2> QED
    BY <2>4, SkipKept
<1> QED
  BY <1>1, <1>2 DEF SendHeartbeat

\* The connection is there, and is read.
LEMMA SkipReading ==
  ASSUME ChannelInv, HelloFirst, GapInv, SeenInv, wire' \in Seq(WireFrames), task = NoTask,
         Connect \/ ReceiveHello \/ HeartbeatTick \/ ReceiveAck \/ ReceiveFrame
  PROVE  GapInv' /\ SeenInv'
<1>1. OrderInv
  BY DEF ChannelInv
<1>2. CASE Connect
  <2>1. /\ phase \notin Connected /\ wire' = <<Control("hello", FALSE)>> /\ conn' = "open"
        /\ UNCHANGED <<pumpVars, sessionVars>>
    BY <1>2 DEF Connect, Connected
  <2>2. wire = <<>>
    BY <2>1 DEF ChannelInv, QuietInv
  <2>3. PICK f : f = Control("hello", FALSE)
    OBVIOUS
  <2>4. f \in WireFrames /\ f.op # "dispatch"
    <3>1. "hello" \in Opcodes /\ FALSE \in BOOLEAN
      BY DEF Opcodes
    <3> QED
      BY <2>3, <3>1, ControlFrame
  <2>5. wire' = Append(wire, f)
    BY <2>1, <2>2, <2>3
  <2>6. Holds /\ ServerKeeps /\ ClientHolds
    BY <1>1, <2>1, <2>4, <2>5, HoldsControl, SessionRests, PumpHolds
  <2> QED
    BY <1>1, <2>6, SkipKept
<1>3. CASE ReceiveHello
  <2>1. /\ phase = "hello" /\ wire # <<>> /\ wire' = Tail(wire) /\ conn' = conn
        /\ HandleFrame(Head(wire)) /\ UNCHANGED sessionVars
    BY <1>3 DEF ReceiveHello, TakeFrame
  <2>2. Head(wire).op # "dispatch" /\ Head(wire).s = None
    BY <2>1 DEF HelloFirst, Control
  <2>3. Holds /\ ServerKeeps
    BY <1>1, <2>1, <2>2, HoldsTail, SessionRests
  <2>4. ClientHolds
    BY <2>1, <2>2, ControlHolds
  <2> QED
    BY <1>1, <2>3, <2>4, SkipKept
<1>4. CASE HeartbeatTick
  <2>1. SendHeartbeat /\ UNCHANGED pumpVars
    BY <1>4 DEF HeartbeatTick
  <2> QED
    BY <1>1, <2>1, PumpHolds, SkipHeartbeat
<1>5. CASE ReceiveAck
  <2>1. /\ wire # <<>> /\ Head(wire).op # "dispatch" /\ wire' = Tail(wire) /\ conn' = conn
        /\ UNCHANGED <<pumpVars, sessionVars>>
    BY <1>5 DEF ReceiveAck, TakeFrame
  <2>2. Holds /\ ServerKeeps /\ ClientHolds
    BY <1>1, <2>1, HoldsTail, SessionRests, PumpHolds
  <2> QED
    BY <1>1, <2>2, SkipKept
<1>6. CASE ReceiveFrame
  <2>1. /\ wire # <<>> /\ wire' = Tail(wire) /\ conn' = conn
        /\ HandleFrame(Head(wire)) /\ TakeFrame /\ UNCHANGED sessionVars
        /\ Head(wire).op # "close"
    BY <1>6 DEF ReceiveFrame, TakeFrame
  <2>2. CASE Head(wire).op = "dispatch"
    BY <1>1, <2>1, <2>2, GapTaken
  <2>3. CASE Head(wire).op # "dispatch"
    <3>1. PICK f : f = Head(wire)
      OBVIOUS
    <3>2. f \in WireFrames
      BY <1>1, <2>1, <3>1 DEF OrderInv, ChannelTypes
    <3>3. f.s = None
      BY <2>1, <2>3, <3>1, <3>2, ControlHasNoNumber
    <3>4. ClientHolds
      BY <2>1, <2>3, <3>1, <3>3, ControlHolds
    <3>5. Holds /\ ServerKeeps
      BY <1>1, <2>1, <2>3, HoldsTail, SessionRests
    <3> QED
      BY <1>1, <3>4, <3>5, SkipKept
  <2> QED
    BY <2>2, <2>3
<1> QED
  BY <1>2, <1>3, <1>4, <1>5, <1>6

LEMMA SkipAnswer ==
  ASSUME ChannelInv, HandInv, GapInv, SeenInv, Overlap \in 0..1, wire' \in Seq(WireFrames),
         (Authenticate /\ ~Ending) \/ (DrainAction /\ ~Retry)
  PROVE  GapInv' /\ SeenInv'
<1>1. OrderInv
  BY DEF ChannelInv
<1>2. CASE Authenticate /\ ~Ending
  <2>1. PICK a \in {"Identify", "Resume"} : SendAuth(a) /\ (a = "Resume" => sessionId # None)
    BY <1>2 DEF Authenticate, Ending
  <2>2. phase = "auth" /\ UNCHANGED clientMemory
    BY <1>2 DEF Authenticate, Ending, clientMemory, resumePoint, window
  <2>3. Quiet
    BY <2>2 DEF ChannelInv, QuietInv
  <2> QED
    BY <1>1, <2>1, <2>2, <2>3, GapAuth
<1>3. CASE DrainAction /\ ~Retry
  <2>1. phase = "drain" /\ actions # <<>> /\ UNCHANGED clientMemory
    BY <1>3 DEF DrainAction, PopAction, clientMemory, resumePoint, window
  <2>2. \/ Head(actions) \in {"Identify", "Resume"} /\ SendAuth(Head(actions))
        \/ SendHeartbeat
        \/ UNCHANGED <<network, sessionVars>>
    BY <1>3 DEF DrainAction
  <2>3. CASE Head(actions) \in {"Identify", "Resume"} /\ SendAuth(Head(actions))
    <3>1. Quiet /\ (Head(actions) = "Resume" => sessionId # None)
      BY <2>1, <2>3 DEF ChannelInv, QuietInv
    <3> QED
      BY <1>1, <2>1, <2>3, <3>1, GapAuth
  <2>4. CASE SendHeartbeat
    BY <1>1, <2>1, <2>4, MemoryHolds, SkipHeartbeat
  <2>5. CASE UNCHANGED <<network, sessionVars>>
    <3>1. wire' = wire /\ conn' = conn
      BY <2>5 DEF network
    <3>2. Holds /\ ServerKeeps /\ ClientHolds
      BY <1>1, <2>1, <2>5, <3>1, HoldsAll, SessionRests, MemoryHolds
    <3> QED
      BY <1>1, <3>2, SkipKept
  <2> QED
    BY <2>2, <2>3, <2>4, <2>5
<1> QED
  BY <1>2, <1>3

\* Core takes the task in hand, or there is none.
LEMMA SkipSubmit ==
  ASSUME OrderInv, GapInv, SeenInv, wire' \in Seq(WireFrames), SubmitTask
  PROVE  GapInv' /\ SeenInv'
<1>1. /\ wire' = wire /\ conn' = conn /\ UNCHANGED sessionVars
      /\ Accept \/ UNCHANGED pumpVars
  BY DEF SubmitTask, serverVars, network
<1>2. Holds /\ ServerKeeps
  BY <1>1, HoldsAll, SessionRests
<1>3. ClientHolds
  <2>1. CASE UNCHANGED pumpVars
    BY <2>1, PumpHolds
  <2>2. CASE Accept
    <3>1. UNCHANGED <<lastSequence, sessionId, seen>> /\ accepted' = Append(accepted, task)
          /\ task # NoTask
      BY <2>2 DEF Accept, resumePoint, window
    <3>2. PICK n : n = Len(accepted)
      OBVIOUS
    <3>3. accepted \in Seq(Keys) /\ task \in Keys
      BY <3>1 DEF OrderInv, ChannelTypes
    <3>4. /\ n \in Nat /\ Len(accepted') = n + 1 /\ accepted'[n + 1] = task
          /\ \A i \in 1..n : accepted'[i] = accepted[i] /\ i \in 1..n + 1
      BY <3>1, <3>2, <3>3
    <3>5. ASSUME NEW k, Taken(k) PROVE Taken(k)'
      <4>1. CASE task = k
        <5>1. n + 1 \in 1..Len(accepted')
          BY <3>4
        <5> QED
          BY <3>4, <4>1, <5>1 DEF Taken
      <4>2. CASE \E i \in 1..Len(accepted) : accepted[i] = k
        BY <3>2, <3>4, <4>2 DEF Taken
      <4> QED
        BY <3>5, <4>1, <4>2 DEF Taken
    <3> QED
      BY <3>1, <3>5 DEF ClientHolds, TakenStays
  <2> QED
    BY <1>1, <2>1, <2>2
<1> QED
  BY <1>2, <1>3, SkipKept

LEMMA SkipPublish ==
  ASSUME OrderInv, GapInv, SeenInv, PublishEvent
  PROVE  GapInv' /\ SeenInv'
<1>1. UNCHANGED pumpVars
  BY DEF PublishEvent
<1>2. SeenInv'
  BY <1>1, PumpHolds, SeenKept DEF ClientHolds
<1> QED
  BY <1>2, GapPublished

\* The server appends a frame of its own, or the network loses the end of the wire.
LEMMA SkipNetwork ==
  ASSUME ChannelInv, GapInv, SeenInv, wire' \in Seq(WireFrames),
         SendControl \/ InvalidateSession \/ CloseConnection \/ LoseConnection
  PROVE  GapInv' /\ SeenInv'
<1>1. OrderInv /\ ClientHolds
  BY PumpHolds DEF ChannelInv, SendControl, InvalidateSession, CloseConnection, LoseConnection
<1>2. ASSUME ServerKeeps, NEW f \in WireFrames, f.op # "dispatch", wire' = Append(wire, f),
             conn' = conn \/ conn' # "live"
      PROVE  GapInv' /\ SeenInv'
  <2>1. Holds
    BY <1>1, <1>2, HoldsControl
  <2> QED
    BY <1>1, <1>2, <2>1, SkipKept
<1>3. CASE SendControl
  <2>1. PICK op \in {"heartbeat", "reconnect", "other"} : wire' = Append(wire, Control(op, FALSE))
    BY <1>3 DEF SendControl, Push2Client
  <2>2. PICK f : f = Control(op, FALSE)
    OBVIOUS
  <2>3. f \in WireFrames /\ f.op # "dispatch" /\ wire' = Append(wire, f)
    <3>1. op \in Opcodes /\ op # "dispatch" /\ FALSE \in BOOLEAN
      BY DEF Opcodes
    <3> QED
      BY <2>1, <2>2, <3>1, ControlFrame
  <2>4. conn' = conn /\ ServerKeeps
    BY <1>3, SessionRests DEF SendControl
  <2> QED
    BY <1>2, <2>3, <2>4
<1>4. CASE InvalidateSession
  <2>1. PICK resumable \in BOOLEAN :
          /\ wire' = Append(wire, Control("invalid", resumable))
          /\ session' = IF resumable THEN session ELSE None
          /\ log' = IF resumable THEN log ELSE <<>>
    BY <1>4 DEF InvalidateSession
  <2>2. PICK f : f = Control("invalid", resumable)
    OBVIOUS
  <2>3. f \in WireFrames /\ f.op # "dispatch" /\ wire' = Append(wire, f)
    <3>1. "invalid" \in Opcodes
      BY DEF Opcodes
    <3> QED
      BY <2>1, <2>2, <3>1, ControlFrame
  <2>4. conn' # "live" /\ ServerKeeps
    BY <1>4, <2>1 DEF InvalidateSession, ServerKeeps
  <2> QED
    BY <1>2, <2>3, <2>4
<1>5. CASE CloseConnection
  <2>1. PICK class \in CloseClasses :
          /\ wire' = Append(wire, Close(class))
          /\ session' = IF class = "Reidentify" THEN None ELSE session
          /\ log' = IF class = "Reidentify" THEN <<>> ELSE log
    BY <1>5 DEF CloseConnection
  <2>2. PICK f : f = Close(class)
    OBVIOUS
  <2>3. f \in WireFrames /\ f.op # "dispatch" /\ wire' = Append(wire, f)
    BY <2>1, <2>2, CloseFrame
  <2>4. conn' # "live" /\ ServerKeeps
    BY <1>5, <2>1 DEF CloseConnection, ServerKeeps
  <2> QED
    BY <1>2, <2>3, <2>4
<1>6. CASE LoseConnection
  <2>1. PICK m \in 0..Len(wire) : wire' = SubSeq(wire, 1, m)
    BY <1>6 DEF LoseConnection
  <2>2. conn' # "live" /\ ServerKeeps
    BY <1>6, SessionRests DEF LoseConnection
  <2>3. Holds
    BY <1>1, <2>1, <2>2, HoldsCut
  <2> QED
    BY <1>1, <2>2, <2>3, SkipKept
<1> QED
  BY <1>3, <1>4, <1>5, <1>6

\* Core's rejections are counted.
LEMMA RejectsCounted ==
  ASSUME [GatewayNext]_gatewayVars
  PROVE  rejects' = rejects \/ (SubmitRejected /\ rejects' = rejects + 1)
<1>1. CASE \/ LoopTop \/ FetchCredentials \/ CredentialsFail \/ Connect \/ ConnectFails
           \/ StopWhileConnecting \/ HelloFails \/ HelloRefused \/ ReceiveHello
           \/ StopWhileReading \/ AckTimeout \/ HeartbeatFails \/ HeartbeatTick \/ StreamEnds
           \/ BackoffOver \/ ReceiveAck \/ ReceiveClose \/ ReceiveFrame \/ Authenticate
           \/ DrainAction \/ ReconnectRequested \/ SubmitTask
  BY <1>1 DEF LoopTop, FetchCredentials, CredentialsFail, Connect, ConnectFails,
              StopWhileConnecting, HelloFails, HelloRefused, ReceiveHello, StopWhileReading,
              AckTimeout, HeartbeatFails, HeartbeatTick, StreamEnds, BackoffOver, ReceiveAck,
              ReceiveClose, ReceiveFrame, Authenticate, DrainAction, ReconnectRequested,
              SubmitTask, bounds, Fault
<1>2. CASE \/ Shutdown \/ Restart \/ PublishEvent \/ SendControl \/ InvalidateSession
           \/ CloseConnection \/ LoseConnection \/ ExpireSession \/ UNCHANGED gatewayVars
  BY <1>2 DEF Shutdown, Restart, PublishEvent, SendControl, InvalidateSession, CloseConnection,
              LoseConnection, ExpireSession, gatewayVars, bounds, Fault
<1>3. CASE SubmitRejected
  BY <1>3 DEF SubmitRejected
<1>4. CASE AbortTask
  BY <1>4, AbortsQuietly DEF bounds
<1> QED
  BY <1>1, <1>2, <1>3, <1>4 DEF GatewayNext, ClientStep, EnvironmentStep

LEMMA SkipStep ==
  ASSUME GatewayInv, ChannelInv, ChannelInv', SkipInv, Overlap \in 0..1,
         [GatewayNext]_gatewayVars
  PROVE  SkipInv'
<1>1. OrderInv /\ HelloFirst /\ QueueInv /\ HandInv /\ rejects \in Nat
      /\ wire' \in Seq(WireFrames)
  BY DEF ChannelInv, GatewayInv, SkipInv, OrderInv, ChannelTypes
<1>2. HandInv'
  BY <1>1, HandStep
<1>3. rejects' = rejects \/ (SubmitRejected /\ rejects' = rejects + 1)
  BY RejectsCounted
<1>4. ASSUME rejects' = 0 PROVE GapInv' /\ SeenInv'
  <2>1. rejects = 0
    BY <1>1, <1>3, <1>4
  <2>2. GapInv /\ SeenInv
    BY <2>1 DEF SkipInv
  <2>3. CASE \/ CredentialsFail \/ ConnectFails \/ StopWhileConnecting \/ HelloFails
             \/ HelloRefused \/ StopWhileReading \/ AckTimeout \/ HeartbeatFails \/ StreamEnds
             \/ ReceiveClose \/ ReconnectRequested \/ AbortTask
    BY <1>1, <2>2, <2>3, SkipEnding
  <2>4. CASE LoopTop \/ BackoffOver
    BY <1>1, <2>2, <2>4, SkipEnding, SkipIdle
  <2>5. CASE FetchCredentials \/ Shutdown \/ Restart \/ ExpireSession \/ UNCHANGED gatewayVars
    BY <1>1, <2>2, <2>5, SkipIdle
  <2>6. CASE Connect \/ ReceiveHello \/ HeartbeatTick \/ ReceiveAck \/ ReceiveFrame
    <3>1. task = NoTask
      BY <1>1, <2>6 DEF Connect, ReceiveHello, HeartbeatTick, ReceiveAck, ReceiveFrame,
                        QueueInv, NothingLeftOver
    <3> QED
      BY <1>1, <2>2, <2>6, <3>1, SkipReading
  <2>7. CASE Authenticate \/ DrainAction
    BY <1>1, <2>2, <2>7, SkipEnding, SkipAnswer
  <2>8. CASE SubmitTask
    BY <1>1, <2>2, <2>8, SkipSubmit
  <2>9. CASE SubmitRejected
    BY <1>1, <1>4, <2>1, <2>9 DEF SubmitRejected
  <2>10. CASE PublishEvent
    BY <1>1, <2>2, <2>10, SkipPublish
  <2>11. CASE SendControl \/ InvalidateSession \/ CloseConnection \/ LoseConnection
    BY <1>1, <2>2, <2>11, SkipNetwork
  <2> QED
    BY <2>3, <2>4, <2>5, <2>6, <2>7, <2>8, <2>9, <2>10, <2>11
       DEF GatewayNext, ClientStep, EnvironmentStep
<1>5. rejects' \in Nat
  BY <1>1, <1>3
<1> QED
  BY <1>2, <1>4, <1>5 DEF SkipInv

LEMMA SkipInitially == ASSUME GatewayInit PROVE SkipInv
BY DEF GatewayInit, PumpInit, SkipInv, HandInv, GapInv, SeenInv

LEMMA SkipInvariant == ASSUME Overlap \in 0..1 PROVE GatewaySpec => [](ChannelInv /\ SkipInv)
<1>1. GatewayInit => ChannelInv /\ SkipInv
  BY ChannelInitially, SkipInitially
<1>2. GatewayInv /\ ChannelInv /\ SkipInv /\ [GatewayNext]_gatewayVars => ChannelInv' /\ SkipInv'
  BY ChannelStep, SkipStep
<1> QED
  BY <1>1, <1>2, GatewayInvariant, PTL DEF GatewaySpec

\* What Core took with this id is among the events delivered.
LEMMA TakenIsDelivered ==
  ASSUME accepted \in Seq(Keys), NEW e, NEW i \in 1..Len(accepted), accepted[i] = <<"id", e>>
  PROVE  e \in ToSet(Delivered)
<1>1. PICK n \in Nat : n = Len(accepted)
  OBVIOUS
<1>2. PICK D : D = {j \in 1..Len(accepted) : accepted[j][1] = "id"}
  OBVIOUS
<1>3. D \in SUBSET (1..n) /\ i \in D
  BY <1>1, <1>2
<1>4. PICK k \in 1..Cardinality(D) : Ascending(D)[k] = i
  BY <1>3, AscendingHas
<1>5. PICK events : events = Ascending(D)
  OBVIOUS
<1>6. Len(events) = Cardinality(D)
  BY <1>3, <1>5, AscendingFacts
<1>7. Delivered = [j \in 1..Len(events) |-> accepted[events[j]][2]]
  BY <1>2, <1>5 DEF Delivered
<1>8. k \in DOMAIN Delivered /\ Delivered[k] = e
  BY <1>4, <1>5, <1>6, <1>7
<1> QED
  BY <1>8 DEF ToSet

\* As long as Core rejects no task, no event is skipped: handle_dispatch of
\* gateway/connection.rs moves last_sequence to a frame before Core has its task, and still
\* every event up to the resume point of the session the Gateway keeps is with Core, across
\* every disconnect, Resume, invalidated session and restart.  So a rejection, after which
\* submit_one of event_source.rs forgets the key but not the number, is the one way to lose
\* an event.
THEOREM OnlyRejectionSkips ==
  ASSUME Overlap \in 0..1
  PROVE  GatewaySpec => [](rejects = 0 => ResumePointCovered)
<1>1. ASSUME ChannelInv, SkipInv PROVE rejects = 0 => ResumePointCovered
  <2> SUFFICES ASSUME rejects = 0, sessionId # None, sessionId = session, task = NoTask,
                      NEW n \in 1..lastSequence, n \in DOMAIN log, log[n].kind = "EVENT"
               PROVE  log[n].id \in ToSet(Delivered)
    BY DEF ResumePointCovered
  <2>1. log \in Seq(LogEntries) /\ accepted \in Seq(Keys)
    BY <1>1 DEF ChannelInv, OrderInv, ChannelTypes
  <2>2. lastSequence \in Int
    BY <1>1 DEF ChannelInv, OrderInv, PointInv
  <2>3. n \in 1..Len(log) /\ n <= lastSequence
    BY <2>1, <2>2
  <2>4. Here(n, 0)
    BY <1>1, <2>3 DEF SkipInv, GapInv, Passed
  <2>5. ~Comes(n, 0)
    BY DEF Comes
  <2>6. PICK i \in 1..Len(accepted) : accepted[i] = <<"id", log[n].id>>
    BY <2>4, <2>5, IdIsNoTask DEF Here, Taken
  <2> QED
    BY <2>1, <2>6, TakenIsDelivered
<1> QED
  BY <1>1, SkipInvariant, PTL

\* An event of the session is with Core, offered to it, or on its way.
Accounted(n) ==
  \/ log[n].id \in ToSet(Delivered)
  \/ task = <<"id", log[n].id>>
  \/ \E j \in 1..Len(wire) : wire[j].op = "dispatch" /\ wire[j].s = n

\* As long as Core rejects no task, a connection that the Gateway has identified or resumed
\* accounts for every event of its session: each is with Core, in the hands of submit_one,
\* or among the frames between the server and the select loop of run_connection, where the
\* replay after a Resume brings what an earlier connection has lost.
THEOREM LiveSessionIsComplete ==
  ASSUME Overlap \in 0..1
  PROVE  GatewaySpec =>
           [](rejects = 0 /\ session # None /\ conn = "live" =>
                \A n \in 1..Len(log) : log[n].kind = "EVENT" => Accounted(n))
<1>1. ASSUME ChannelInv, SkipInv
      PROVE  rejects = 0 /\ session # None /\ conn = "live" =>
               \A n \in 1..Len(log) : log[n].kind = "EVENT" => Accounted(n)
  <2> SUFFICES ASSUME rejects = 0, session # None, conn = "live",
                      NEW n \in 1..Len(log), log[n].kind = "EVENT"
               PROVE  Accounted(n)
    OBVIOUS
  <2>1. accepted \in Seq(Keys)
    BY <1>1 DEF ChannelInv, OrderInv, ChannelTypes
  <2>2. Here(n, Len(wire))
    BY <1>1 DEF SkipInv, GapInv, LiveBringsAll
  <2>3. CASE \E i \in 1..Len(accepted) : accepted[i] = <<"id", log[n].id>>
    BY <2>1, <2>3, TakenIsDelivered DEF Accounted
  <2>4. CASE task = <<"id", log[n].id>> \/ Comes(n, Len(wire))
    BY <2>4 DEF Accounted, Comes
  <2> QED
    BY <2>2, <2>3, <2>4 DEF Here, Taken
<1> QED
  BY <1>1, SkipInvariant, PTL

=============================================================================
