------------------------- MODULE NotificationProofs -------------------------
(***************************************************************************)
(* For any events, queues, notices and failures: type correctness of       *)
(* Notification, that an event the broker took is in one place only, that  *)
(* it is acknowledged only with its notices written, and that a notice is  *)
(* written once, unless a connection was lost under a handler at work; and *)
(* that all this is delivery at least once, as Delivery states it.         *)
(***************************************************************************)
EXTENDS Notification, FiniteSetTheorems, SequenceTheorems, TLAPS

Labels == {"off", "idle", "check", "insert", "ack", "nack", "gone"}

\* Consumers not started yet are off.
NotYet ==
  /\ \A c \in Consumers : c[2] > conn => pc[c] = "off"
  /\ watch = "start" => \A i \in DOMAIN Queues : i > tried => pc[<<Queues[i], conn>>] = "off"

\* Who is about to insert has a notice to insert.
AtFits ==
  \A c \in Consumers : at[c] >= 1 /\ (pc[c] = "insert" => at[c] <= Len(Notices[job[c]]))

Typed == TypeOK /\ NotYet /\ AtFits

Works(c) == job[c] # NoMsg
In(m, s) == \E i \in DOMAIN s : s[i] = m

\* A message is in the queue it is routed to, or with a consumer of that.
Routed ==
  /\ \A q \in QueueSet : \A m \in Msgs : In(m, ready[q]) => QueueOf[m] = q
  /\ \A c \in Consumers : Works(c) => QueueOf[job[c]] = c[1]

Disjoint == acked \cap pending = {} /\ acked \cap dropped = {} /\ pending \cap dropped = {}

\* And there once, and nowhere else.
Single ==
  /\ \A q \in QueueSet : IsInjective(ready[q])
  /\ \A c, d \in Consumers : Works(c) /\ job[c] = job[d] /\ c[2] \in open /\ d[2] \in open => c = d
  /\ \A c \in Consumers : Works(c) /\ c[2] \in open =>
       ~In(job[c], ready[c[1]]) /\ job[c] \notin acked \cup pending \cup dropped
  /\ \A q \in QueueSet : \A m \in Msgs : In(m, ready[q]) => m \notin acked \cup pending \cup dropped
  /\ Disjoint

Places == Routed /\ Single

Told(m, i) == Notices[m][i].user # Notices[m][i].actor => Copies(Notices[m][i]) > 0

\* A handler has written the notices before the one it is at.
WroteBefore(c) ==
  /\ job[c] = NoMsg => at[c] = 1
  /\ \A m \in Msgs : job[c] = m =>
       /\ \A i \in DOMAIN Notices[m] : i < at[c] => Told(m, i)
       /\ pc[c] = "ack" => at[c] > Len(Notices[m])

Writing == \A c \in Consumers : WroteBefore(c)

\* At most one connection is up whose handlers can write, the last one.
OneConnection ==
  /\ open \ cancelled \subseteq {conn}
  /\ watch = "dial" \/ (token /\ watch # "start") => conn \notin open \ cancelled
  /\ \A c \in Consumers : pc[c] \notin {"off", "gone"} /\ c[2] < conn
       => watch = "start" \/ conn \in cancelled

\* As long as no handler has lost its connection.
Fresh ==
  orphaned = {} =>
    /\ \A c \in Consumers : Works(c) => c[2] \in open
    /\ \A c \in Consumers : pc[c] = "insert" /\ ~Cancelled(c) => Copies(Notice(c)) = 0
    /\ \A k \in Keys : Copies(k) <= 1
-----------------------------------------------------------------------------
(* Queues. *)

LEMMA Consumer ==
  ASSUME NEW c \in Consumers
  PROVE  c[1] \in QueueSet /\ c[2] \in Conns /\ c = <<c[1], c[2]>>
BY DEF Consumers

\* A message at the end of a queue, and one back at its head.
LEMMA Added ==
  ASSUME NEW s \in Seq(Msgs), NEW m \in Msgs,
         NEW t \in {Append(s, m), <<m>> \o s}
  PROVE  /\ t \in Seq(Msgs) /\ \A x : In(x, t) <=> x = m \/ In(x, s)
         /\ IsInjective(s) /\ ~In(m, s) => IsInjective(t)
<1>1. /\ s \in [1 .. Len(s) -> Msgs] /\ Len(s) \in Nat /\ DOMAIN s = 1 .. Len(s)
  OBVIOUS
<1>2. CASE t = Append(s, m)
  <2>1. /\ t \in Seq(Msgs) /\ DOMAIN t = 1 .. Len(s) + 1 /\ t[Len(s) + 1] = m
        /\ \A i \in 1 .. Len(s) : t[i] = s[i]
    BY <1>1, <1>2, AppendProperties
  <2>2. \A x : In(x, t) <=> x = m \/ In(x, s)
    BY <1>1, <2>1 DEF In
  <2>3. IsInjective(s) /\ ~In(m, s) => IsInjective(t)
    BY <1>1, <2>1 DEF In, IsInjective
  <2>. QED  BY <2>1, <2>2, <2>3
<1>3. CASE t = <<m>> \o s
  <2>1. /\ t \in Seq(Msgs) /\ DOMAIN t = 1 .. 1 + Len(s)
        /\ \A i \in 1 .. 1 + Len(s) : t[i] = IF i <= 1 THEN m ELSE s[i - 1]
    <3>1. <<m>> \in Seq(Msgs) /\ Len(<<m>>) = 1 /\ <<m>>[1] = m
      OBVIOUS
    <3>2. /\ t \in Seq(Msgs) /\ Len(t) = 1 + Len(s)
          /\ \A i \in 1 .. 1 + Len(s) : t[i] = IF i <= 1 THEN <<m>>[i] ELSE s[i - 1]
      BY <1>3, <3>1, ConcatProperties
    <3>. QED  BY <1>1, <3>1, <3>2
  <2>2. \A x : In(x, t) <=> x = m \/ In(x, s)
    <3>1. ASSUME NEW i \in DOMAIN t
          PROVE  t[i] = m \/ In(t[i], s)
      <4>1. i \in 1 .. 1 + Len(s) /\ DOMAIN s = 1 .. Len(s) /\ Len(s) \in Nat
        BY <1>1, <2>1
      <4>2. CASE i <= 1
        BY <2>1, <4>1, <4>2
      <4>3. CASE ~(i <= 1)
        <5>1. i - 1 \in DOMAIN s
          BY <4>1, <4>3
        <5>2. t[i] = s[i - 1]
          BY <2>1, <4>1, <4>3
        <5>. QED  BY <5>1, <5>2 DEF In
      <4>. QED  BY <4>2, <4>3
    <3>2. t[1] = m /\ 1 \in DOMAIN t
      BY <1>1, <2>1
    <3>3. ASSUME NEW i \in DOMAIN s
          PROVE  i + 1 \in DOMAIN t /\ t[i + 1] = s[i]
      BY <1>1, <2>1
    <3>. QED  BY <3>1, <3>2, <3>3 DEF In
  <2>3. IsInjective(s) /\ ~In(m, s) => IsInjective(t)
    <3>1. SUFFICES ASSUME IsInjective(s), ~In(m, s), NEW i \in DOMAIN t, NEW j \in DOMAIN t, t[i] = t[j]
                   PROVE  i = j
      BY DEF IsInjective
    <3>2. /\ i > 1 => i - 1 \in DOMAIN s /\ t[i] = s[i - 1]
          /\ j > 1 => j - 1 \in DOMAIN s /\ t[j] = s[j - 1]
          /\ i \in Nat /\ j \in Nat /\ i >= 1 /\ j >= 1
          /\ i = 1 => t[i] = m
          /\ j = 1 => t[j] = m
      BY <1>1, <2>1
    <3>. QED  BY <3>1, <3>2 DEF In, IsInjective
  <2>. QED  BY <2>1, <2>2, <2>3
<1>. QED  BY <1>2, <1>3

\* The head of a queue taken off it.
LEMMA Taken ==
  ASSUME NEW s \in Seq(Msgs), s # <<>>
  PROVE  /\ Head(s) \in Msgs /\ Tail(s) \in Seq(Msgs) /\ In(Head(s), s)
         /\ \A x : In(x, Tail(s)) => In(x, s)
         /\ IsInjective(s) => IsInjective(Tail(s)) /\ ~In(Head(s), Tail(s))
<1>1. /\ Head(s) \in Msgs /\ Tail(s) \in Seq(Msgs) /\ Len(Tail(s)) = Len(s) - 1
      /\ \A i \in 1 .. Len(Tail(s)) : Tail(s)[i] = s[i + 1]
      /\ Len(s) \in Nat /\ Len(s) >= 1 /\ DOMAIN s = 1 .. Len(s) /\ Head(s) = s[1]
      /\ DOMAIN Tail(s) = 1 .. Len(s) - 1
  BY HeadTailProperties, EmptySeq
<1>2. ASSUME NEW i \in DOMAIN Tail(s)
      PROVE  i + 1 \in DOMAIN s /\ Tail(s)[i] = s[i + 1]
  BY <1>1
<1>3. 1 \in DOMAIN s
  BY <1>1
<1>4. IsInjective(s) => IsInjective(Tail(s)) /\ ~In(Head(s), Tail(s))
  <2>1. SUFFICES ASSUME IsInjective(s)
                 PROVE  IsInjective(Tail(s)) /\ ~In(Head(s), Tail(s))
    OBVIOUS
  <2>2. \A i, j \in DOMAIN Tail(s) : Tail(s)[i] = Tail(s)[j] => i + 1 = j + 1
    BY <1>2, <2>1 DEF IsInjective
  <2>3. \A i \in DOMAIN Tail(s) : i \in Nat /\ i >= 1
    BY <1>1
  <2>4. IsInjective(Tail(s))
    BY <2>2, <2>3 DEF IsInjective
  <2>5. ASSUME NEW i \in DOMAIN Tail(s), Tail(s)[i] = Head(s)
        PROVE  FALSE
    <3>1. i + 1 = 1
      BY <1>1, <1>2, <1>3, <2>1, <2>5 DEF IsInjective
    <3>. QED  BY <2>3, <3>1
  <2>. QED  BY <2>4, <2>5 DEF In
<1>. QED  BY <1>1, <1>2, <1>3, <1>4 DEF In

\* The messages of a set back at the head of a queue.
LEMMA AllBack ==
  ASSUME NEW T \in SUBSET Msgs, IsFiniteSet(T), NEW s \in Seq(Msgs)
  PROVE  /\ SetToSeq(T) \o s \in Seq(Msgs)
         /\ \A x : In(x, SetToSeq(T) \o s) => x \in T \/ In(x, s)
         /\ IsInjective(s) /\ (\A x \in T : ~In(x, s)) => IsInjective(SetToSeq(T) \o s)
<1> DEFINE n == Cardinality(T)
           f == SetToSeq(T)
           t == f \o s
<1>1. n \in Nat /\ ExistsBijection(1 .. n, T)
  BY FS_CardinalityType
<1>2. f \in [1 .. n -> T] /\ IsInjective(f)
  <2>1. \E g \in [1 .. n -> T] : IsInjective(g)
    BY <1>1, Zenon DEF ExistsBijection, Bijection, Injection
  <2>. QED  BY <2>1 DEF SetToSeq
<1> HIDE DEF f
<1>3. f \in Seq(Msgs) /\ Len(f) = n
  <2>1. f \in [1 .. n -> Msgs] /\ DOMAIN f = 1 .. n
    BY <1>2
  <2>2. f \in Seq(Msgs)
    BY <1>1, <2>1, SeqDef
  <2>3. Len(f) \in Nat /\ DOMAIN f = 1 .. Len(f)
    BY <2>2, LenProperties
  <2>. QED  BY <1>1, <2>1, <2>2, <2>3
<1>4. /\ t \in Seq(Msgs) /\ Len(t) = n + Len(s) /\ Len(s) \in Nat /\ DOMAIN t = 1 .. n + Len(s)
      /\ \A i \in 1 .. n + Len(s) : t[i] = IF i <= n THEN f[i] ELSE s[i - n]
      /\ DOMAIN s = 1 .. Len(s) /\ DOMAIN f = 1 .. n
  <2>1. /\ t \in Seq(Msgs) /\ Len(t) = Len(f) + Len(s)
        /\ \A i \in 1 .. Len(f) + Len(s) : t[i] = IF i <= Len(f) THEN f[i] ELSE s[i - Len(f)]
    BY <1>3, ConcatProperties
  <2>2. DOMAIN t = 1 .. Len(t) /\ Len(s) \in Nat /\ DOMAIN s = 1 .. Len(s)
    BY <2>1, LenProperties
  <2>3. DOMAIN f = 1 .. n
    BY <1>2
  <2> HIDE DEF n, t
  <2>. QED  BY <1>3, <2>1, <2>2, <2>3
<1> HIDE DEF t
<1>5. ASSUME NEW i \in DOMAIN t
      PROVE  \/ i \in 1 .. n /\ t[i] = f[i] /\ f[i] \in T
             \/ i \notin 1 .. n /\ i - n \in DOMAIN s /\ t[i] = s[i - n]
  <2>1. i \in 1 .. n + Len(s)
    BY <1>4, <1>5
  <2>2. CASE i <= n
    <3>1. i \in 1 .. n
      BY <1>1, <1>4, <2>1, <2>2
    <3>. QED  BY <1>2, <1>4, <2>1, <2>2, <3>1
  <2>3. CASE ~(i <= n)
    <3>1. i \notin 1 .. n /\ i - n \in 1 .. Len(s)
      BY <1>1, <1>4, <2>1, <2>3
    <3>. QED  BY <1>4, <2>1, <2>3, <3>1
  <2>. QED  BY <2>2, <2>3
<1>6. ASSUME IsInjective(s), \A x \in T : ~In(x, s), NEW i \in DOMAIN t, NEW j \in DOMAIN t, t[i] = t[j]
      PROVE  i = j
  <2>1. CASE i \in 1 .. n /\ j \in 1 .. n
    BY <1>2, <1>4, <1>5, <1>6, <2>1 DEF IsInjective
  <2>2. CASE i \notin 1 .. n /\ j \notin 1 .. n
    <3>1. i - n = j - n
      BY <1>5, <1>6, <2>2 DEF IsInjective
    <3>. QED  BY <1>1, <1>4, <3>1
  <2>3. CASE (i \in 1 .. n) # (j \in 1 .. n)
    BY <1>5, <1>6, <2>3 DEF In
  <2>. QED  BY <2>1, <2>2, <2>3
<1>7. \A x : In(x, t) => x \in T \/ In(x, s)
  BY <1>5 DEF In
<1>. QED  BY <1>4, <1>6, <1>7 DEF IsInjective, t, f

-----------------------------------------------------------------------------
(* Types. *)

LEMMA Facts ==
  ASSUME Typed
  PROVE  /\ ready \in [QueueSet -> Seq(Msgs)] /\ acked \subseteq Msgs
         /\ pending \subseteq Msgs /\ dropped \subseteq Msgs
         /\ unread \in [Keys -> Nat] /\ read \in [Keys -> Nat]
         /\ pc \in [Consumers -> Labels] /\ job \in [Consumers -> Msgs \cup {NoMsg}]
         /\ at \in [Consumers -> Nat] /\ conn \in Nat /\ conn \in Conns
         /\ open \subseteq 0 .. conn /\ cancelled \subseteq 0 .. conn /\ tried \in Nat
         /\ \A c \in Consumers : Works(c) <=> pc[c] \notin {"off", "idle", "gone"}
         /\ \A c \in Consumers : Works(c) => job[c] \in Msgs
         /\ QueueOf \in [Msgs -> QueueSet] /\ Notices \in [Msgs -> Seq(Keys)]
         /\ Queues \in Seq(QueueSet) /\ Len(Queues) \in Nat /\ DOMAIN Queues = 1 .. Len(Queues)
         /\ IsFiniteSet(Msgs) /\ NoMsg \notin Msgs
         /\ {MaxConn, MaxLosses, MaxFaults} \subseteq Nat /\ MaxDials \in Nat \ {0}
<1>1. Queues \in Seq(QueueSet) /\ Len(Queues) \in Nat /\ DOMAIN Queues = 1 .. Len(Queues)
  BY QueueAssumption, LenProperties
<1>2. conn \in Nat
  BY BoundsAssumption DEF Typed, TypeOK, Conns
<1>. QED  BY <1>1, <1>2, MsgsAssumption, QueueAssumption, NoticeAssumption, BoundsAssumption
          DEF Typed, TypeOK, Labels, Works

LEMMA NoticeRange ==
  ASSUME NEW m \in Msgs
  PROVE  /\ Notices[m] \in Seq(Keys) /\ Len(Notices[m]) \in Nat
         /\ DOMAIN Notices[m] = 1 .. Len(Notices[m])
         /\ \A i \in DOMAIN Notices[m] : i \in Nat /\ i >= 1 /\ Notices[m][i] \in Keys
<1>1. Notices[m] \in Seq(Keys)
  BY NoticeAssumption
<1>2. Len(Notices[m]) \in Nat /\ DOMAIN Notices[m] = 1 .. Len(Notices[m])
  BY <1>1, LenProperties
<1>. QED  BY <1>1, <1>2, ElementOfSeq

\* The notice a handler is at.
LEMMA NoticeType ==
  ASSUME Typed, NEW c \in Consumers, Works(c), at[c] <= Len(Notices[job[c]])
  PROVE  /\ Notice(c) \in Keys /\ at[c] \in DOMAIN Notices[job[c]]
         /\ Notice(c) = Notices[job[c]][at[c]]
<1>1. Notices[job[c]] \in Seq(Keys) /\ at[c] \in Nat /\ at[c] >= 1
  BY Facts DEF Typed, AtFits
<1>2. DOMAIN Notices[job[c]] = 1 .. Len(Notices[job[c]]) /\ Len(Notices[job[c]]) \in Nat
  BY <1>1, LenProperties
<1>3. at[c] \in 1 .. Len(Notices[job[c]])
  BY <1>1, <1>2
<1>. QED  BY <1>1, <1>2, <1>3, ElementOfSeq DEF Notice

SourceType == pubUp \in BOOLEAN /\ pending \subseteq Msgs /\ dropped \subseteq Msgs
BrokerType == ready \in [QueueSet -> Seq(Msgs)] /\ acked \subseteq Msgs
TableType  == unread \in [Keys -> Nat] /\ read \in [Keys -> Nat]
HandlerType ==
  /\ pc \in [Consumers -> Labels] /\ job \in [Consumers -> Msgs \cup {NoMsg}]
  /\ \A c \in Consumers : (job[c] = NoMsg) <=> (pc[c] \in {"off", "idle", "gone"})
  /\ at \in [Consumers -> Nat]
  /\ AtFits
WatcherType ==
  /\ open \subseteq 0 .. conn /\ conn \in Conns /\ cancelled \subseteq 0 .. conn
  /\ token \in BOOLEAN /\ watch \in {"idle", "dial", "start"} /\ tried \in Nat
  /\ (watch = "dial" => tried < MaxDials) /\ (watch = "start" => tried <= Len(Queues))
CountsType ==
  losses \in 0 .. MaxLosses /\ faults \in 0 .. MaxFaults /\ orphaned \subseteq Msgs

LEMMA TypeParts ==
  /\ Typed <=> /\ SourceType /\ BrokerType /\ TableType /\ HandlerType
               /\ WatcherType /\ CountsType /\ NotYet
  /\ Typed' <=> /\ SourceType' /\ BrokerType' /\ TableType' /\ HandlerType'
                /\ WatcherType' /\ CountsType' /\ NotYet'
BY DEF Typed, TypeOK, SourceType, BrokerType, TableType, HandlerType, WatcherType, CountsType, Labels

\* What a step leaves alone keeps its type.
LEMMA Kept ==
  ASSUME Typed
  PROVE  /\ UNCHANGED source => SourceType'
         /\ UNCHANGED <<ready, acked>> => BrokerType'
         /\ UNCHANGED table => TableType'
         /\ UNCHANGED handler => HandlerType'
         /\ UNCHANGED watcher => WatcherType'
         /\ UNCHANGED counts => CountsType'
         /\ Fault => CountsType'
<1>1. /\ SourceType /\ BrokerType /\ TableType /\ HandlerType /\ WatcherType /\ CountsType
  BY TypeParts
<1>2. UNCHANGED source => SourceType'
  BY <1>1 DEF source, SourceType
<1>3. UNCHANGED <<ready, acked>> => BrokerType'
  BY <1>1 DEF BrokerType
<1>4. UNCHANGED table => TableType'
  BY <1>1 DEF table, TableType
<1>5. UNCHANGED handler => HandlerType'
  BY <1>1 DEF handler, HandlerType, AtFits
<1>6. UNCHANGED watcher => WatcherType'
  BY <1>1 DEF watcher, WatcherType
<1>7. UNCHANGED counts => CountsType'
  BY <1>1 DEF counts, CountsType
<1>8. Fault => CountsType'
  BY <1>1, BoundsAssumption DEF Fault, CountsType
<1>. QED  BY <1>2, <1>3, <1>4, <1>5, <1>6, <1>7, <1>8

LEMMA NotYetKept ==
  ASSUME NotYet, UNCHANGED <<conn, watch, tried>>,
         \A c \in Consumers : pc[c] = "off" => pc'[c] = "off",
         watch = "start" => conn \in Conns
  PROVE  NotYet'
<1>1. \A c \in Consumers : c[2] > conn' => pc'[c] = "off"
  BY DEF NotYet
<1>2. ASSUME watch = "start", NEW i \in DOMAIN Queues, i > tried
      PROVE  pc'[<<Queues[i], conn>>] = "off"
  <2>1. <<Queues[i], conn>> \in Consumers
    BY <1>2 DEF Consumers, QueueSet
  <2>. QED  BY <1>2, <2>1 DEF NotYet
<1>. QED  BY <1>1, <1>2 DEF NotYet

LEMMA TypeInit ==
  ASSUME Init
  PROVE  Typed
<1>1. 0 \in Conns /\ MaxConn \in Nat /\ MaxLosses \in Nat /\ MaxFaults \in Nat /\ Len(Queues) \in Nat
      /\ MaxDials \in Nat /\ MaxDials > 0
  BY BoundsAssumption, QueueAssumption, LenProperties DEF Conns
<1>2. <<>> \in Seq(Msgs)
  OBVIOUS
<1>3. \A c \in Consumers : c[2] \in Conns /\ (c[2] > 0 => c[2] # 0)
  BY <1>1, Consumer DEF Conns
<1>4. SourceType /\ TableType /\ CountsType
  BY <1>1 DEF Init, SourceType, TableType, CountsType
<1>5. BrokerType
  BY <1>2 DEF Init, BrokerType
<1>6. WatcherType
  <2>1. open = {0} /\ conn = 0 /\ cancelled = {} /\ watch = "idle" /\ tried = 0
    BY DEF Init
  <2>2. token \in BOOLEAN
    BY DEF Init
  <2>3. open \subseteq 0 .. conn /\ cancelled \subseteq 0 .. conn
    BY <2>1
  <2>. QED  BY <1>1, <2>1, <2>2, <2>3 DEF WatcherType
<1>7. HandlerType
  <2>1. pc \in [Consumers -> Labels]
    BY DEF Init, Labels
  <2>2. \A c \in Consumers : (job[c] = NoMsg) <=> (pc[c] \in {"off", "idle", "gone"})
    BY DEF Init
  <2>3. AtFits
    BY DEF Init, AtFits
  <2>. QED  BY <2>1, <2>2, <2>3 DEF Init, HandlerType
<1>8. NotYet
  BY <1>3 DEF Init, NotYet
<1>. QED  BY <1>4, <1>5, <1>6, <1>7, <1>8, TypeParts

\* A handler moves on, alone.
Alone(c) ==
  /\ pc' \in [Consumers -> Labels] /\ job' \in [Consumers -> Msgs \cup {NoMsg}]
  /\ at' \in [Consumers -> Nat]
  /\ \A d \in Consumers \ {c} : pc'[d] = pc[d] /\ job'[d] = job[d] /\ at'[d] = at[d]
  /\ pc[c] \notin {"off", "gone"} /\ pc'[c] # "off"
  /\ (job'[c] = NoMsg) <=> (pc'[c] \in {"idle", "gone"})
  /\ at'[c] >= 1
  /\ UNCHANGED <<conn, watch, tried>>

LEMMA HandlerMoves ==
  ASSUME Typed, NEW c \in Consumers, Alone(c), pc'[c] = "insert" => at'[c] <= Len(Notices[job'[c]])
  PROVE  HandlerType' /\ NotYet'
<1>1. HandlerType /\ NotYet /\ WatcherType
  BY TypeParts
<1>4. \A d \in Consumers : (job'[d] = NoMsg) <=> (pc'[d] \in {"off", "idle", "gone"})
  BY <1>1 DEF HandlerType, Alone
<1>5. \A d \in Consumers : at'[d] >= 1 /\ (pc'[d] = "insert" => at'[d] <= Len(Notices[job'[d]]))
  BY <1>1 DEF HandlerType, AtFits, Alone
<1>6. NotYet'
  BY <1>1, NotYetKept DEF WatcherType, Alone
<1>. QED  BY <1>4, <1>5, <1>6 DEF HandlerType, AtFits, Alone

\* What each step of a handler does to it.
LEMMA HandlerAlone ==
  ASSUME Typed, NEW c \in Consumers, Consume(c) \/ HandlerFails(c)
  PROVE  Alone(c) /\ (pc'[c] = "insert" => at'[c] <= Len(Notices[job'[c]]))
<1>1. /\ pc \in [Consumers -> Labels] /\ job \in [Consumers -> Msgs \cup {NoMsg}]
      /\ at \in [Consumers -> Nat] /\ ready \in [QueueSet -> Seq(Msgs)] /\ NoMsg \notin Msgs
      /\ (job[c] = NoMsg) <=> (pc[c] \in {"off", "idle", "gone"})
      /\ at[c] \in Nat /\ at[c] >= 1 /\ c[1] \in QueueSet
  BY TypeParts, MsgsAssumption, Consumer DEF HandlerType, BrokerType, AtFits
<1>2. CASE Deliver(c)
  <2>1. /\ pc[c] = "idle" /\ ready[c[1]] # <<>> /\ job' = [job EXCEPT ![c] = Head(ready[c[1]])]
        /\ pc' = [pc EXCEPT ![c] = "check"] /\ at' = at /\ UNCHANGED <<conn, watch, tried>>
    BY <1>2 DEF Deliver, Goto, watcher
  <2>2. Head(ready[c[1]]) \in Msgs
    BY <1>1, <2>1, Taken
  <2>. QED  BY <1>1, <2>1, <2>2 DEF Alone, Labels
<1>3. CASE CheckDuplicate(c)
  <2>1. /\ pc[c] = "check" /\ job' = job /\ UNCHANGED <<conn, watch, tried>>
        /\ \/ pc' = [pc EXCEPT ![c] = "ack"] /\ at' = at
           \/ pc' = [pc EXCEPT ![c] = "nack"] /\ at' = at
           \/ pc' = pc /\ at' = [at EXCEPT ![c] = @ + 1]
           \/ pc' = [pc EXCEPT ![c] = "insert"] /\ at' = at /\ at[c] <= Len(Notices[job[c]])
    <3>1. UNCHANGED watcher => UNCHANGED <<conn, watch, tried>>
      BY DEF watcher
    <3>. QED  BY <1>3, <3>1, Zenon DEF CheckDuplicate, Goto, NextNotice
  <2>2. /\ pc' \in [Consumers -> Labels] /\ at' \in [Consumers -> Nat]
        /\ \A d \in Consumers \ {c} : pc'[d] = pc[d] /\ at'[d] = at[d]
        /\ pc'[c] \in {"check", "ack", "nack", "insert"} /\ at'[c] \in {at[c], at[c] + 1}
        /\ pc'[c] = "insert" => at'[c] <= Len(Notices[job[c]])
    <3>1. CASE at' = at
      BY <1>1, <2>1, <3>1 DEF Labels
    <3>2. CASE pc' = pc /\ at' = [at EXCEPT ![c] = @ + 1]
      BY <1>1, <2>1, <3>2 DEF Labels
    <3>. QED  BY <2>1, <3>1, <3>2
  <2>. QED  BY <1>1, <2>1, <2>2 DEF Alone, Labels
<1>4. CASE Insert(c)
  <2>1. /\ pc[c] = "insert" /\ job' = job /\ UNCHANGED <<conn, watch, tried>>
        /\ \/ pc' = [pc EXCEPT ![c] = "check"] /\ at' = [at EXCEPT ![c] = @ + 1]
           \/ pc' = [pc EXCEPT ![c] = "nack"] /\ at' = at
    BY <1>4 DEF Insert, Goto, NextNotice, watcher
  <2>. QED  BY <1>1, <2>1 DEF Alone, Labels
<1>5. CASE Settle(c)
  <2>1. /\ pc[c] \in {"ack", "nack"} /\ UNCHANGED <<conn, watch, tried>>
        /\ pc' = [pc EXCEPT ![c] = "idle"] /\ job' = [job EXCEPT ![c] = NoMsg] /\ at' = [at EXCEPT ![c] = 1]
    BY <1>5 DEF Settle, Goto, watcher
  <2>. QED  BY <1>1, <2>1 DEF Alone, Labels
<1>6. CASE SeeClosed(c)
  <2>1. /\ pc[c] = "idle" /\ pc' = [pc EXCEPT ![c] = "gone"]
        /\ UNCHANGED <<job, at, conn, watch, tried>>
    BY <1>6 DEF SeeClosed, Goto
  <2>. QED  BY <1>1, <2>1 DEF Alone, Labels
<1>7. CASE HandlerFails(c)
  <2>1. /\ pc[c] \in {"insert", "check"} /\ pc' = [pc EXCEPT ![c] = "nack"]
        /\ UNCHANGED <<job, at, conn, watch, tried>>
    BY <1>7 DEF HandlerFails, Goto, watcher
  <2>. QED  BY <1>1, <2>1 DEF Alone, Labels
<1>. QED  BY <1>2, <1>3, <1>4, <1>5, <1>6, <1>7 DEF Consume

LEMMA TypeConsume ==
  ASSUME Typed, NEW c \in Consumers, Consume(c) \/ HandlerFails(c)
  PROVE  Typed'
<1>1. HandlerType' /\ NotYet'
  BY HandlerAlone, HandlerMoves
<1>2. /\ HandlerType /\ BrokerType /\ TableType /\ WatcherType /\ c[1] \in QueueSet
  BY TypeParts, Consumer
<1>3. CASE Deliver(c)
  <2>1. /\ ready[c[1]] # <<>> /\ ready' = [ready EXCEPT ![c[1]] = Tail(@)]
        /\ UNCHANGED <<source, acked, table, watcher, counts>>
    BY <1>3 DEF Deliver
  <2>2. Tail(ready[c[1]]) \in Seq(Msgs)
    BY <1>2, <2>1, Taken DEF BrokerType
  <2>3. BrokerType'
    BY <1>2, <2>1, <2>2 DEF BrokerType
  <2>. QED  BY <1>1, <2>1, <2>3, Kept, TypeParts
<1>4. CASE CheckDuplicate(c)
  <2>1. UNCHANGED <<source, ready, acked, table, watcher, counts>>
    BY <1>4, Zenon DEF CheckDuplicate
  <2>. QED  BY <1>1, <2>1, Kept, TypeParts
<1>5. CASE Insert(c)
  <2>1. /\ UNCHANGED <<source, ready, acked, read, watcher, counts>>
        /\ unread' = [unread EXCEPT ![Notice(c)] = @ + 1] \/ unread' = unread
    BY <1>5 DEF Insert
  <2>2. TableType'
    BY <1>2, <2>1 DEF TableType
  <2>. QED  BY <1>1, <2>1, <2>2, Kept, TypeParts
<1>6. CASE Settle(c)
  <2>1. /\ pc[c] \in {"ack", "nack"} /\ UNCHANGED <<source, table, watcher, counts>>
        /\ \/ UNCHANGED <<acked, ready>>
           \/ acked' = acked \cup {job[c]} /\ UNCHANGED ready
           \/ ready' = [ready EXCEPT ![c[1]] = <<job[c]>> \o @] /\ UNCHANGED acked
    BY <1>6 DEF Settle, Requeued
  <2>2. job[c] \in Msgs
    BY <1>2, <2>1 DEF HandlerType
  <2>3. <<job[c]>> \o ready[c[1]] \in Seq(Msgs)
    BY <1>2, <2>2, Added DEF BrokerType
  <2>4. BrokerType'
    BY <1>2, <2>1, <2>2, <2>3 DEF BrokerType
  <2>. QED  BY <1>1, <2>1, <2>4, Kept, TypeParts
<1>7. CASE SeeClosed(c)
  <2>1. /\ token' = TRUE
        /\ UNCHANGED <<source, ready, acked, table, open, conn, cancelled, watch, tried, counts>>
    BY <1>7 DEF SeeClosed
  <2>2. WatcherType'
    BY <1>2, <2>1 DEF WatcherType
  <2>. QED  BY <1>1, <2>1, <2>2, Kept, TypeParts
<1>8. CASE HandlerFails(c)
  <2>1. UNCHANGED <<source, ready, acked, table, watcher>> /\ Fault
    BY <1>8 DEF HandlerFails
  <2>. QED  BY <1>1, <2>1, Kept, TypeParts
<1>. QED  BY <1>3, <1>4, <1>5, <1>6, <1>7, <1>8 DEF Consume

LEMMA NotYetStays ==
  ASSUME Typed, UNCHANGED handler, UNCHANGED watcher
  PROVE  NotYet'
<1>1. /\ pc' = pc /\ UNCHANGED <<conn, watch, tried>>
  BY DEF handler, watcher
<1>2. NotYet /\ (watch = "start" => conn \in Conns)
  BY TypeParts DEF WatcherType
<1>. QED  BY <1>1, <1>2, NotYetKept

LEMMA TypePublish ==
  ASSUME Typed, NEW m \in Msgs, PublishAsync(m) \/ PublishRaw(m)
  PROVE  Typed'
<1>1. SourceType /\ BrokerType /\ QueueOf[m] \in QueueSet
  BY TypeParts, QueueAssumption
<1>2. UNCHANGED <<pubUp, acked, table, handler, watcher, counts>>
  BY DEF PublishAsync, PublishRaw
<1>3. SourceType'
  BY <1>1, <1>2 DEF PublishAsync, PublishRaw, SourceType
<1>4. BrokerType'
  <2>1. Append(ready[QueueOf[m]], m) \in Seq(Msgs)
    BY <1>1 DEF BrokerType
  <2>2. ready' = ready \/ ready' = [ready EXCEPT ![QueueOf[m]] = Append(@, m)]
    BY DEF PublishAsync, PublishRaw
  <2>. QED  BY <1>1, <1>2, <2>1, <2>2 DEF BrokerType
<1>. QED  BY <1>2, <1>3, <1>4, Kept, NotYetStays, TypeParts

LEMMA TypeWatcher ==
  ASSUME Typed, Watch \/ Connect \/ Reconnected \/ ConnectFails
  PROVE  Typed'
<1>1. WatcherType /\ NotYet /\ 0 < MaxDials /\ MaxDials \in Nat /\ conn \in Nat /\ MaxConn \in Nat /\ Len(Queues) \in Nat
  BY TypeParts, Facts
<1>2. UNCHANGED <<source, ready, acked, table, handler>>
  BY DEF Watch, Connect, Reconnected, ConnectFails
<1>3. CountsType'
  <2>1. UNCHANGED counts \/ Fault
    BY DEF Watch, Connect, Reconnected, ConnectFails
  <2>. QED  BY <2>1, Kept
<1>4. pc' = pc /\ HandlerType'
  BY <1>2, Kept DEF handler
<1>5. WatcherType' /\ NotYet'
  <2>1. CASE Watch
    <3>1. watch' = "dial" /\ tried' = 0 /\ UNCHANGED <<open, conn, cancelled>> /\ token' = FALSE
      BY <2>1 DEF Watch
    <3>2. token' \in BOOLEAN
      BY <3>1
    <3>3. WatcherType'
      BY <1>1, <3>1, <3>2 DEF WatcherType
    <3>. QED  BY <1>1, <1>4, <3>1, <3>3 DEF NotYet
  <2>2. CASE Connect
    <3>1. /\ conn < MaxConn /\ conn' = conn + 1 /\ open' = open \cup {conn + 1} /\ watch' = "start" /\ tried' = 0
          /\ UNCHANGED <<cancelled, token>>
      BY <2>2 DEF Connect
    <3>2. WatcherType'
      BY <1>1, <3>1 DEF WatcherType, Conns
    <3>3. \A c \in Consumers : c[2] \in Nat
      BY <1>1, Consumer DEF Conns
    <3>4. \A c \in Consumers : c[2] > conn' => pc'[c] = "off"
      <4>1. \A c \in Consumers : c[2] > conn + 1 => c[2] > conn
        BY <1>1, <3>3
      <4>. QED  BY <1>1, <1>4, <3>1, <4>1 DEF NotYet
    <3>5. ASSUME NEW i \in DOMAIN Queues
          PROVE  pc'[<<Queues[i], conn'>>] = "off"
      <4>1. <<Queues[i], conn + 1>> \in Consumers
        BY <1>1, <3>1 DEF Consumers, QueueSet, Conns
      <4>2. conn + 1 > conn
        BY <1>1
      <4>. QED  BY <1>1, <1>4, <3>1, <4>1, <4>2 DEF NotYet
    <3>. QED  BY <3>2, <3>4, <3>5 DEF NotYet
  <2>3. CASE Reconnected
    <3>1. /\ watch' = "idle" /\ tried' = 0 /\ UNCHANGED <<open, conn, token>>
          /\ cancelled' = cancelled \cup {conn}
      BY <2>3 DEF Reconnected
    <3>2. conn \in 0 .. conn
      BY <1>1
    <3>3. WatcherType'
      BY <1>1, <3>1, <3>2 DEF WatcherType
    <3>. QED  BY <1>1, <1>4, <3>1, <3>3 DEF NotYet
  <2>4. CASE ConnectFails
    <3>1. /\ tried' = tried + 1 /\ watch' = IF tried + 1 >= MaxDials THEN "idle" ELSE "dial"
          /\ UNCHANGED <<open, conn, cancelled, token>>
      BY <2>4 DEF ConnectFails
    <3>2. WatcherType'
      BY <1>1, <3>1 DEF WatcherType
    <3>. QED  BY <1>1, <1>4, <3>1, <3>2 DEF NotYet
  <2>. QED  BY <2>1, <2>2, <2>3, <2>4
<1>. QED  BY <1>2, <1>3, <1>4, <1>5, Kept, TypeParts

\* The consumer started is one that was not.
LEMMA Starting ==
  ASSUME Typed, StartConsumer
  PROVE  /\ tried + 1 \in DOMAIN Queues /\ watch = "start"
         /\ <<Queues[tried + 1], conn>> \in Consumers /\ pc[<<Queues[tried + 1], conn>>] = "off"
<1>1. NotYet /\ tried \in Nat /\ conn \in Conns /\ Len(Queues) \in Nat /\ DOMAIN Queues = 1 .. Len(Queues)
  BY TypeParts, Facts
<1>2. watch = "start" /\ tried < Len(Queues)
  BY DEF StartConsumer
<1>3. tried + 1 \in DOMAIN Queues /\ tried + 1 > tried
  BY <1>1, <1>2
<1>4. <<Queues[tried + 1], conn>> \in Consumers
  BY <1>1, <1>3 DEF Consumers, QueueSet
<1>. QED  BY <1>1, <1>2, <1>3, <1>4 DEF NotYet

LEMMA TypeStart ==
  ASSUME Typed, StartConsumer
  PROVE  Typed'
<1> DEFINE new == <<Queues[tried + 1], conn>>
<1>1. /\ HandlerType /\ WatcherType /\ NotYet /\ tried \in Nat /\ Len(Queues) \in Nat
      /\ DOMAIN Queues = 1 .. Len(Queues) /\ conn \in Nat
  BY TypeParts, Facts
<1>2. /\ new \in Consumers /\ pc[new] = "off" /\ tried + 1 \in DOMAIN Queues /\ watch = "start"
  BY Starting
<1>3. /\ tried < Len(Queues) /\ tried' = tried + 1
      /\ UNCHANGED <<source, ready, acked, table, job, at, open, conn, cancelled, token, watch>>
      /\ pc' = pc \/ pc' = [pc EXCEPT ![new] = "idle"]
      /\ UNCHANGED counts \/ Fault
  BY DEF StartConsumer, Goto
<1>4. /\ pc' \in [Consumers -> Labels] /\ \A c \in Consumers \ {new} : pc'[c] = pc[c]
      /\ pc'[new] \in {"off", "idle"}
  <2>1. pc \in [Consumers -> Labels]
    BY <1>1 DEF HandlerType
  <2>. HIDE DEF new
  <2>. QED  BY <1>2, <1>3, <2>1 DEF Labels
<1>5. HandlerType'
  <2>1. job[new] = NoMsg
    BY <1>1, <1>2 DEF HandlerType
  <2>. HIDE DEF new
  <2>2. \A c \in Consumers : (job'[c] = NoMsg) <=> (pc'[c] \in {"off", "idle", "gone"})
    BY <1>1, <1>2, <1>3, <1>4, <2>1 DEF HandlerType
  <2>3. AtFits'
    BY <1>1, <1>2, <1>3, <1>4 DEF HandlerType, AtFits
  <2>. QED  BY <1>1, <1>3, <1>4, <2>2, <2>3 DEF HandlerType
<1>6. WatcherType'
  BY <1>1, <1>2, <1>3 DEF WatcherType
<1>7. NotYet'
  <2>1. ASSUME NEW c \in Consumers, c[2] > conn
        PROVE  pc'[c] = "off"
    <3>1. c # new
      BY <1>1, <2>1
    <3>. QED  BY <1>1, <1>4, <2>1, <3>1 DEF NotYet
  <2>2. ASSUME NEW i \in DOMAIN Queues, i > tried + 1
        PROVE  pc'[<<Queues[i], conn>>] = "off"
    <3>1. Queues[i] # Queues[tried + 1]
      BY <1>1, <1>2, <2>2, QueueAssumption DEF IsInjective
    <3>2. <<Queues[i], conn>> \in Consumers \ {new}
      BY <1>1, <3>1 DEF Consumers, QueueSet, WatcherType
    <3>3. i > tried
      BY <1>1, <2>2
    <3>4. pc[<<Queues[i], conn>>] = "off"
      BY <1>1, <1>2, <3>3 DEF NotYet
    <3>. QED  BY <1>4, <3>2, <3>4
  <2>. QED  BY <1>3, <2>1, <2>2 DEF NotYet
<1>. QED  BY <1>3, <1>5, <1>6, <1>7, Kept, TypeParts

\* The messages of a set of consumers that are in a queue again.
LEMMA Held ==
  ASSUME Typed, NEW q \in QueueSet, NEW G \in SUBSET Conns
  PROVE  {job[<<q, g>>] : g \in G} \ {NoMsg} \in SUBSET Msgs
         /\ IsFiniteSet({job[<<q, g>>] : g \in G} \ {NoMsg})
<1>1. \A g \in G : job[<<q, g>>] \in Msgs \cup {NoMsg}
  BY Facts DEF Consumers
<1>2. {job[<<q, g>>] : g \in G} \ {NoMsg} \in SUBSET Msgs
  BY <1>1
<1>. QED  BY <1>2, Facts, FS_Subset

LEMMA TypeRestart ==
  ASSUME Typed, Restart
  PROVE  Typed'
<1>1. /\ BrokerType /\ WatcherType /\ conn \in Nat /\ MaxConn \in Nat /\ Len(Queues) \in Nat
  BY TypeParts, Facts
<1>2. /\ conn < MaxConn /\ Fault /\ conn' = conn + 1 /\ open' = {conn + 1}
      /\ watch' = "idle" /\ tried' = 0
      /\ ready' = [q \in QueueSet |-> SetToSeq({job[<<q, g>>] : g \in open} \ {NoMsg}) \o ready[q]]
      /\ UNCHANGED <<source, acked, table, cancelled>>
  BY DEF Restart
<1>3. BrokerType'
  <2>1. ASSUME NEW q \in QueueSet
        PROVE  SetToSeq({job[<<q, g>>] : g \in open} \ {NoMsg}) \o ready[q] \in Seq(Msgs)
    <3>1. open \in SUBSET Conns
      BY <1>1 DEF WatcherType, Conns
    <3>. DEFINE T == {job[<<q, g>>] : g \in open} \ {NoMsg}
    <3>2. T \in SUBSET Msgs /\ IsFiniteSet(T) /\ ready[q] \in Seq(Msgs)
      BY <1>1, <3>1, Held DEF BrokerType
    <3>. HIDE DEF T
    <3>3. SetToSeq(T) \o ready[q] \in Seq(Msgs)
      BY <3>2, AllBack
    <3>. QED  BY <3>3 DEF T
  <2>2. ready' \in [QueueSet -> Seq(Msgs)]
    BY <1>2, <2>1, Zenon
  <2>. QED  BY <1>1, <1>2, <2>2 DEF BrokerType
<1>4. HandlerType'
  <2>1. /\ pc' = [c \in Consumers |-> IF c[2] = conn + 1 THEN "idle"
                                ELSE IF c[2] <= conn THEN "gone" ELSE "off"]
        /\ job' = [c \in Consumers |-> NoMsg] /\ at' = [c \in Consumers |-> 1]
    BY DEF Restart
  <2>2. \A c \in Consumers : /\ pc'[c] \in {"off", "idle", "gone"} /\ job'[c] = NoMsg /\ at'[c] = 1
    BY <2>1
  <2>3. pc' \in [Consumers -> Labels] /\ at' \in [Consumers -> Nat] /\ job' \in [Consumers -> Msgs \cup {NoMsg}]
    BY <2>1 DEF Labels
  <2>. QED  BY <2>2, <2>3 DEF HandlerType, AtFits
<1>5. WatcherType'
  <2>1. token' \in BOOLEAN
    BY DEF Restart
  <2>. QED  BY <1>1, <1>2, <2>1 DEF WatcherType, Conns
<1>6. NotYet'
  <2>1. \A c \in Consumers : c[2] \in Nat
    BY <1>1, Consumer DEF Conns
  <2>2. \A c \in Consumers : c[2] > conn + 1 => pc'[c] = "off"
    BY <1>1, <2>1 DEF Restart
  <2>. QED  BY <1>2, <2>2 DEF NotYet
<1>. QED  BY <1>2, <1>3, <1>4, <1>5, <1>6, Kept, TypeParts

LEMMA TypeLost ==
  ASSUME Typed, NEW g \in Conns, ConnectionLost(g)
  PROVE  Typed'
<1>1. /\ BrokerType /\ WatcherType /\ CountsType /\ HandlerType /\ MaxLosses \in Nat
  BY TypeParts, Facts
<1>2. /\ open' = open \ {g} /\ ready' = Returned(g) /\ losses < MaxLosses /\ losses' = losses + 1
      /\ orphaned' = orphaned \cup ({job[<<q, g>>] : q \in QueueSet} \ {NoMsg})
      /\ UNCHANGED <<source, acked, table, handler, conn, cancelled, token, watch, tried, faults>>
  BY DEF ConnectionLost
<1>3. \A q \in QueueSet : <<q, g>> \in Consumers /\ job[<<q, g>>] \in Msgs \cup {NoMsg}
  BY <1>1 DEF Consumers, HandlerType
<1>4. BrokerType'
  <2>1. ASSUME NEW q \in QueueSet, job[<<q, g>>] # NoMsg
        PROVE  <<job[<<q, g>>]>> \o ready[q] \in Seq(Msgs)
    BY <1>1, <1>3, <2>1, Added DEF BrokerType
  <2>2. ready' \in [QueueSet -> Seq(Msgs)]
    BY <1>1, <1>2, <2>1 DEF Returned, BrokerType
  <2>. QED  BY <1>1, <1>2, <2>2 DEF BrokerType
<1>5. WatcherType'
  BY <1>1, <1>2 DEF WatcherType
<1>6. CountsType'
  <2>1. {job[<<q, g>>] : q \in QueueSet} \ {NoMsg} \subseteq Msgs
    BY <1>3
  <2>2. losses + 1 \in 0 .. MaxLosses
    BY <1>1, <1>2 DEF CountsType
  <2>. QED  BY <1>1, <1>2, <2>1, <2>2 DEF CountsType
<1>7. NotYet'
  <2>1. pc' = pc /\ NotYet
    BY <1>2, TypeParts DEF handler
  <2>. QED  BY <1>1, <1>2, <2>1, NotYetKept DEF WatcherType
<1>. QED  BY <1>2, <1>4, <1>5, <1>6, <1>7, Kept, TypeParts

LEMMA TypeRead ==
  ASSUME Typed, NEW k \in Keys, MarkAsRead(k) \/ MarkAllAsRead(k.user)
  PROVE  Typed'
<1>1. TableType
  BY TypeParts
<1>2. UNCHANGED <<source, ready, acked, handler, watcher, counts>>
  BY DEF MarkAsRead, MarkAllAsRead
<1>3. TableType'
  <2>1. CASE MarkAsRead(k)
    BY <1>1, <2>1 DEF MarkAsRead, TableType
  <2>2. CASE MarkAllAsRead(k.user)
    BY <1>1, <2>2 DEF MarkAllAsRead, TableType, Copies
  <2>. QED  BY <2>1, <2>2
<1>. QED  BY <1>2, <1>3, Kept, NotYetStays, TypeParts

LEMMA TypeStep ==
  ASSUME Typed, [Next]_vars
  PROVE  Typed'
<1>1. CASE PublisherLost
  <2>1. /\ pubUp' = FALSE /\ UNCHANGED <<pending, dropped, ready, acked, table, handler, watcher>> /\ Fault
    BY <1>1 DEF PublisherLost
  <2>2. pubUp' \in BOOLEAN
    BY <2>1
  <2>3. SourceType'
    BY <2>1, <2>2, TypeParts DEF SourceType
  <2>. QED  BY <2>1, <2>3, Kept, NotYetStays, TypeParts
<1>2. CASE UNCHANGED vars
  <2>1. UNCHANGED <<source, ready, acked, table, handler, watcher, counts>>
    BY <1>2 DEF vars
  <2>. QED  BY <2>1, Kept, NotYetStays, TypeParts
<1>. QED  BY <1>1, <1>2, TypePublish, TypeConsume, TypeWatcher, TypeStart, TypeRestart, TypeLost, TypeRead
          DEF Next, Reconnect

\* Every state is of its type: what is watched, queued, handled and stored.
THEOREM TypeCorrect == Spec => []TypeOK
<1>1. Init => Typed
  BY TypeInit
<1>2. Typed /\ [Next]_vars => Typed'
  BY TypeStep
<1>3. Typed => TypeOK
  BY DEF Typed
<1>. QED  BY <1>1, <1>2, <1>3, PTL DEF Spec

-----------------------------------------------------------------------------
(* One place for each message. *)

Given == acked \cup pending \cup dropped

LEMMA PlacesInit ==
  ASSUME Init
  PROVE  Places
<1>1. \A c \in Consumers : ~Works(c)
  BY DEF Init, Works
<1>2. \A q \in QueueSet : ready[q] = <<>> /\ \A x : ~In(x, ready[q])
  BY DEF Init, In
<1>3. \A q \in QueueSet : IsInjective(ready[q])
  BY <1>2 DEF IsInjective
<1>4. acked = {} /\ pending = {} /\ dropped = {}
  BY DEF Init
<1>. QED  BY <1>1, <1>2, <1>3, <1>4 DEF Places, Routed, Single, Disjoint

\* What a message in a queue, or with a consumer, tells of the other places.
LEMMA Apart ==
  ASSUME Typed, Places
  PROVE  /\ \A q \in QueueSet, m \in Msgs : In(m, ready[q]) =>
              /\ QueueOf[m] = q /\ m \notin Given
              /\ \A c \in Consumers : job[c] = m => c[2] \notin open
         /\ \A c \in Consumers : Works(c) =>
              /\ job[c] \in Msgs /\ QueueOf[job[c]] = c[1]
              /\ c[2] \in open =>
                   /\ job[c] \notin Given
                   /\ \A d \in Consumers : job[d] = job[c] /\ d[2] \in open => c = d
                   /\ \A q \in QueueSet : ~In(job[c], ready[q])
         /\ \A q \in QueueSet : IsInjective(ready[q]) /\ ready[q] \in Seq(Msgs)
         /\ \A c \in Consumers : job[c] \in Msgs \cup {NoMsg} /\ (Works(c) <=> job[c] # NoMsg)
         /\ NoMsg \notin Msgs
<1>1. /\ \A q \in QueueSet : ready[q] \in Seq(Msgs)
      /\ \A c \in Consumers : job[c] \in Msgs \cup {NoMsg} /\ (Works(c) <=> job[c] # NoMsg)
      /\ NoMsg \notin Msgs
  BY Facts DEF Works
<1>2. ASSUME NEW q \in QueueSet, NEW m \in Msgs, In(m, ready[q])
      PROVE  /\ QueueOf[m] = q /\ m \notin Given
             /\ \A c \in Consumers : job[c] = m => c[2] \notin open
  BY <1>1, <1>2 DEF Places, Routed, Single, Given
<1>3. ASSUME NEW c \in Consumers, Works(c)
      PROVE  /\ job[c] \in Msgs /\ QueueOf[job[c]] = c[1]
             /\ c[2] \in open =>
                  /\ job[c] \notin Given
                  /\ \A d \in Consumers : job[d] = job[c] /\ d[2] \in open => c = d
                  /\ \A q \in QueueSet : ~In(job[c], ready[q])
  BY <1>1, <1>2, <1>3 DEF Places, Routed, Single, Given
<1>. QED  BY <1>1, <1>2, <1>3 DEF Places, Single

LEMMA PlacesNext ==
  ASSUME \A q \in QueueSet, m \in Msgs : In(m, ready'[q]) => QueueOf[m] = q /\ m \notin Given',
         \A q \in QueueSet : IsInjective(ready'[q]),
         \A c \in Consumers : job'[c] # NoMsg => QueueOf[job'[c]] = c[1],
         \A c \in Consumers : job'[c] # NoMsg /\ c[2] \in open' =>
           /\ job'[c] \notin Given' /\ ~In(job'[c], ready'[c[1]])
           /\ \A d \in Consumers : job'[d] = job'[c] /\ d[2] \in open' => c = d,
         Disjoint'
  PROVE  Places'
BY DEF Places, Routed, Single, Given, Works

\* Steps that leave messages where they are, or open a connection.
LEMMA PlacesKept ==
  ASSUME Typed, Places, UNCHANGED <<pending, dropped, ready, acked, job>>,
         open' = open \/ open' = open \cup {conn + 1}
  PROVE  Places'
<1>1. \A c \in Consumers : Works(c) /\ c[2] \in open' => c[2] \in open
  <2>1. CASE open' = open
    BY <2>1
  <2>2. ASSUME NEW c \in Consumers, Works(c), c[2] = conn + 1
        PROVE  FALSE
    <3>1. pc[c] = "off"
      BY <2>2, Facts DEF Typed, NotYet
    <3>. QED  BY <2>2, <3>1, Facts
  <2>. QED  BY <2>1, <2>2
<1>2. Given' = Given /\ (Disjoint => Disjoint')
  BY DEF Given, Disjoint
<1>3. \A c \in Consumers : job[c] # NoMsg <=> Works(c)
  BY DEF Works
<1>4. Disjoint
  BY DEF Places, Single
<1>5. \A c \in Consumers : Works(c) /\ c[2] \in open' =>
           /\ job[c] \notin Given /\ ~In(job[c], ready[c[1]])
           /\ \A d \in Consumers : job[d] = job[c] /\ d[2] \in open' => c = d
  BY <1>1, <1>3, Apart, Consumer
<1>. QED  BY <1>2, <1>3, <1>4, <1>5, Apart, PlacesNext

LEMMA PlacesPublish ==
  ASSUME Typed, Places, NEW m \in Msgs, PublishAsync(m) \/ PublishRaw(m)
  PROVE  Places'
<1>1. /\ UNCHANGED <<acked, job, open>> /\ QueueOf[m] \in QueueSet
      /\ Disjoint
      /\ \A c \in Consumers : job[c] # NoMsg <=> Works(c)
  BY Facts DEF PublishAsync, PublishRaw, handler, watcher, Places, Single, Works
<1>2. /\ m \notin acked
      /\ \A q \in QueueSet : ~In(m, ready[q])
      /\ \A c \in Consumers : job[c] = m => c[2] \notin open
  <2>1. CASE PublishAsync(m)
    <3>1. m \notin acked /\ ~In(m, ready[QueueOf[m]]) /\ Handled(m) = {}
      BY <2>1 DEF PublishAsync, Accepted, InQueue, In
    <3>. QED  BY <3>1, Apart DEF Handled
  <2>2. CASE PublishRaw(m)
    <3>1. m \in Given /\ m \in pending
      BY <2>2 DEF PublishRaw, Given
    <3>2. \A c \in Consumers : job[c] = m => Works(c)
      BY Facts DEF Works
    <3>. QED  BY <1>1, <3>1, <3>2, Apart DEF Disjoint
  <2>. QED  BY <2>1, <2>2
<1>3. CASE ready' = ready /\ (pending' \cup dropped') \ (pending \cup dropped) \subseteq {m}
  <2>1. Given' \ Given \subseteq {m}
    BY <1>1, <1>3 DEF Given
  <2>2. Disjoint'
    <3>1. \/ m \notin pending \cup dropped /\ pending' = pending \cup {m} /\ dropped' = dropped
          \/ pending' = pending \ {m} /\ dropped' = dropped
          \/ pending' = pending \ {m} /\ dropped' = dropped \cup {m}
      BY DEF PublishAsync, PublishRaw
    <3>. QED  BY <1>1, <1>2, <3>1 DEF Disjoint
  <2>3. \A q \in QueueSet, x \in Msgs : In(x, ready'[q]) => QueueOf[x] = q /\ x \notin Given'
    BY <1>2, <1>3, <2>1, Apart
  <2>4. \A c \in Consumers : job'[c] # NoMsg /\ c[2] \in open' =>
           /\ job'[c] \notin Given' /\ ~In(job'[c], ready'[c[1]])
           /\ \A d \in Consumers : job'[d] = job'[c] /\ d[2] \in open' => c = d
    BY <1>1, <1>2, <1>3, <2>1, Apart, Consumer
  <2>5. \A q \in QueueSet : IsInjective(ready'[q])
    BY <1>3, Apart
  <2>6. \A c \in Consumers : job'[c] # NoMsg => QueueOf[job'[c]] = c[1]
    BY <1>1, Apart
  <2>. QED  BY <2>2, <2>3, <2>4, <2>5, <2>6, PlacesNext
<1>4. CASE /\ ready' = [ready EXCEPT ![QueueOf[m]] = Append(@, m)]
           /\ m \in pending /\ pending' = pending \ {m} /\ dropped' = dropped
  <2>1. Given' = Given \ {m}
    BY <1>1, <1>2, <1>4 DEF Given, Disjoint
  <2>2. Disjoint'
    BY <1>1, <1>4 DEF Disjoint
  <2>3. \A q \in QueueSet : /\ IsInjective(ready'[q])
                            /\ \A x : In(x, ready'[q]) => In(x, ready[q]) \/ (x = m /\ q = QueueOf[m])
    <3>1. ready \in [QueueSet -> Seq(Msgs)]
      BY Facts
    <3>2. ASSUME NEW q \in QueueSet, q # QueueOf[m]
          PROVE  ready'[q] = ready[q]
      BY <1>4, <3>1, <3>2
    <3>3. ready'[QueueOf[m]] = Append(ready[QueueOf[m]], m)
      BY <1>1, <1>4, <3>1
    <3>4. /\ IsInjective(ready'[QueueOf[m]])
          /\ \A x : In(x, ready'[QueueOf[m]]) => In(x, ready[QueueOf[m]]) \/ x = m
      <4>. DEFINE s == ready[QueueOf[m]]
      <4>1. s \in Seq(Msgs) /\ IsInjective(s) /\ ~In(m, s)
        BY <1>1, <1>2, <3>1, Apart
      <4>. HIDE DEF s
      <4>2. /\ \A x : In(x, Append(s, m)) <=> x = m \/ In(x, s)
            /\ IsInjective(Append(s, m))
        BY <4>1, Added
      <4>. QED  BY <3>3, <4>2 DEF s
    <3>. QED  BY <3>2, <3>4, Apart
  <2>4. \A q \in QueueSet, x \in Msgs : In(x, ready'[q]) => QueueOf[x] = q /\ x \notin Given'
    BY <2>1, <2>3, Apart
  <2>5. \A c \in Consumers : job'[c] # NoMsg /\ c[2] \in open' =>
           /\ job'[c] \notin Given' /\ ~In(job'[c], ready'[c[1]])
           /\ \A d \in Consumers : job'[d] = job'[c] /\ d[2] \in open' => c = d
    BY <1>1, <1>2, <2>1, <2>3, Apart, Consumer
  <2>6. \A c \in Consumers : job'[c] # NoMsg => QueueOf[job'[c]] = c[1]
    BY <1>1, Apart
  <2>. QED  BY <2>2, <2>3, <2>4, <2>5, <2>6, PlacesNext
<1>. QED  BY <1>3, <1>4 DEF PublishAsync, PublishRaw

LEMMA PlacesDeliver ==
  ASSUME Typed, Places, NEW c \in Consumers, Deliver(c)
  PROVE  Places'
<1> DEFINE m == Head(ready[c[1]])
<1>1. /\ ready[c[1]] # <<>> /\ c[2] \in open
      /\ job' = [job EXCEPT ![c] = m] /\ ready' = [ready EXCEPT ![c[1]] = Tail(@)]
      /\ UNCHANGED <<pending, dropped, acked, open>>
  BY DEF Deliver, source, watcher
<1>2. /\ ready \in [QueueSet -> Seq(Msgs)] /\ job \in [Consumers -> Msgs \cup {NoMsg}] /\ c[1] \in QueueSet
      /\ Disjoint /\ \A d \in Consumers : job[d] # NoMsg <=> Works(d)
  BY Facts, Consumer DEF Places, Single, Works
<1>3. /\ m \in Msgs /\ In(m, ready[c[1]]) /\ \A x : In(x, Tail(ready[c[1]])) => In(x, ready[c[1]])
      /\ IsInjective(Tail(ready[c[1]])) /\ ~In(m, Tail(ready[c[1]]))
  BY <1>1, <1>2, Taken, Apart
<1>4. job'[c] = m /\ \A d \in Consumers \ {c} : job'[d] = job[d]
  BY <1>1, <1>2
<1>5. /\ ready'[c[1]] = Tail(ready[c[1]]) /\ \A q \in QueueSet \ {c[1]} : ready'[q] = ready[q]
  BY <1>1, <1>2
<1> HIDE DEF m
<1>6. /\ \A q \in QueueSet : IsInjective(ready'[q]) /\ \A x : In(x, ready'[q]) => In(x, ready[q])
      /\ \A q \in QueueSet : ~In(m, ready'[q])
  <2>1. ASSUME NEW q \in QueueSet
        PROVE  /\ IsInjective(ready'[q]) /\ \A x : In(x, ready'[q]) => In(x, ready[q])
               /\ ~In(m, ready'[q])
    <3>1. CASE q = c[1]
      BY <1>3, <1>5, <3>1
    <3>2. CASE q # c[1]
      <4>1. ready'[q] = ready[q]
        BY <1>5, <3>2
      <4>2. IsInjective(ready[q]) /\ ~In(m, ready[q])
        BY <1>2, <1>3, <3>2, Apart
      <4>. QED  BY <4>1, <4>2
    <3>. QED  BY <3>1, <3>2
  <2>. QED  BY <2>1
<1>7. Given' = Given /\ Disjoint'
  BY <1>1, <1>2 DEF Given, Disjoint
<1>8. /\ QueueOf[m] = c[1] /\ m \notin Given /\ \A d \in Consumers : job[d] = m => d[2] \notin open
  BY <1>2, <1>3, Apart
<1>9. \A q \in QueueSet, x \in Msgs : In(x, ready'[q]) => QueueOf[x] = q /\ x \notin Given'
  BY <1>6, <1>7, Apart
<1>10. \A d \in Consumers : job'[d] # NoMsg => QueueOf[job'[d]] = d[1]
  <2>1. \A d \in Consumers : d # c /\ job'[d] # NoMsg => Works(d) /\ job'[d] = job[d]
    BY <1>2, <1>4
  <2>. QED  BY <1>4, <1>8, <2>1, Apart
<1>11. ASSUME NEW d \in Consumers, job'[d] # NoMsg, d[2] \in open'
       PROVE  /\ job'[d] \notin Given' /\ ~In(job'[d], ready'[d[1]])
              /\ \A e \in Consumers : job'[e] = job'[d] /\ e[2] \in open' => d = e
  <2>1. CASE d = c
    BY <1>1, <1>2, <1>4, <1>6, <1>7, <1>8, <2>1
  <2>2. CASE d # c
    <3>1. job'[d] = job[d] /\ Works(d) /\ d[2] \in open /\ job[d] # m
      BY <1>1, <1>2, <1>4, <1>8, <1>11, <2>2
    <3>2. /\ job[d] \notin Given /\ ~In(job[d], ready[d[1]]) /\ d[1] \in QueueSet
          /\ \A e \in Consumers : job[e] = job[d] /\ e[2] \in open => d = e
      BY <3>1, Apart, Consumer
    <3>3. \A e \in Consumers : job'[e] = job[d] => job[e] = job[d]
      BY <1>4, <3>1
    <3>. QED  BY <1>1, <1>6, <1>7, <3>1, <3>2, <3>3
  <2>. QED  BY <2>1, <2>2
<1>. QED  BY <1>6, <1>7, <1>9, <1>10, <1>11, PlacesNext

LEMMA PlacesSettle ==
  ASSUME Typed, Places, NEW c \in Consumers, Settle(c)
  PROVE  Places'
<1> DEFINE m == job[c]
           q0 == c[1]
<1>1. /\ pc[c] \in {"ack", "nack"}
      /\ \/ UNCHANGED <<acked, ready>>
         \/ c[2] \in open /\ acked' = acked \cup {m} /\ UNCHANGED ready
         \/ c[2] \in open /\ ready' = [ready EXCEPT ![c[1]] = <<m>> \o @] /\ UNCHANGED acked
      /\ job' = [job EXCEPT ![c] = NoMsg]
      /\ UNCHANGED <<pending, dropped, open>>
  BY DEF Settle, Requeued, source, watcher
<1>2. /\ ready \in [QueueSet -> Seq(Msgs)] /\ job \in [Consumers -> Msgs \cup {NoMsg}] /\ q0 \in QueueSet
      /\ Disjoint /\ \A d \in Consumers : job[d] # NoMsg <=> Works(d)
      /\ Works(c) /\ m \in Msgs
  BY <1>1, Facts, Consumer DEF Places, Single, Works
<1>3. /\ QueueOf[m] = q0
      /\ c[2] \in open => /\ m \notin Given /\ \A q \in QueueSet : ~In(m, ready[q])
                          /\ \A d \in Consumers : job[d] = m /\ d[2] \in open => c = d
  BY <1>2, Apart
<1>4. job'[c] = NoMsg /\ \A d \in Consumers \ {c} : job'[d] = job[d]
  BY <1>1, <1>2
<1>5. \A d \in Consumers : job'[d] # NoMsg => job'[d] = job[d] /\ Works(d) /\ d # c
  BY <1>2, <1>4
<1> HIDE DEF m
<1>6. /\ \A q \in QueueSet : IsInjective(ready'[q])
      /\ \A q \in QueueSet : \A x : In(x, ready'[q]) =>
           In(x, ready[q]) \/ (x = m /\ q = q0 /\ c[2] \in open /\ acked' = acked)
  <2>1. CASE ready' = ready
    BY <2>1, Apart
  <2>2. CASE c[2] \in open /\ ready' = [ready EXCEPT ![q0] = <<m>> \o @] /\ UNCHANGED acked
    <3>. DEFINE s == ready[q0]
    <3>1. s \in Seq(Msgs) /\ IsInjective(s) /\ ~In(m, s)
      BY <1>2, <1>3, <2>2, Apart
    <3>2. ready'[q0] = <<m>> \o s /\ \A q \in QueueSet \ {q0} : ready'[q] = ready[q]
      BY <1>2, <2>2
    <3>. HIDE DEF s
    <3>3. /\ \A x : In(x, <<m>> \o s) <=> x = m \/ In(x, s)
          /\ IsInjective(<<m>> \o s)
      BY <1>2, <3>1, Added
    <3>. QED  BY <2>2, <3>2, <3>3, Apart DEF s
  <2>. QED  BY <1>1, <2>1, <2>2
<1>7. /\ Disjoint' /\ Given' \subseteq Given \cup {m}
      /\ m \in Given' \ Given => acked' # acked /\ c[2] \in open
  BY <1>1, <1>2, <1>3 DEF Disjoint, Given
<1>8. \A q \in QueueSet, x \in Msgs : In(x, ready'[q]) => QueueOf[x] = q /\ x \notin Given'
  BY <1>3, <1>6, <1>7, Apart
<1>9. \A d \in Consumers : job'[d] # NoMsg => QueueOf[job'[d]] = d[1]
  BY <1>5, Apart
<1>10. ASSUME NEW d \in Consumers, job'[d] # NoMsg, d[2] \in open'
       PROVE  /\ job'[d] \notin Given' /\ ~In(job'[d], ready'[d[1]])
              /\ \A e \in Consumers : job'[e] = job'[d] /\ e[2] \in open' => d = e
  <2>1. job'[d] = job[d] /\ Works(d) /\ d # c /\ d[2] \in open
    BY <1>1, <1>5, <1>10
  <2>2. c[2] \in open => job[d] # m
    BY <1>3, <2>1
  <2>3. job[d] \notin Given /\ ~In(job[d], ready[d[1]]) /\ d[1] \in QueueSet
    BY <2>1, Apart, Consumer
  <2>4. job[d] \notin Given' /\ ~In(job[d], ready'[d[1]])
    BY <1>6, <1>7, <2>2, <2>3
  <2>5. \A e \in Consumers : job'[e] = job[d] /\ e[2] \in open => d = e
    BY <1>5, <1>10, <2>1, Apart
  <2>. QED  BY <1>1, <2>1, <2>4, <2>5
<1>. QED  BY <1>6, <1>7, <1>8, <1>9, <1>10, PlacesNext

LEMMA PlacesRestart ==
  ASSUME Typed, Places, Restart
  PROVE  Places'
<1>1. /\ ready' = [q \in QueueSet |-> SetToSeq({job[<<q, g>>] : g \in open} \ {NoMsg}) \o ready[q]]
      /\ job' = [c \in Consumers |-> NoMsg] /\ UNCHANGED <<pending, dropped, acked>>
  BY DEF Restart, source
<1>2. /\ open \in SUBSET Conns /\ Disjoint
      /\ \A q \in QueueSet, g \in open : <<q, g>> \in Consumers
  <2>1. open \in SUBSET Conns
    BY Facts DEF Conns
  <2>. QED  BY <2>1 DEF Consumers, Places, Single
<1>3. ASSUME NEW q \in QueueSet
      PROVE  /\ IsInjective(ready'[q])
             /\ \A x : In(x, ready'[q]) =>
                  In(x, ready[q]) \/ (x # NoMsg /\ \E g \in open : x = job[<<q, g>>])
  <2>. DEFINE T == {job[<<q, g>>] : g \in open} \ {NoMsg}
              s == ready[q]
  <2>1. T \in SUBSET Msgs /\ IsFiniteSet(T)
    BY <1>2, Held
  <2>2. s \in Seq(Msgs) /\ IsInjective(s)
    BY Apart
  <2>3. \A x \in T : ~In(x, s)
    <3>1. ASSUME NEW g \in open, job[<<q, g>>] # NoMsg
          PROVE  ~In(job[<<q, g>>], ready[q])
      <4>1. <<q, g>> \in Consumers /\ <<q, g>>[2] = g /\ Works(<<q, g>>)
        BY <1>2, <3>1 DEF Works
      <4>. QED  BY <4>1, Apart
    <3>. QED  BY <3>1
  <2>4. ready'[q] = SetToSeq(T) \o s
    BY <1>1
  <2>5. \A x : x \in T => x # NoMsg /\ \E g \in open : x = job[<<q, g>>]
    OBVIOUS
  <2>. HIDE DEF T, s
  <2>6. /\ \A x : In(x, ready'[q]) => x \in T \/ In(x, s)
        /\ IsInjective(ready'[q])
    BY <2>1, <2>2, <2>3, <2>4, AllBack
  <2>. QED  BY <2>5, <2>6 DEF s
<1>4. Given' = Given /\ Disjoint'
  BY <1>1, <1>2 DEF Given, Disjoint
<1>5. \A q \in QueueSet, x \in Msgs : In(x, ready'[q]) => QueueOf[x] = q /\ x \notin Given'
  <2>1. ASSUME NEW q \in QueueSet, NEW g \in open, job[<<q, g>>] # NoMsg
        PROVE  QueueOf[job[<<q, g>>]] = q /\ job[<<q, g>>] \notin Given
    <3>1. <<q, g>> \in Consumers /\ <<q, g>>[2] = g /\ <<q, g>>[1] = q /\ Works(<<q, g>>)
      BY <1>2, <2>1 DEF Works
    <3>. QED  BY <3>1, Apart
  <2>2. ASSUME NEW q \in QueueSet, NEW x \in Msgs, In(x, ready'[q])
        PROVE  QueueOf[x] = q /\ x \notin Given
    <3>1. CASE In(x, ready[q])
      BY <3>1, Apart
    <3>2. CASE x # NoMsg /\ \E g \in open : x = job[<<q, g>>]
      BY <2>1, <3>2
    <3>. QED  BY <1>3, <2>2, <3>1, <3>2
  <2>. QED  BY <1>4, <2>2
<1>6. \A c \in Consumers : job'[c] = NoMsg
  BY <1>1
<1>. QED  BY <1>3, <1>4, <1>5, <1>6, PlacesNext

LEMMA PlacesLost ==
  ASSUME Typed, Places, NEW g \in Conns, ConnectionLost(g)
  PROVE  Places'
<1>1. /\ g \in open /\ open' = open \ {g} /\ ready' = Returned(g)
      /\ UNCHANGED <<pending, dropped, acked, job>>
  BY DEF ConnectionLost, source, handler
<1>2. /\ \A q \in QueueSet : <<q, g>> \in Consumers /\ <<q, g>>[2] = g /\ <<q, g>>[1] = q
      /\ Disjoint /\ \A c \in Consumers : job[c] # NoMsg <=> Works(c)
  BY DEF Consumers, Places, Single, Works
<1>3. ASSUME NEW q \in QueueSet
      PROVE  /\ IsInjective(ready'[q])
             /\ \A x : In(x, ready'[q]) =>
                  In(x, ready[q]) \/ (x = job[<<q, g>>] /\ Works(<<q, g>>))
  <2>. DEFINE m == job[<<q, g>>]
              s == ready[q]
  <2>1. s \in Seq(Msgs) /\ IsInjective(s)
    BY Apart
  <2>2. ready'[q] = IF m = NoMsg THEN s ELSE <<m>> \o s
    BY <1>1 DEF Returned
  <2>3. m # NoMsg => Works(<<q, g>>) /\ m \in Msgs /\ ~In(m, s)
    BY <1>1, <1>2, Apart
  <2>. HIDE DEF m, s
  <2>4. CASE m # NoMsg
    <3>1. /\ \A x : In(x, <<m>> \o s) <=> x = m \/ In(x, s)
          /\ IsInjective(<<m>> \o s)
      BY <2>1, <2>3, <2>4, Added
    <3>. QED  BY <2>2, <2>3, <2>4, <3>1 DEF m, s
  <2>5. CASE m = NoMsg
    BY <2>1, <2>2, <2>5 DEF s
  <2>. QED  BY <2>4, <2>5
<1>4. Given' = Given /\ Disjoint'
  BY <1>1, <1>2 DEF Given, Disjoint
<1>5. \A q \in QueueSet : Works(<<q, g>>) =>
        /\ QueueOf[job[<<q, g>>]] = q /\ job[<<q, g>>] \notin Given
        /\ \A d \in Consumers : job[d] = job[<<q, g>>] /\ d[2] \in open => d = <<q, g>>
  BY <1>1, <1>2, Apart
<1>6. \A q \in QueueSet, x \in Msgs : In(x, ready'[q]) => QueueOf[x] = q /\ x \notin Given'
  <2>1. ASSUME NEW q \in QueueSet, NEW x \in Msgs, In(x, ready'[q])
        PROVE  QueueOf[x] = q /\ x \notin Given
    <3>1. CASE In(x, ready[q])
      BY <3>1, Apart
    <3>2. CASE x = job[<<q, g>>] /\ Works(<<q, g>>)
      BY <1>5, <3>2
    <3>. QED  BY <1>3, <2>1, <3>1, <3>2
  <2>. QED  BY <1>4, <2>1
<1>7. \A c \in Consumers : job'[c] # NoMsg => QueueOf[job'[c]] = c[1]
  BY <1>1, <1>2, Apart
<1>8. ASSUME NEW c \in Consumers, job[c] # NoMsg, c[2] \in open'
      PROVE  /\ job[c] \notin Given' /\ ~In(job[c], ready'[c[1]])
             /\ \A d \in Consumers : job[d] = job[c] /\ d[2] \in open' => c = d
  <2>1. Works(c) /\ c[2] \in open /\ c[2] # g /\ c[1] \in QueueSet
    BY <1>1, <1>2, <1>8, Consumer
  <2>2. /\ job[c] \notin Given /\ ~In(job[c], ready[c[1]])
        /\ \A d \in Consumers : job[d] = job[c] /\ d[2] \in open => c = d
    BY <2>1, Apart
  <2>3. ~In(job[c], ready'[c[1]])
    <3>1. SUFFICES ASSUME job[c] = job[<<c[1], g>>], Works(<<c[1], g>>)
                   PROVE  FALSE
      BY <1>3, <2>1, <2>2
    <3>2. c = <<c[1], g>>
      BY <1>5, <2>1, <3>1
    <3>. QED  BY <1>2, <2>1, <3>2
  <2>. QED  BY <1>1, <1>4, <2>2, <2>3
<1>. QED  BY <1>1, <1>3, <1>4, <1>6, <1>7, <1>8, PlacesNext

LEMMA PlacesStep ==
  ASSUME Typed, Places, [Next]_vars
  PROVE  Places'
<1> DEFINE Same == UNCHANGED <<pending, dropped, ready, acked, job>>
           Opens == open' = open \/ open' = open \cup {conn + 1}
<1>1. ASSUME NEW c \in Consumers, CheckDuplicate(c) \/ Insert(c) \/ SeeClosed(c) \/ HandlerFails(c)
      PROVE  Same /\ Opens
  BY <1>1 DEF CheckDuplicate, Insert, SeeClosed, HandlerFails, source, watcher
<1>2. ASSUME Watch \/ Connect \/ StartConsumer \/ Reconnected \/ ConnectFails
      PROVE  Same /\ Opens
  BY <1>2 DEF Watch, Connect, StartConsumer, Reconnected, ConnectFails, source, handler
<1>3. ASSUME NEW k \in Keys, MarkAsRead(k) \/ MarkAllAsRead(k.user)
      PROVE  Same /\ Opens
  BY <1>3 DEF MarkAsRead, MarkAllAsRead, source, handler, watcher
<1>4. ASSUME PublisherLost \/ UNCHANGED vars
      PROVE  Same /\ Opens
  BY <1>4 DEF PublisherLost, vars, source, handler, watcher
<1>5. Same /\ Opens => Places'
  BY PlacesKept
<1> HIDE DEF Same, Opens
<1>. QED  BY <1>1, <1>2, <1>3, <1>4, <1>5, PlacesPublish, PlacesDeliver, PlacesSettle, PlacesRestart, PlacesLost
          DEF Next, Consume, Reconnect

LEMMA AtMostOne ==
  ASSUME NEW S, \A x, y \in S : x = y
  PROVE  Cardinality(S) \in {0, 1} /\ (S = {} => Cardinality(S) = 0)
<1>1. CASE S = {}
  BY <1>1, FS_EmptySet
<1>2. CASE S # {}
  <2>1. PICK x : S = {x}
    BY <1>2
  <2>. QED  BY <1>2, <2>1, FS_Singleton
<1>. QED  BY <1>1, <1>2

\* What the broker took it keeps in one place: a message is in its queue once,
\* with one consumer of a connection that is up, or acknowledged.
THEOREM OnePlace == Spec => []ExactlyOnePlace
<1>1. Typed /\ Places => ExactlyOnePlace
  <2>. SUFFICES ASSUME Typed, Places, NEW m \in Msgs
                 PROVE  Cardinality({i \in DOMAIN ready[QueueOf[m]] : ready[QueueOf[m]][i] = m})
                          + Cardinality(Handled(m)) + (IF m \in acked THEN 1 ELSE 0)
                          + (IF m \in pending \cup dropped THEN 1 ELSE 0) <= 1
    BY DEF ExactlyOnePlace
  <2>. DEFINE I == {i \in DOMAIN ready[QueueOf[m]] : ready[QueueOf[m]][i] = m}
  <2>2. QueueOf[m] \in QueueSet /\ Disjoint /\ IsInjective(ready[QueueOf[m]])
    <3>1. QueueOf[m] \in QueueSet
      BY Facts
    <3>. QED  BY <3>1 DEF Places, Single
  <2>3. Cardinality(I) \in {0, 1} /\ (I = {} => Cardinality(I) = 0) /\ (I # {} => In(m, ready[QueueOf[m]]))
    <3>1. \A i, j \in I : i = j
      BY <2>2 DEF IsInjective
    <3>2. I # {} => In(m, ready[QueueOf[m]])
      BY DEF In
    <3>. HIDE DEF I
    <3>. QED  BY <3>1, <3>2, AtMostOne
  <2>4. /\ Cardinality(Handled(m)) \in {0, 1} /\ (Handled(m) = {} => Cardinality(Handled(m)) = 0)
        /\ \A c \in Handled(m) : Works(c) /\ c[2] \in open /\ job[c] = m /\ c \in Consumers
    <3>1. \A c \in Handled(m) : Works(c) /\ c[2] \in open /\ job[c] = m /\ c \in Consumers
      BY MsgsAssumption DEF Handled, Works
    <3>2. ASSUME NEW c \in Handled(m), NEW d \in Handled(m)
          PROVE  c = d
      BY <3>1, Apart
    <3>. QED  BY <3>1, <3>2, AtMostOne
  <2>5. /\ I # {} => Handled(m) = {} /\ m \notin Given
        /\ Handled(m) # {} => m \notin Given
    <3>1. In(m, ready[QueueOf[m]]) => Handled(m) = {} /\ m \notin Given
      BY <2>2, <2>4, Apart
    <3>2. \A c \in Handled(m) : m \notin Given
      BY <2>4, Apart
    <3>. HIDE DEF I
    <3>. QED  BY <2>3, <3>1, <3>2
  <2>6. m \in acked => m \notin pending \cup dropped
    BY <2>2 DEF Disjoint
  <2>. HIDE DEF I
  <2>. QED  BY <2>3, <2>4, <2>5, <2>6 DEF I, Given
<1>2. Init => Typed /\ Places
  BY TypeInit, PlacesInit
<1>3. Typed /\ Places /\ [Next]_vars => Typed' /\ Places'
  BY TypeStep, PlacesStep
<1>. QED  BY <1>1, <1>2, <1>3, PTL DEF Spec

-----------------------------------------------------------------------------
(* Acknowledged, therefore written. *)

\* The table of notices is touched by an INSERT, and by what marks them read.
LEMMA TableSteps ==
  ASSUME [Next]_vars
  PROVE  \/ UNCHANGED table
         \/ \E c \in Consumers : Insert(c)
         \/ \E k \in Keys : MarkAsRead(k) \/ MarkAllAsRead(k.user)
<1>1. ASSUME NEW m \in Msgs, PublishAsync(m) \/ PublishRaw(m)
      PROVE  UNCHANGED table
  BY <1>1 DEF PublishAsync, PublishRaw
<1>2. ASSUME NEW c \in Consumers, Deliver(c) \/ Settle(c) \/ SeeClosed(c) \/ HandlerFails(c)
      PROVE  UNCHANGED table
  BY <1>2 DEF Deliver, Settle, SeeClosed, HandlerFails
<1>3. ASSUME NEW c \in Consumers, CheckDuplicate(c)
      PROVE  UNCHANGED table
  BY <1>3, Zenon DEF CheckDuplicate
<1>4. Watch \/ Connect \/ StartConsumer \/ Reconnected \/ ConnectFails => UNCHANGED table
  BY DEF Watch, Connect, StartConsumer, Reconnected, ConnectFails
<1>5. PublisherLost \/ Restart \/ (\E g \in Conns : ConnectionLost(g)) => UNCHANGED table
  BY DEF PublisherLost, Restart, ConnectionLost
<1>6. UNCHANGED vars => UNCHANGED table
  BY DEF vars
<1>. QED  BY <1>1, <1>2, <1>3, <1>4, <1>5, <1>6 DEF Next, Consume, Reconnect

LEMMA Marking ==
  ASSUME Typed, NEW k \in Keys, MarkAsRead(k) \/ MarkAllAsRead(k.user), NEW x \in Keys
  PROVE  unread'[x] + read'[x] = unread[x] + read[x]
<1>1. unread \in [Keys -> Nat] /\ read \in [Keys -> Nat]
  BY Facts
<1>2. CASE MarkAsRead(k)
  BY <1>1, <1>2 DEF MarkAsRead
<1>3. CASE MarkAllAsRead(k.user)
  BY <1>1, <1>3 DEF MarkAllAsRead, Copies
<1>. QED  BY <1>2, <1>3

LEMMA Inserting ==
  ASSUME Typed, NEW c \in Consumers, Insert(c), NEW x \in Keys
  PROVE  unread'[x] + read'[x] = unread[x] + read[x]
           + (IF ~Cancelled(c) /\ Notice(c) \notin Unstorable /\ x = Notice(c) THEN 1 ELSE 0)
<1>1. unread \in [Keys -> Nat] /\ read \in [Keys -> Nat] /\ read' = read
  BY Facts DEF Insert
<1>2. CASE ~Cancelled(c) /\ Notice(c) \notin Unstorable
  <2>1. unread' = [unread EXCEPT ![Notice(c)] = @ + 1]
    BY <1>2, Zenon DEF Insert
  <2>. QED  BY <1>1, <1>2, <2>1
<1>3. CASE Cancelled(c) \/ Notice(c) \in Unstorable
  <2>1. unread' = unread
    BY <1>3, Zenon DEF Insert
  <2>. QED  BY <1>1, <1>3, <2>1
<1>. QED  BY <1>2, <1>3

\* Notifications are never removed.
LEMMA CopiesGrow ==
  ASSUME Typed, [Next]_vars, NEW x \in Keys
  PROVE  /\ unread[x] + read[x] \in Nat /\ unread'[x] + read'[x] \in Nat
         /\ unread'[x] + read'[x] >= unread[x] + read[x]
<1>1. unread \in [Keys -> Nat] /\ read \in [Keys -> Nat]
  BY Facts
<1>2. unread' \in [Keys -> Nat] /\ read' \in [Keys -> Nat]
  BY TypeStep, TypeParts DEF TableType
<1>3. CASE UNCHANGED table
  BY <1>1, <1>3 DEF table
<1>4. ASSUME NEW c \in Consumers, Insert(c)
      PROVE  unread'[x] + read'[x] >= unread[x] + read[x]
  <2>1. \/ unread'[x] + read'[x] = unread[x] + read[x] + 1
        \/ unread'[x] + read'[x] = unread[x] + read[x] + 0
    BY <1>4, Inserting
  <2>. QED  BY <1>1, <1>2, <2>1
<1>5. ASSUME NEW k \in Keys, MarkAsRead(k) \/ MarkAllAsRead(k.user)
      PROVE  unread'[x] + read'[x] >= unread[x] + read[x]
  <2>1. unread'[x] + read'[x] = unread[x] + read[x]
    BY <1>5, Marking
  <2>. QED  BY <1>1, <1>2, <2>1
<1>. QED  BY <1>1, <1>2, <1>3, <1>4, <1>5, TableSteps

LEMMA KeyOf ==
  ASSUME NEW m \in Msgs, NEW i \in DOMAIN Notices[m]
  PROVE  Notices[m][i] \in Keys
BY DEF Keys

LEMMA ToldStays ==
  ASSUME Typed, [Next]_vars, NEW m \in Msgs, NEW i \in DOMAIN Notices[m], Told(m, i)
  PROVE  Told(m, i)'
<1>. DEFINE k == Notices[m][i]
<1>1. k \in Keys
  BY KeyOf
<1>. HIDE DEF k
<1>2. /\ unread[k] + read[k] \in Nat /\ unread'[k] + read'[k] \in Nat
      /\ unread'[k] + read'[k] >= unread[k] + read[k]
  BY <1>1, CopiesGrow
<1>. QED  BY <1>2 DEF Told, Copies, k

\* A handler that stays at its notice has written those before.
LEMMA WroteStays ==
  ASSUME Typed, [Next]_vars, NEW c \in Consumers, WroteBefore(c),
         job'[c] = job[c], at'[c] = at[c], pc'[c] = "ack" => pc[c] = "ack"
  PROVE  WroteBefore(c)'
<1>1. ASSUME NEW m \in Msgs, job[c] = m, NEW i \in DOMAIN Notices[m], i < at[c]
      PROVE  Told(m, i)'
  BY <1>1, ToldStays DEF WroteBefore
<1>. QED  BY <1>1 DEF WroteBefore

\* The steps in which a handler moves past a notice, or takes or leaves a message.
LEMMA WroteConsume ==
  ASSUME Typed, Writing, [Next]_vars, NEW c \in Consumers, Consume(c) \/ HandlerFails(c)
  PROVE  WroteBefore(c)'
<1>1. /\ WroteBefore(c) /\ at[c] \in Nat /\ job \in [Consumers -> Msgs \cup {NoMsg}]
      /\ pc \in [Consumers -> Labels] /\ at \in [Consumers -> Nat] /\ NoMsg \notin Msgs
      /\ (job[c] = NoMsg) <=> (pc[c] \in {"off", "idle", "gone"})
  BY Facts DEF Writing, Works
<1>2. CASE Deliver(c)
  <2>1. at'[c] = 1 /\ pc'[c] = "check"
    BY <1>1, <1>2 DEF Deliver, Goto, WroteBefore
  <2>2. \A m \in Msgs : \A i \in DOMAIN Notices[m] : ~(i < 1)
    BY NoticeRange
  <2>. QED  BY <2>1, <2>2 DEF WroteBefore
<1>3. CASE pc[c] = "check" /\ job' = job /\ pc' = [pc EXCEPT ![c] = "ack"] /\ at' = at
           /\ at[c] > Len(Notices[job[c]])
  <2>1. job'[c] = job[c] /\ at'[c] = at[c] /\ job[c] # NoMsg
    BY <1>1, <1>3
  <2>2. ASSUME NEW m \in Msgs, job[c] = m, NEW i \in DOMAIN Notices[m], i < at[c]
        PROVE  Told(m, i)'
    BY <1>1, <2>2, ToldStays DEF WroteBefore
  <2>. QED  BY <1>3, <2>1, <2>2 DEF WroteBefore
<1>4. ASSUME job' = job, at' = [at EXCEPT ![c] = @ + 1], pc'[c] = "check",
             pc[c] \in {"check", "insert"}, at[c] <= Len(Notices[job[c]]),
             \A m \in Msgs : \A i \in DOMAIN Notices[m] : job[c] = m /\ i = at[c] => Told(m, i)'
      PROVE  WroteBefore(c)'
  <2>1. job'[c] = job[c] /\ at'[c] = at[c] + 1 /\ job[c] # NoMsg
    BY <1>1, <1>4
  <2>2. ASSUME NEW m \in Msgs, job[c] = m, NEW i \in DOMAIN Notices[m], i < at[c] + 1
        PROVE  Told(m, i)'
    <3>1. i \in Nat
      BY NoticeRange
    <3>2. CASE i < at[c]
      BY <1>1, <2>2, <3>2, ToldStays DEF WroteBefore
    <3>3. CASE i = at[c]
      BY <1>4, <2>2, <3>3
    <3>. QED  BY <1>1, <2>2, <3>1, <3>2, <3>3
  <2>. QED  BY <1>4, <2>1, <2>2 DEF WroteBefore
<1>5. CASE CheckDuplicate(c)
  <2>1. /\ pc[c] = "check" /\ job' = job /\ UNCHANGED table
        /\ \/ pc' = [pc EXCEPT ![c] = "ack"] /\ at' = at /\ at[c] > Len(Notices[job[c]])
           \/ at' = at /\ pc' = [pc EXCEPT ![c] = "nack"]
           \/ at' = at /\ pc' = [pc EXCEPT ![c] = "insert"]
           \/ /\ pc' = pc /\ at' = [at EXCEPT ![c] = @ + 1] /\ at[c] <= Len(Notices[job[c]])
              /\ Notice(c).user = Notice(c).actor \/ Copies(Notice(c)) > 0
    BY <1>5, Zenon DEF CheckDuplicate, Goto, NextNotice
  <2>2. CASE at' = at /\ pc'[c] # "ack"
    BY <1>1, <2>1, <2>2, WroteStays
  <2>3. CASE /\ pc' = pc /\ at' = [at EXCEPT ![c] = @ + 1] /\ at[c] <= Len(Notices[job[c]])
             /\ Notice(c).user = Notice(c).actor \/ Copies(Notice(c)) > 0
    <3>1. ASSUME NEW m \in Msgs, NEW i \in DOMAIN Notices[m], job[c] = m, i = at[c]
          PROVE  Told(m, i)'
      <4>1. Told(m, i)
        BY <2>3, <3>1 DEF Told, Notice
      <4>. QED  BY <4>1, ToldStays
    <3>. QED  BY <1>4, <2>1, <2>3, <3>1
  <2>4. pc' = [pc EXCEPT ![c] = "nack"] \/ pc' = [pc EXCEPT ![c] = "insert"] => pc'[c] # "ack"
    BY <1>1
  <2>. QED  BY <1>3, <2>1, <2>2, <2>3, <2>4
<1>6. CASE Insert(c)
  <2>1. CASE ~Cancelled(c) /\ Notice(c) \notin Unstorable
    <3>1. /\ pc[c] = "insert" /\ job' = job /\ pc' = [pc EXCEPT ![c] = "check"]
          /\ at' = [at EXCEPT ![c] = @ + 1]
      BY <1>6, <2>1, Zenon DEF Insert, Goto, NextNotice
    <3>2. at[c] <= Len(Notices[job[c]])
      BY <3>1 DEF Typed, AtFits
    <3>3. ASSUME NEW m \in Msgs, NEW i \in DOMAIN Notices[m], job[c] = m, i = at[c]
          PROVE  Told(m, i)'
      <4>. DEFINE k == Notices[m][i]
      <4>1. k \in Keys /\ k = Notice(c)
        BY <3>3, KeyOf DEF Notice
      <4>. HIDE DEF k
      <4>2. unread[k] + read[k] \in Nat /\ unread'[k] + read'[k] = unread[k] + read[k] + 1
        BY <1>6, <2>1, <4>1, CopiesGrow, Inserting
      <4>3. unread'[k] + read'[k] > 0
        BY <4>2
      <4>. QED  BY <4>3 DEF Told, Copies, k
    <3>4. pc'[c] = "check"
      BY <1>1, <3>1
    <3>. QED  BY <1>4, <3>1, <3>2, <3>3, <3>4
  <2>2. CASE Cancelled(c) \/ Notice(c) \in Unstorable
    <3>1. pc' = [pc EXCEPT ![c] = "nack"] /\ at' = at /\ job' = job
      BY <1>6, <2>2, Zenon DEF Insert, Goto
    <3>. QED  BY <1>1, <3>1, WroteStays
  <2>. QED  BY <2>1, <2>2
<1>7. CASE Settle(c)
  <2>1. job'[c] = NoMsg /\ at'[c] = 1 /\ pc'[c] = "idle"
    BY <1>1, <1>7 DEF Settle, Goto
  <2>. QED  BY <1>1, <2>1 DEF WroteBefore
<1>8. CASE SeeClosed(c) \/ HandlerFails(c)
  <2>1. job' = job /\ at' = at /\ pc'[c] # "ack"
    BY <1>1, <1>8 DEF SeeClosed, HandlerFails, Goto
  <2>. QED  BY <1>1, <2>1, WroteStays
<1>. QED  BY <1>2, <1>5, <1>6, <1>7, <1>8 DEF Consume

\* Where consumers are changes by their own steps, when one is started, and when
\* the process is.
LEMMA HandlerSteps ==
  ASSUME Typed, [Next]_vars
  PROVE  \/ \E c \in Consumers : Consume(c) \/ HandlerFails(c)
         \/ Restart \/ StartConsumer \/ UNCHANGED handler
<1>1. ASSUME NEW m \in Msgs, PublishAsync(m) \/ PublishRaw(m)
      PROVE  UNCHANGED handler
  BY <1>1 DEF PublishAsync, PublishRaw
<1>2. Watch \/ Connect \/ Reconnected \/ ConnectFails => UNCHANGED handler
  BY DEF Watch, Connect, Reconnected, ConnectFails
<1>3. PublisherLost \/ (\E g \in Conns : ConnectionLost(g)) => UNCHANGED handler
  BY DEF PublisherLost, ConnectionLost
<1>4. ASSUME NEW k \in Keys, MarkAsRead(k) \/ MarkAllAsRead(k.user)
      PROVE  UNCHANGED handler
  BY <1>4 DEF MarkAsRead, MarkAllAsRead
<1>5. UNCHANGED vars => UNCHANGED handler
  BY DEF vars
<1>. QED  BY <1>1, <1>2, <1>3, <1>4, <1>5 DEF Next, Reconnect

LEMMA Started ==
  ASSUME Typed, StartConsumer
  PROVE  /\ UNCHANGED <<job, at>>
         /\ \A c \in Consumers : pc'[c] = pc[c] \/ (pc'[c] = "idle" /\ c[2] = conn)
<1>1. pc \in [Consumers -> Labels]
  BY Facts
<1>. DEFINE new == <<Queues[tried + 1], conn>>
<1>2. new \in Consumers /\ new[2] = conn
  BY Starting
<1>3. UNCHANGED <<job, at>> /\ (pc' = pc \/ pc' = [pc EXCEPT ![new] = "idle"])
  BY DEF StartConsumer, Goto
<1>. HIDE DEF new
<1>. QED  BY <1>1, <1>2, <1>3

LEMMA WritingStep ==
  ASSUME Typed, Writing, [Next]_vars
  PROVE  Writing'
<1>. SUFFICES ASSUME NEW c \in Consumers
              PROVE  WroteBefore(c)'
  BY DEF Writing
<1>1. WroteBefore(c)
  BY DEF Writing
<1>2. CASE UNCHANGED handler
  BY <1>1, <1>2, WroteStays DEF handler
<1>3. CASE StartConsumer
  BY <1>1, <1>3, Started, WroteStays
<1>4. CASE Restart
  <2>1. job'[c] = NoMsg /\ at'[c] = 1
    BY <1>4 DEF Restart
  <2>. QED  BY <2>1, MsgsAssumption DEF WroteBefore
<1>5. ASSUME NEW d \in Consumers, Consume(d) \/ HandlerFails(d)
      PROVE  WroteBefore(c)'
  <2>1. CASE c = d
    BY <1>5, <2>1, WroteConsume
  <2>2. CASE c # d
    BY <1>1, <1>5, <2>2, HandlerAlone, WroteStays DEF Alone
  <2>. QED  BY <2>1, <2>2
<1>. QED  BY <1>2, <1>3, <1>4, <1>5, HandlerSteps

\* Only a handler that has come to the end of its notices acknowledges.
LEMMA AckedSteps ==
  ASSUME Typed, [Next]_vars
  PROVE  acked' = acked \/ \E c \in Consumers : /\ pc[c] = "ack" /\ acked' = acked \cup {job[c]}
                                                /\ job[c] \in Msgs
<1>1. ASSUME NEW m \in Msgs, PublishAsync(m) \/ PublishRaw(m)
      PROVE  UNCHANGED acked
  BY <1>1 DEF PublishAsync, PublishRaw
<1>2. ASSUME NEW c \in Consumers, Deliver(c) \/ Insert(c) \/ SeeClosed(c) \/ HandlerFails(c)
      PROVE  UNCHANGED acked
  BY <1>2 DEF Deliver, Insert, SeeClosed, HandlerFails
<1>3. ASSUME NEW c \in Consumers, CheckDuplicate(c)
      PROVE  UNCHANGED acked
  BY <1>3, Zenon DEF CheckDuplicate
<1>4. ASSUME NEW c \in Consumers, Settle(c)
      PROVE  acked' = acked \/ (pc[c] = "ack" /\ acked' = acked \cup {job[c]} /\ job[c] \in Msgs)
  BY <1>4, Facts DEF Settle, Works
<1>5. Watch \/ Connect \/ StartConsumer \/ Reconnected \/ ConnectFails => UNCHANGED acked
  BY DEF Watch, Connect, StartConsumer, Reconnected, ConnectFails
<1>6. PublisherLost \/ Restart \/ (\E g \in Conns : ConnectionLost(g)) => UNCHANGED acked
  BY DEF PublisherLost, Restart, ConnectionLost
<1>7. ASSUME NEW k \in Keys, MarkAsRead(k) \/ MarkAllAsRead(k.user)
      PROVE  UNCHANGED acked
  BY <1>7 DEF MarkAsRead, MarkAllAsRead
<1>8. UNCHANGED vars => UNCHANGED acked
  BY DEF vars
<1>. QED  BY <1>1, <1>2, <1>3, <1>4, <1>5, <1>6, <1>7, <1>8 DEF Next, Consume, Reconnect

AckedTold == \A m \in acked : \A i \in DOMAIN Notices[m] : Told(m, i)

LEMMA AckedStep ==
  ASSUME Typed, Writing, AckedTold, [Next]_vars
  PROVE  AckedTold'
<1>. SUFFICES ASSUME NEW m \in acked', NEW i \in DOMAIN Notices[m]
              PROVE  Told(m, i)'
  BY DEF AckedTold
<1>1. acked \subseteq Msgs
  BY Facts
<1>2. CASE m \in acked
  BY <1>1, <1>2, ToldStays DEF AckedTold
<1>3. CASE m \notin acked
  <2>1. PICK c \in Consumers : pc[c] = "ack" /\ job[c] = m /\ m \in Msgs
    BY <1>3, AckedSteps
  <2>2. at[c] > Len(Notices[m]) /\ \A j \in DOMAIN Notices[m] : j < at[c] => Told(m, j)
    BY <2>1 DEF Writing, WroteBefore
  <2>3. i < at[c]
    BY <2>1, <2>2, NoticeRange, Facts
  <2>4. Told(m, i)
    BY <2>2, <2>3
  <2>. QED  BY <2>1, <2>4, ToldStays
<1>. QED  BY <1>2, <1>3

\* A message is acknowledged only once each notice it calls for is there: an
\* error on the way puts it back in its queue, as a restart does.
AckedMeansNotified ==
  \A m \in acked : \A i \in DOMAIN Notices[m] :
    LET n == Notices[m][i] IN n.user # n.actor => Copies(n) > 0

\* A message is acknowledged only once each notice it calls for is there.
THEOREM NotifiedWhenAcked == Spec => []AckedMeansNotified
<1>1. Init => Typed /\ Writing /\ AckedTold
  <2>1. ASSUME Init
        PROVE  Writing /\ AckedTold
    <3>1. acked = {} /\ \A c \in Consumers : job[c] = NoMsg /\ at[c] = 1
      BY <2>1 DEF Init
    <3>. QED  BY <3>1, MsgsAssumption DEF Writing, WroteBefore, AckedTold
  <2>. QED  BY <2>1, TypeInit
<1>2. Typed /\ Writing /\ AckedTold /\ [Next]_vars => Typed' /\ Writing' /\ AckedTold'
  BY TypeStep, WritingStep, AckedStep
<1>3. AckedTold => AckedMeansNotified
  BY DEF AckedTold, Told, AckedMeansNotified
<1>. QED  BY <1>1, <1>2, <1>3, PTL DEF Spec

-----------------------------------------------------------------------------
(* Written once. *)

LEMMA OneConnectionInit ==
  ASSUME Init
  PROVE  OneConnection /\ Fresh
<1>1. /\ open = {0} /\ conn = 0 /\ cancelled = {} /\ watch = "idle" /\ ~token
      /\ \A c \in Consumers : pc[c] \in {"off", "idle"} /\ ~Works(c) /\ (c[2] # 0 => pc[c] = "off")
      /\ \A k \in Keys : unread[k] = 0 /\ read[k] = 0
  BY DEF Init, Works
<1>2. \A c \in Consumers : ~(c[2] < 0)
  BY Consumer, BoundsAssumption DEF Conns
<1>3. OneConnection
  <2>1. \A c \in Consumers : pc[c] \notin {"off", "gone"} /\ c[2] < conn
          => watch = "start" \/ conn \in cancelled
    BY <1>1, <1>2
  <2>2. open \ cancelled \subseteq {conn}
    BY <1>1
  <2>3. watch = "dial" \/ (token /\ watch # "start") => conn \notin open \ cancelled
    BY <1>1
  <2>. QED  BY <2>1, <2>2, <2>3 DEF OneConnection
<1>4. Fresh
  BY <1>1 DEF Fresh, Copies
<1>. QED  BY <1>3, <1>4

LEMMA WatcherSteps ==
  ASSUME [Next]_vars
  PROVE  \/ UNCHANGED watcher
         \/ \E c \in Consumers : SeeClosed(c)
         \/ Watch \/ Connect \/ StartConsumer \/ Reconnected \/ ConnectFails
         \/ Restart \/ \E g \in Conns : ConnectionLost(g)
<1>1. ASSUME NEW m \in Msgs, PublishAsync(m) \/ PublishRaw(m)
      PROVE  UNCHANGED watcher
  BY <1>1 DEF PublishAsync, PublishRaw
<1>2. ASSUME NEW c \in Consumers, Deliver(c) \/ Insert(c) \/ Settle(c) \/ HandlerFails(c)
      PROVE  UNCHANGED watcher
  BY <1>2 DEF Deliver, Insert, Settle, HandlerFails
<1>3. ASSUME NEW c \in Consumers, CheckDuplicate(c)
      PROVE  UNCHANGED watcher
  BY <1>3, Zenon DEF CheckDuplicate
<1>4. PublisherLost \/ UNCHANGED vars => UNCHANGED watcher
  BY DEF PublisherLost, vars
<1>5. ASSUME NEW k \in Keys, MarkAsRead(k) \/ MarkAllAsRead(k.user)
      PROVE  UNCHANGED watcher
  BY <1>5 DEF MarkAsRead, MarkAllAsRead
<1>. QED  BY <1>1, <1>2, <1>3, <1>4, <1>5 DEF Next, Consume, Reconnect

Active(c) == pc[c] \notin {"off", "gone"}

\* A consumer is active only if it was, or is one of the last connection.
LEMMA ActiveSteps ==
  ASSUME Typed, [Next]_vars, NEW c \in Consumers, Active(c)', c[2] < conn'
  PROVE  Active(c)
<1>1. conn \in Nat /\ c[2] \in Int
  BY Facts, Consumer DEF Conns
<1>2. CASE UNCHANGED handler
  BY <1>2 DEF handler, Active
<1>3. CASE StartConsumer
  <2>1. conn' = conn
    BY <1>3 DEF StartConsumer
  <2>. QED  BY <1>1, <1>3, <2>1, Started DEF Active
<1>4. CASE Restart
  BY <1>1, <1>4 DEF Restart, Active
<1>5. ASSUME NEW d \in Consumers, Consume(d) \/ HandlerFails(d)
      PROVE  Active(c)
  <2>1. CASE c = d
    BY <1>5, <2>1, HandlerAlone DEF Alone, Active
  <2>2. CASE c # d
    BY <1>5, <2>2, HandlerAlone DEF Alone, Active
  <2>. QED  BY <2>1, <2>2
<1>. QED  BY <1>2, <1>3, <1>4, <1>5, HandlerSteps

LEMMA OneConnectionStep ==
  ASSUME Typed, OneConnection, [Next]_vars
  PROVE  OneConnection'
<1>1. /\ open \ cancelled \subseteq {conn} /\ open \subseteq 0 .. conn /\ cancelled \subseteq 0 .. conn
      /\ conn \in Nat /\ \A c \in Consumers : c[2] \in Nat
  BY Facts, Consumer, BoundsAssumption DEF OneConnection, Conns
<1>2. watch = "dial" \/ (token /\ watch # "start") => conn \notin open \ cancelled
  BY DEF OneConnection
<1>3. \A c \in Consumers : Active(c) /\ c[2] < conn => watch = "start" \/ conn \in cancelled
  BY DEF OneConnection, Active
<1>4. SUFFICES /\ open' \ cancelled' \subseteq {conn'}
               /\ watch' = "dial" \/ (token' /\ watch' # "start") => conn' \notin open' \ cancelled'
               /\ \A c \in Consumers : Active(c) /\ c[2] < conn' => watch' = "start" \/ conn' \in cancelled'
                                                                    \/ ~Active(c)'
  <2>1. ASSUME \A c \in Consumers : Active(c) /\ c[2] < conn' => watch' = "start" \/ conn' \in cancelled'
                                                                    \/ ~Active(c)',
               NEW c \in Consumers, pc'[c] \notin {"off", "gone"}, c[2] < conn'
        PROVE  watch' = "start" \/ conn' \in cancelled'
    BY <2>1, ActiveSteps DEF Active
  <2>. QED  BY <2>1 DEF OneConnection
<1>5. CASE UNCHANGED watcher
  BY <1>1, <1>2, <1>3, <1>5 DEF watcher
<1>6. ASSUME NEW c \in Consumers, SeeClosed(c)
      PROVE  conn \notin open \ cancelled \/ watch = "start"
  <2>1. c[2] \notin open /\ Active(c)
    BY <1>6 DEF SeeClosed, Active
  <2>2. ~(c[2] > conn)
    BY <2>1 DEF Typed, NotYet, Active
  <2>3. CASE c[2] = conn
    BY <2>1, <2>3
  <2>4. CASE c[2] < conn
    BY <1>3, <2>1, <2>4
  <2>. QED  BY <1>1, <2>2, <2>3, <2>4
<1>7. ASSUME NEW c \in Consumers, SeeClosed(c)
      PROVE  UNCHANGED <<open, conn, cancelled, watch>>
  BY <1>7 DEF SeeClosed
<1>8. CASE \E c \in Consumers : SeeClosed(c)
  <2>1. UNCHANGED <<open, conn, cancelled, watch>> /\ (conn \notin open \ cancelled \/ watch = "start")
    BY <1>6, <1>7, <1>8
  <2>2. watch = "dial" => conn \notin open \ cancelled
    BY <1>2
  <2>. QED  BY <1>1, <1>3, <2>1, <2>2
<1>9. CASE Watch
  <2>1. watch' = "dial" /\ UNCHANGED <<open, conn, cancelled>> /\ watch = "idle" /\ token
    BY <1>9 DEF Watch
  <2>. QED  BY <1>1, <1>2, <1>3, <2>1
<1>10. CASE Connect
  <2>1. conn' = conn + 1 /\ open' = open \cup {conn + 1} /\ watch' = "start" /\ watch = "dial"
        /\ cancelled' = cancelled
    BY <1>10 DEF Connect
  <2>2. open \ cancelled = {}
    BY <1>1, <1>2, <2>1
  <2>. QED  BY <2>1, <2>2
<1>11. CASE StartConsumer
  <2>1. UNCHANGED <<open, conn, cancelled, watch>> /\ watch = "start"
    BY <1>11 DEF StartConsumer
  <2>. QED  BY <1>1, <2>1
<1>12. CASE Reconnected
  <2>1. cancelled' = cancelled \cup {conn} /\ UNCHANGED <<open, conn>>
    BY <1>12 DEF Reconnected
  <2>. QED  BY <1>1, <2>1
<1>13. CASE ConnectFails
  <2>1. watch = "dial" /\ watch' \in {"idle", "dial"} /\ UNCHANGED <<open, conn, cancelled>>
    BY <1>13 DEF ConnectFails
  <2>. QED  BY <1>1, <1>2, <1>3, <2>1
<1>14. CASE Restart
  <2>1. conn' = conn + 1 /\ open' = {conn + 1} /\ ~token' /\ watch' = "idle"
    BY <1>14 DEF Restart
  <2>2. ASSUME NEW c \in Consumers, c[2] < conn + 1
        PROVE  pc'[c] = "gone"
    <3>1. c[2] # conn + 1 /\ c[2] <= conn
      BY <1>1, <2>2
    <3>. QED  BY <1>14, <3>1 DEF Restart
  <2>. QED  BY <2>1, <2>2 DEF Active
<1>15. CASE \E g \in Conns : ConnectionLost(g)
  <2>1. open' \subseteq open /\ UNCHANGED <<conn, cancelled, token, watch>>
    BY <1>15 DEF ConnectionLost
  <2>. QED  BY <1>1, <1>2, <1>3, <2>1
<1>. QED  BY <1>5, <1>8, <1>9, <1>10, <1>11, <1>12, <1>13, <1>14, <1>15, WatcherSteps

\* Two handlers of one connection are of two queues, and write other notices.
LEMMA OtherNotice ==
  ASSUME Typed, Places, NEW c \in Consumers, NEW d \in Consumers,
         c # d, c[2] = d[2], pc[c] = "insert", pc[d] = "insert"
  PROVE  Notice(c) # Notice(d)
<1>1. Works(c) /\ Works(d)
  BY Facts
<1>2. /\ at[c] \in DOMAIN Notices[job[c]] /\ at[d] \in DOMAIN Notices[job[d]]
      /\ job[c] \in Msgs /\ job[d] \in Msgs
  BY <1>1, NoticeType, Facts DEF Typed, AtFits
<1>3. QueueOf[job[c]] = c[1] /\ QueueOf[job[d]] = d[1]
  BY <1>1, Apart
<1>4. c[1] # d[1]
  BY Consumer
<1>. QED  BY <1>2, <1>3, <1>4, NoticeAssumption DEF Notice

\* A handler that works, that is about to insert, and the notice it is at.
Busy(c) == Works(c) => c[2] \in open
ToInsert(c) == pc[c] = "insert" /\ c[2] \notin cancelled

\* A message is taken on a connection that is up, and a connection lost under
\* no handler's hands takes none of them.
LEMMA BusyStep ==
  ASSUME Typed, [Next]_vars, orphaned' = {}, NEW c \in Consumers, Busy(c)
  PROVE  Busy(c)'
<1>1. /\ pc \in [Consumers -> Labels] /\ job \in [Consumers -> Msgs \cup {NoMsg}]
      /\ Works(c) <=> pc[c] \notin {"off", "idle", "gone"}
  BY Facts
<1>2. CASE Restart
  BY <1>2 DEF Restart, Busy, Works
<1>3. CASE Deliver(c)
  <2>1. c[2] \in open /\ open' = open
    BY <1>3 DEF Deliver, watcher
  <2>. QED  BY <2>1 DEF Busy
<1>4. ASSUME ~Restart, ~Deliver(c)
      PROVE  job'[c] = job[c] \/ job'[c] = NoMsg
  <2>1. CASE UNCHANGED handler
    BY <2>1 DEF handler
  <2>2. CASE StartConsumer
    BY <2>2, Started
  <2>3. ASSUME NEW d \in Consumers, Consume(d) \/ HandlerFails(d), c # d
        PROVE  job'[c] = job[c]
    BY <2>3, HandlerAlone DEF Alone
  <2>4. CASE Insert(c) \/ SeeClosed(c) \/ HandlerFails(c)
    BY <2>4 DEF Insert, SeeClosed, HandlerFails
  <2>5. CASE CheckDuplicate(c)
    BY <2>5, Zenon DEF CheckDuplicate
  <2>6. CASE Settle(c)
    BY <1>1, <2>6 DEF Settle
  <2>. QED  BY <1>4, <2>1, <2>2, <2>3, <2>4, <2>5, <2>6, HandlerSteps DEF Consume
<1>5. ASSUME c[2] \in open, c[2] \notin open', ~Restart
      PROVE  ConnectionLost(c[2])
  <2>1. CASE UNCHANGED watcher
    BY <1>5, <2>1 DEF watcher
  <2>2. ASSUME NEW d \in Consumers, SeeClosed(d)
        PROVE  FALSE
    BY <1>5, <2>2 DEF SeeClosed
  <2>3. CASE Watch \/ Connect \/ StartConsumer \/ Reconnected \/ ConnectFails
    BY <1>5, <2>3 DEF Watch, Connect, StartConsumer, Reconnected, ConnectFails
  <2>4. ASSUME NEW g \in Conns, ConnectionLost(g)
        PROVE  ConnectionLost(c[2])
    <3>1. g = c[2]
      BY <1>5, <2>4 DEF ConnectionLost
    <3>. QED  BY <2>4, <3>1
  <2>. QED  BY <1>5, <2>1, <2>2, <2>3, <2>4, WatcherSteps
<1>6. ConnectionLost(c[2]) => job'[c] = NoMsg
  <2>1. SUFFICES ASSUME ConnectionLost(c[2])
                 PROVE  job'[c] = NoMsg
    OBVIOUS
  <2>2. job' = job /\ orphaned' = orphaned \cup ({job[<<q, c[2]>>] : q \in QueueSet} \ {NoMsg})
    BY <2>1 DEF ConnectionLost, handler
  <2>3. c = <<c[1], c[2]>> /\ c[1] \in QueueSet
    BY Consumer
  <2>4. job[<<c[1], c[2]>>] = NoMsg
    BY <2>2, <2>3
  <2>. QED  BY <2>2, <2>3, <2>4
<1>. QED  BY <1>2, <1>3, <1>4, <1>5, <1>6 DEF Busy, Works

LEMMA OrphansStay ==
  ASSUME [Next]_vars
  PROVE  orphaned \subseteq orphaned'
<1>1. CASE UNCHANGED counts \/ Fault
  BY <1>1 DEF counts, Fault
<1>2. ASSUME NEW m \in Msgs, PublishAsync(m) \/ PublishRaw(m)
      PROVE  UNCHANGED counts
  BY <1>2 DEF PublishAsync, PublishRaw
<1>3. ASSUME NEW c \in Consumers, Deliver(c) \/ Insert(c) \/ Settle(c) \/ SeeClosed(c) \/ HandlerFails(c)
      PROVE  UNCHANGED counts \/ Fault
  BY <1>3 DEF Deliver, Insert, Settle, SeeClosed, HandlerFails
<1>4. ASSUME NEW c \in Consumers, CheckDuplicate(c)
      PROVE  UNCHANGED counts
  BY <1>4, Zenon DEF CheckDuplicate
<1>5. Watch \/ Connect \/ StartConsumer \/ Reconnected \/ ConnectFails => UNCHANGED counts \/ Fault
  BY DEF Watch, Connect, StartConsumer, Reconnected, ConnectFails
<1>6. PublisherLost \/ Restart \/ UNCHANGED vars => UNCHANGED counts \/ Fault
  BY DEF PublisherLost, Restart, vars
<1>7. ASSUME NEW g \in Conns, ConnectionLost(g)
      PROVE  orphaned \subseteq orphaned'
  BY <1>7 DEF ConnectionLost
<1>8. ASSUME NEW k \in Keys, MarkAsRead(k) \/ MarkAllAsRead(k.user)
      PROVE  UNCHANGED counts
  BY <1>8 DEF MarkAsRead, MarkAllAsRead
<1>. QED  BY <1>1, <1>2, <1>3, <1>4, <1>5, <1>6, <1>7, <1>8 DEF Next, Consume, Reconnect

LEMMA CancelledStay ==
  ASSUME [Next]_vars
  PROVE  cancelled \subseteq cancelled'
<1>1. CASE UNCHANGED watcher
  BY <1>1 DEF watcher
<1>2. ASSUME NEW c \in Consumers, SeeClosed(c)
      PROVE  cancelled' = cancelled
  BY <1>2 DEF SeeClosed
<1>3. Watch \/ Connect \/ StartConsumer \/ ConnectFails \/ Restart => cancelled' = cancelled
  BY DEF Watch, Connect, StartConsumer, ConnectFails, Restart
<1>4. Reconnected => cancelled \subseteq cancelled'
  BY DEF Reconnected
<1>5. ASSUME NEW g \in Conns, ConnectionLost(g)
      PROVE  cancelled' = cancelled
  BY <1>5 DEF ConnectionLost
<1>. QED  BY <1>1, <1>2, <1>3, <1>4, <1>5, WatcherSteps

\* Who is about to insert was already, or has just found no duplicate.
LEMMA InsertNext ==
  ASSUME Typed, [Next]_vars, NEW c \in Consumers, pc'[c] = "insert"
  PROVE  /\ job'[c] = job[c] /\ at'[c] = at[c]
         /\ \/ pc[c] = "insert" /\ ~Insert(c)
            \/ /\ pc[c] = "check" /\ UNCHANGED table /\ Copies(Notice(c)) = 0
               /\ Notice(c).user # Notice(c).actor
<1>1. /\ pc \in [Consumers -> Labels] /\ job \in [Consumers -> Msgs \cup {NoMsg}] /\ at \in [Consumers -> Nat]
  BY Facts
<1>2. ~Insert(c)
  BY <1>1 DEF Insert, Goto
<1>3. CASE UNCHANGED handler
  BY <1>2, <1>3 DEF handler
<1>4. CASE StartConsumer
  BY <1>2, <1>4, Started
<1>5. ~Restart
  BY DEF Restart
<1>6. ASSUME NEW d \in Consumers, Consume(d) \/ HandlerFails(d), c # d
      PROVE  job'[c] = job[c] /\ at'[c] = at[c] /\ pc'[c] = pc[c]
  BY <1>6, HandlerAlone DEF Alone
<1>7. ~Deliver(c) /\ ~Settle(c) /\ ~SeeClosed(c) /\ ~HandlerFails(c)
  BY <1>1 DEF Deliver, Settle, SeeClosed, HandlerFails, Goto
<1>8. CASE CheckDuplicate(c)
  <2>1. /\ pc[c] = "check" /\ job' = job /\ UNCHANGED table
        /\ \/ at' = at /\ pc' = [pc EXCEPT ![c] = "ack"]
           \/ at' = at /\ pc' = [pc EXCEPT ![c] = "nack"]
           \/ pc' = pc
           \/ /\ pc' = [pc EXCEPT ![c] = "insert"] /\ at' = at /\ Copies(Notice(c)) = 0
              /\ Notice(c).user # Notice(c).actor
    BY <1>8, Zenon DEF CheckDuplicate, Goto, NextNotice
  <2>2. at' = at /\ Copies(Notice(c)) = 0 /\ Notice(c).user # Notice(c).actor
    BY <1>1, <2>1
  <2>. QED  BY <2>1, <2>2
<1>. QED  BY <1>2, <1>3, <1>4, <1>5, <1>6, <1>7, <1>8, HandlerSteps DEF Consume

FreshNow ==
  /\ \A c \in Consumers : Busy(c)
  /\ \A c \in Consumers : \A k \in Keys : ToInsert(c) /\ Notices[job[c]][at[c]] = k => unread[k] + read[k] = 0
  /\ \A k \in Keys : unread[k] + read[k] <= 1

LEMMA FreshIs ==
  ASSUME Typed
  PROVE  Fresh => (orphaned = {} => FreshNow)
<1>1. \A c \in Consumers : pc[c] = "insert" => Notice(c) \in Keys /\ Notice(c) = Notices[job[c]][at[c]]
  BY NoticeType, Facts DEF Typed, AtFits
<1>. QED  BY <1>1 DEF Fresh, FreshNow, Busy, ToInsert, Cancelled, Copies

LEMMA FreshIsNext ==
  ASSUME Typed', orphaned' = {} => FreshNow'
  PROVE  Fresh'
<1>1. ASSUME NEW c \in Consumers, pc'[c] = "insert"
      PROVE  Notices[job'[c]][at'[c]] \in Keys
  <2>1. job'[c] \in Msgs /\ at'[c] \in Nat /\ at'[c] >= 1 /\ at'[c] <= Len(Notices[job'[c]])
    BY <1>1, MsgsAssumption, TypeParts DEF HandlerType, AtFits
  <2>2. at'[c] \in DOMAIN Notices[job'[c]]
    BY <2>1, NoticeRange
  <2>. QED  BY <2>1, <2>2, NoticeRange
<1>. QED  BY <1>1 DEF Fresh, FreshNow, Busy, ToInsert, Cancelled, Copies, Notice

LEMMA FreshStep ==
  ASSUME Typed, Places, OneConnection, FreshNow, [Next]_vars, orphaned' = {}
  PROVE  FreshNow'
<1>1. \A c \in Consumers : Busy(c)'
  BY BusyStep DEF FreshNow
<1>2. /\ open \ cancelled \subseteq {conn} /\ cancelled \subseteq cancelled'
      /\ \A c \in Consumers : Busy(c)
      /\ \A c \in Consumers : \A k \in Keys : ToInsert(c) /\ Notices[job[c]][at[c]] = k => unread[k] + read[k] = 0
      /\ \A k \in Keys : unread[k] + read[k] <= 1 /\ unread[k] + read[k] \in Nat
  BY CancelledStay, CopiesGrow DEF OneConnection, FreshNow
<1>3. \A c \in Consumers : ToInsert(c) => c[2] = conn
  <2>1. \A c \in Consumers : pc[c] = "insert" => Works(c)
    BY Facts
  <2>. QED  BY <1>2, <2>1 DEF ToInsert, Busy
<1>4. ASSUME NEW d \in Consumers, Insert(d), NEW k \in Keys
      PROVE  \/ unread'[k] + read'[k] = unread[k] + read[k]
             \/ ToInsert(d) /\ k = Notice(d) /\ unread'[k] + read'[k] = 1
  <2>1. CASE ~Cancelled(d) /\ Notice(d) \notin Unstorable /\ k = Notice(d)
    <3>1. ToInsert(d)
      BY <1>4, <2>1 DEF Insert, ToInsert, Cancelled
    <3>2. unread[k] + read[k] = 0
      BY <1>2, <2>1, <3>1 DEF Notice
    <3>3. unread'[k] + read'[k] = unread[k] + read[k] + 1
      BY <1>4, <2>1, Inserting
    <3>. QED  BY <2>1, <3>1, <3>2, <3>3
  <2>2. CASE ~(~Cancelled(d) /\ Notice(d) \notin Unstorable /\ k = Notice(d))
    <3>1. unread'[k] + read'[k] = unread[k] + read[k] + 0
      BY <1>4, <2>2, Inserting
    <3>. QED  BY <1>2, <3>1
  <2>. QED  BY <2>1, <2>2
<1>5. ASSUME NEW k \in Keys, \A d \in Consumers : ~Insert(d)
      PROVE  unread'[k] + read'[k] = unread[k] + read[k]
  <2>1. UNCHANGED table => unread'[k] + read'[k] = unread[k] + read[k]
    BY DEF table
  <2>. QED  BY <1>5, <2>1, TableSteps, Marking
<1>6. \A k \in Keys : unread'[k] + read'[k] <= 1
  <2>1. ASSUME NEW k \in Keys
        PROVE  unread'[k] + read'[k] = unread[k] + read[k] \/ unread'[k] + read'[k] = 1
    BY <1>4, <1>5
  <2>. QED  BY <1>2, <2>1
<1>7. ASSUME NEW c \in Consumers, ToInsert(c)', NEW k \in Keys, Notices[job'[c]][at'[c]] = k
      PROVE  unread'[k] + read'[k] = 0
  <2>1. pc'[c] = "insert" /\ c[2] \notin cancelled
    BY <1>2, <1>7 DEF ToInsert
  <2>2. /\ Notices[job[c]][at[c]] = k
        /\ \/ pc[c] = "insert" /\ ~Insert(c)
           \/ UNCHANGED table /\ Copies(Notice(c)) = 0
    BY <1>7, <2>1, InsertNext
  <2>3. CASE UNCHANGED table /\ Copies(Notice(c)) = 0
    BY <2>2, <2>3 DEF table, Copies, Notice
  <2>4. CASE pc[c] = "insert" /\ ~Insert(c)
    <3>1. ToInsert(c) /\ unread[k] + read[k] = 0
      BY <1>2, <2>1, <2>2, <2>4 DEF ToInsert
    <3>2. ASSUME NEW d \in Consumers, Insert(d)
          PROVE  unread'[k] + read'[k] = unread[k] + read[k]
      <4>1. SUFFICES ASSUME ToInsert(d), k = Notice(d)
                     PROVE  FALSE
        BY <1>4, <3>2
      <4>2. c # d /\ c[2] = d[2]
        BY <1>3, <2>4, <3>1, <3>2, <4>1
      <4>. QED  BY <2>2, <2>4, <4>1, <4>2, OtherNotice DEF ToInsert, Notice
    <3>. QED  BY <1>5, <3>1, <3>2
  <2>. QED  BY <2>2, <2>3, <2>4
<1>. QED  BY <1>1, <1>6, <1>7 DEF FreshNow

\* However often a message is delivered and the process restarted, a notice is
\* written once, unless a connection was lost under a handler at work.
THEOREM WrittenOnce == Spec => []OnceUnlessOrphaned
<1>. DEFINE Inv == Typed /\ Places /\ OneConnection /\ Fresh
<1>1. Init => Inv
  BY TypeInit, PlacesInit, OneConnectionInit
<1>2. Inv /\ [Next]_vars => Inv'
  <2>1. SUFFICES ASSUME Inv, [Next]_vars
                 PROVE  Inv'
    OBVIOUS
  <2>2. Typed' /\ Places' /\ OneConnection'
    BY <2>1, TypeStep, PlacesStep, OneConnectionStep
  <2>3. Fresh'
    <3>1. orphaned' = {} => FreshNow'
      BY <2>1, OrphansStay, FreshIs, FreshStep
    <3>. QED  BY <2>2, <3>1, FreshIsNext
  <2>. QED  BY <2>2, <2>3
<1>3. Inv => OnceUnlessOrphaned
  BY DEF Fresh, OnceUnlessOrphaned
<1>. QED  BY <1>1, <1>2, <1>3, PTL DEF Spec

-----------------------------------------------------------------------------
(* Delivery at least once: a step on the way of an event is a step of      *)
(* Delivery, or none.                                                      *)

Took    == {m \in Msgs : Accepted(m)}
Counted == [k \in Keys |-> Copies(k)]

LEMMA AcceptedIs ==
  ASSUME NEW x \in Msgs
  PROVE  /\ Accepted(x) <=> \/ In(x, ready[QueueOf[x]])
                            \/ \E c \in Consumers : job[c] = x /\ c[2] \in open
                            \/ x \in acked
         /\ Accepted(x)' <=> \/ In(x, ready'[QueueOf[x]])
                             \/ \E c \in Consumers : job'[c] = x /\ c[2] \in open'
                             \/ x \in acked'
BY DEF Accepted, InQueue, Handled, In

\* Steps that leave messages where they are, or open a connection.
LEMMA TookKept ==
  ASSUME Typed, UNCHANGED <<ready, acked, job>>, open' = open \/ open' = open \cup {conn + 1}
  PROVE  Took' = Took
<1>1. ASSUME NEW c \in Consumers, NEW x \in Msgs, job[c] = x
      PROVE  (c[2] \in open') <=> (c[2] \in open)
  <2>1. c[2] # conn + 1
    <3>1. pc[c] # "off" /\ conn \in Nat
      BY <1>1, Facts DEF Works
    <3>. QED  BY <3>1 DEF Typed, NotYet
  <2>. QED  BY <2>1
<1>2. \A x \in Msgs : Accepted(x)' <=> Accepted(x)
  BY <1>1, AcceptedIs
<1>. QED  BY <1>2 DEF Took

LEMMA TookPublish ==
  ASSUME Typed, NEW m \in Msgs, ready' = [ready EXCEPT ![QueueOf[m]] = Append(@, m)],
         UNCHANGED <<acked, job, open>>
  PROVE  Took' = Took \cup {m}
<1>1. ready \in [QueueSet -> Seq(Msgs)] /\ QueueOf \in [Msgs -> QueueSet]
  BY Facts
<1>2. ASSUME NEW x \in Msgs
      PROVE  In(x, ready'[QueueOf[x]]) <=> x = m \/ In(x, ready[QueueOf[x]])
  <2>1. CASE QueueOf[x] # QueueOf[m]
    BY <1>1, <2>1
  <2>2. CASE QueueOf[x] = QueueOf[m]
    <3>. DEFINE s == ready[QueueOf[m]]
    <3>1. s \in Seq(Msgs) /\ ready'[QueueOf[m]] = Append(s, m)
      BY <1>1
    <3>. HIDE DEF s
    <3>2. In(x, Append(s, m)) <=> x = m \/ In(x, s)
      BY <3>1, Added
    <3>. QED  BY <2>2, <3>1, <3>2 DEF s
  <2>. QED  BY <2>1, <2>2
<1>3. \A x \in Msgs : Accepted(x)' <=> x = m \/ Accepted(x)
  BY <1>2, AcceptedIs
<1>. QED  BY <1>3 DEF Took

LEMMA TookDeliver ==
  ASSUME Typed, Places, NEW c \in Consumers, Deliver(c)
  PROVE  Took' = Took
<1>. DEFINE s == ready[c[1]]
            m == Head(s)
<1>1. /\ s # <<>> /\ c[2] \in open /\ pc[c] = "idle"
      /\ job' = [job EXCEPT ![c] = m] /\ ready' = [ready EXCEPT ![c[1]] = Tail(@)]
      /\ UNCHANGED <<acked, open>>
  BY DEF Deliver, watcher
<1>2. /\ ready \in [QueueSet -> Seq(Msgs)] /\ job \in [Consumers -> Msgs \cup {NoMsg}] /\ c[1] \in QueueSet
      /\ QueueOf \in [Msgs -> QueueSet]
  BY Facts, Consumer
<1>3. s \in Seq(Msgs) /\ job[c] \notin Msgs
  BY <1>1, <1>2, Facts DEF Works
<1>4. ready'[c[1]] = Tail(s) /\ \A q \in QueueSet \ {c[1]} : ready'[q] = ready[q]
  BY <1>1, <1>2
<1>5. job'[c] = m /\ \A d \in Consumers \ {c} : job'[d] = job[d]
  BY <1>1, <1>2
<1>6. /\ m \in Msgs /\ In(m, s) /\ \A x : In(x, s) <=> x = m \/ In(x, Tail(s))
  <2>1. /\ Len(Tail(s)) = Len(s) - 1 /\ \A i \in 1 .. Len(Tail(s)) : Tail(s)[i] = s[i + 1]
        /\ Len(s) \in Nat /\ Len(s) >= 1 /\ DOMAIN s = 1 .. Len(s) /\ Head(s) = s[1]
        /\ DOMAIN Tail(s) = 1 .. Len(s) - 1
    BY <1>1, <1>3, HeadTailProperties, EmptySeq
  <2>. HIDE DEF s
  <2>2. ASSUME NEW i \in DOMAIN s, s[i] # Head(s)
        PROVE  i - 1 \in DOMAIN Tail(s) /\ Tail(s)[i - 1] = s[i]
    BY <2>1, <2>2
  <2>3. \A x : In(x, s) => x = Head(s) \/ In(x, Tail(s))
    BY <2>2 DEF In
  <2>. QED  BY <1>1, <1>3, <2>3, Taken
<1>7. QueueOf[m] = c[1]
  BY <1>2, <1>6, Apart
<1>. HIDE DEF s, m
<1>8. ASSUME NEW x \in Msgs
      PROVE  Accepted(x)' <=> Accepted(x)
  <2>1. In(x, ready[QueueOf[x]]) <=> In(x, ready'[QueueOf[x]]) \/ x = m
    <3>1. CASE QueueOf[x] = c[1]
      BY <1>4, <1>6, <3>1 DEF s
    <3>2. CASE QueueOf[x] # c[1]
      BY <1>2, <1>4, <1>7, <3>2
    <3>. QED  BY <3>1, <3>2
  <2>2. (\E d \in Consumers : job'[d] = x /\ d[2] \in open')
          <=> (x = m \/ \E d \in Consumers : job[d] = x /\ d[2] \in open)
    BY <1>1, <1>3, <1>5
  <2>. QED  BY <1>1, <2>1, <2>2, AcceptedIs
<1>. QED  BY <1>8 DEF Took

LEMMA TookSettle ==
  ASSUME Typed, Places, NEW c \in Consumers, Settle(c)
  PROVE  Took' = Took
<1>. DEFINE m == job[c]
<1>1. /\ \/ c[2] \notin open /\ UNCHANGED <<acked, ready>>
         \/ c[2] \in open /\ acked' = acked \cup {m} /\ UNCHANGED ready
         \/ c[2] \in open /\ ready' = [ready EXCEPT ![c[1]] = <<m>> \o @] /\ UNCHANGED acked
      /\ job' = [job EXCEPT ![c] = NoMsg] /\ open' = open
  BY DEF Settle, Requeued, watcher
<1>2. /\ ready \in [QueueSet -> Seq(Msgs)] /\ job \in [Consumers -> Msgs \cup {NoMsg}] /\ c[1] \in QueueSet
      /\ QueueOf \in [Msgs -> QueueSet] /\ NoMsg \notin Msgs
  BY Facts, Consumer
<1>3. m \in Msgs /\ QueueOf[m] = c[1]
  <2>1. Works(c)
    BY Facts DEF Settle
  <2>. QED  BY <2>1, Apart
<1>4. job'[c] = NoMsg /\ \A d \in Consumers \ {c} : job'[d] = job[d]
  BY <1>1, <1>2
<1>. HIDE DEF m
<1>5. ASSUME NEW x \in Msgs
      PROVE  (\E d \in Consumers : job[d] = x /\ d[2] \in open)
               <=> (x = m /\ c[2] \in open) \/ \E d \in Consumers : job'[d] = x /\ d[2] \in open'
  BY <1>1, <1>2, <1>4 DEF m
<1>6. ASSUME NEW x \in Msgs, ready' = [ready EXCEPT ![c[1]] = <<m>> \o @]
      PROVE  In(x, ready'[QueueOf[x]]) <=> x = m \/ In(x, ready[QueueOf[x]])
  <2>. DEFINE s == ready[c[1]]
  <2>1. s \in Seq(Msgs) /\ ready'[c[1]] = <<m>> \o s /\ \A q \in QueueSet \ {c[1]} : ready'[q] = ready[q]
    BY <1>2, <1>6
  <2>. HIDE DEF s
  <2>2. In(x, <<m>> \o s) <=> x = m \/ In(x, s)
    BY <1>3, <2>1, Added
  <2>. QED  BY <1>2, <1>3, <2>1, <2>2 DEF s
<1>7. ASSUME NEW x \in Msgs
      PROVE  Accepted(x)' <=> Accepted(x)
  BY <1>1, <1>5, <1>6, AcceptedIs
<1>. QED  BY <1>7 DEF Took

LEMMA TookLost ==
  ASSUME Typed, Places, NEW g \in Conns, ConnectionLost(g)
  PROVE  Took' = Took
<1>1. /\ g \in open /\ open' = open \ {g} /\ ready' = Returned(g) /\ UNCHANGED <<acked, job>>
  BY DEF ConnectionLost, handler
<1>2. /\ ready \in [QueueSet -> Seq(Msgs)] /\ job \in [Consumers -> Msgs \cup {NoMsg}]
      /\ QueueOf \in [Msgs -> QueueSet] /\ NoMsg \notin Msgs
      /\ \A q \in QueueSet : <<q, g>> \in Consumers /\ <<q, g>>[2] = g /\ <<q, g>>[1] = q
  BY Facts DEF Consumers
<1>3. ASSUME NEW q \in QueueSet, NEW x \in Msgs
      PROVE  In(x, ready'[q]) <=> x = job[<<q, g>>] \/ In(x, ready[q])
  <2>. DEFINE m == job[<<q, g>>]
              s == ready[q]
  <2>1. s \in Seq(Msgs) /\ m \in Msgs \cup {NoMsg} /\ ready'[q] = IF m = NoMsg THEN s ELSE <<m>> \o s
    BY <1>1, <1>2 DEF Returned
  <2>. HIDE DEF m, s
  <2>2. m # NoMsg => (In(x, <<m>> \o s) <=> x = m \/ In(x, s))
    BY <2>1, Added
  <2>. QED  BY <1>2, <2>1, <2>2 DEF m, s
<1>4. ASSUME NEW x \in Msgs
      PROVE  (\E d \in Consumers : job[d] = x /\ d[2] \in open)
               <=> x = job[<<QueueOf[x], g>>] \/ \E d \in Consumers : job[d] = x /\ d[2] \in open'
  <2>1. ASSUME NEW d \in Consumers, job[d] = x, d[2] = g
        PROVE  x = job[<<QueueOf[x], g>>]
    <3>1. Works(d)
      BY <1>2, <2>1 DEF Works
    <3>2. d = <<QueueOf[x], g>>
      BY <2>1, <3>1, Apart, Consumer
    <3>. QED  BY <2>1, <3>2
  <2>. QED  BY <1>1, <1>2, <2>1
<1>5. \A x \in Msgs : Accepted(x)' <=> Accepted(x)
  BY <1>1, <1>2, <1>3, <1>4, AcceptedIs
<1>. QED  BY <1>5 DEF Took

\* All the messages of a set are in the queue they are put back into.
LEMMA BackAgain ==
  ASSUME NEW T \in SUBSET Msgs, IsFiniteSet(T), NEW s \in Seq(Msgs), NEW x, x \in T \/ In(x, s)
  PROVE  In(x, SetToSeq(T) \o s)
<1>. DEFINE n == Cardinality(T)
            f == SetToSeq(T)
            t == f \o s
<1>1. n \in Nat /\ ExistsBijection(1 .. n, T)
  BY FS_CardinalityType
<1>2. f \in [1 .. n -> T] /\ IsInjective(f)
  <2>1. \E g \in [1 .. n -> T] : IsInjective(g)
    BY <1>1, Zenon DEF ExistsBijection, Bijection, Injection
  <2>. QED  BY <2>1 DEF SetToSeq
<1>. HIDE DEF f
<1>3. \A y \in T : \E i \in 1 .. n : f[i] = y
  <2>1. IsFiniteSet(1 .. n) /\ Cardinality(1 .. n) = n
    BY <1>1, FS_Interval
  <2>2. f \in Injection(1 .. n, T)
    BY <1>2 DEF Injection, IsInjective
  <2>3. f \in Surjection(1 .. n, T)
    BY <2>1, <2>2, FS_Injection
  <2>. QED  BY <2>3 DEF Surjection
<1>4. f \in Seq(Msgs) /\ Len(f) = n /\ DOMAIN f = 1 .. n
  <2>1. f \in [1 .. n -> Msgs] /\ DOMAIN f = 1 .. n
    BY <1>2
  <2>2. f \in Seq(Msgs)
    BY <1>1, <2>1, SeqDef
  <2>3. Len(f) \in Nat /\ DOMAIN f = 1 .. Len(f)
    BY <2>2, LenProperties
  <2>. QED  BY <1>1, <2>1, <2>2, <2>3
<1>. HIDE DEF n
<1>5. /\ Len(s) \in Nat /\ DOMAIN s = 1 .. Len(s) /\ DOMAIN t = 1 .. n + Len(s)
      /\ \A i \in 1 .. n + Len(s) : t[i] = IF i <= n THEN f[i] ELSE s[i - n]
  <2>1. /\ t \in Seq(Msgs) /\ Len(t) = Len(f) + Len(s)
        /\ \A i \in 1 .. Len(f) + Len(s) : t[i] = IF i <= Len(f) THEN f[i] ELSE s[i - Len(f)]
    BY <1>4, ConcatProperties
  <2>2. DOMAIN t = 1 .. Len(t) /\ Len(s) \in Nat /\ DOMAIN s = 1 .. Len(s)
    BY <2>1, LenProperties
  <2>. HIDE DEF t
  <2>. QED  BY <1>4, <2>1, <2>2
<1>. HIDE DEF t
<1>6. CASE x \in T
  <2>1. PICK i \in 1 .. n : f[i] = x
    BY <1>3, <1>6
  <2>2. i \in DOMAIN t /\ t[i] = x
    BY <1>1, <1>5, <2>1 DEF n
  <2>. QED  BY <2>2 DEF In, t, f
<1>7. CASE In(x, s)
  <2>1. PICK i \in DOMAIN s : s[i] = x
    BY <1>7 DEF In
  <2>2. n \in Nat
    BY <1>1 DEF n
  <2>3. i + n \in DOMAIN t /\ t[i + n] = x
    BY <1>5, <2>1, <2>2
  <2>. QED  BY <2>3 DEF In, t, f
<1>. QED  BY <1>6, <1>7

LEMMA TookRestart ==
  ASSUME Typed, Places, Restart
  PROVE  Took' = Took
<1>1. /\ ready' = [q \in QueueSet |-> SetToSeq({job[<<q, g>>] : g \in open} \ {NoMsg}) \o ready[q]]
      /\ job' = [c \in Consumers |-> NoMsg] /\ acked' = acked
  BY DEF Restart
<1>2. /\ open \in SUBSET Conns /\ QueueOf \in [Msgs -> QueueSet] /\ NoMsg \notin Msgs
      /\ \A q \in QueueSet, g \in open : <<q, g>> \in Consumers
  <2>1. open \in SUBSET Conns
    BY Facts DEF Conns
  <2>. QED  BY <2>1, Facts DEF Consumers
<1>3. ASSUME NEW q \in QueueSet, NEW x \in Msgs
      PROVE  In(x, ready'[q]) <=> In(x, ready[q]) \/ \E g \in open : x = job[<<q, g>>]
  <2>. DEFINE T == {job[<<q, g>>] : g \in open} \ {NoMsg}
              s == ready[q]
  <2>1. T \in SUBSET Msgs /\ IsFiniteSet(T)
    BY <1>2, Held
  <2>2. s \in Seq(Msgs) /\ ready'[q] = SetToSeq(T) \o s
    BY <1>1, Apart
  <2>3. x \in T <=> \E g \in open : x = job[<<q, g>>]
    BY <1>2
  <2>. HIDE DEF T, s
  <2>4. In(x, SetToSeq(T) \o s) <=> x \in T \/ In(x, s)
    BY <2>1, <2>2, AllBack, BackAgain
  <2>. QED  BY <2>2, <2>3, <2>4 DEF s
<1>4. ASSUME NEW x \in Msgs
      PROVE  (\E g \in open : x = job[<<QueueOf[x], g>>])
               <=> \E d \in Consumers : job[d] = x /\ d[2] \in open
  <2>1. ASSUME NEW d \in Consumers, job[d] = x, d[2] \in open
        PROVE  x = job[<<QueueOf[x], d[2]>>]
    <3>1. Works(d)
      BY <1>2, <2>1 DEF Works
    <3>2. d = <<QueueOf[x], d[2]>>
      BY <2>1, <3>1, Apart, Consumer
    <3>. QED  BY <2>1, <3>2
  <2>2. ASSUME NEW g \in open, x = job[<<QueueOf[x], g>>]
        PROVE  \E d \in Consumers : job[d] = x /\ d[2] \in open
    <3>1. <<QueueOf[x], g>> \in Consumers /\ <<QueueOf[x], g>>[2] = g
      BY <1>2
    <3>. QED  BY <2>2, <3>1
  <2>. QED  BY <2>1, <2>2
<1>5. \A x \in Msgs : ~(\E d \in Consumers : job'[d] = x /\ d[2] \in open')
  BY <1>1, <1>2
<1>6. \A x \in Msgs : Accepted(x)' <=> Accepted(x)
  BY <1>1, <1>2, <1>3, <1>4, <1>5, AcceptedIs
<1>. QED  BY <1>6 DEF Took

\* Nobody works for an event that the broker did not take, orphaned handlers
\* included, and nobody writes of one's own actions.
Known == \A c \in Consumers : Works(c) => job[c] \in Took
Meant == \A c \in Consumers : pc[c] = "insert" => Notice(c).user # Notice(c).actor

\* What Took and the two tables do in a step.
Stutters == UNCHANGED <<Took, dropped, acked, Counted>>

LEMMA CountedKept ==
  ASSUME UNCHANGED table
  PROVE  Counted' = Counted
BY DEF Counted, Copies, table

\* What an event needs is counted, and what is counted is there.
LEMMA NeedsOf ==
  ASSUME NEW m \in Msgs
  PROVE  Needs[m] = {k \in {Notices[m][i] : i \in DOMAIN Notices[m]} : k.user # k.actor}
BY DEF Needs

LEMMA WriteStep ==
  ASSUME Typed, Known, Meant, NEW c \in Consumers, Insert(c), Took' = Took
  PROVE  Stutters \/ \E m \in Msgs, k \in Keys : D!Write(m, k)
<1>1. /\ UNCHANGED <<dropped, acked>> /\ read' = read
      /\ unread \in [Keys -> Nat] /\ read \in [Keys -> Nat] /\ pc[c] = "insert"
  BY Facts DEF Insert, source
<1>2. /\ Works(c) /\ job[c] \in Msgs /\ job[c] \in Took /\ at[c] <= Len(Notices[job[c]])
  BY <1>1, Facts DEF Typed, AtFits, Known
<1>3. /\ Notice(c) \in Keys /\ Notice(c) \in Needs[job[c]]
  <2>1. /\ Notice(c) \in Keys /\ at[c] \in DOMAIN Notices[job[c]]
        /\ Notice(c) = Notices[job[c]][at[c]]
    BY <1>2, NoticeType
  <2>2. Notice(c).user # Notice(c).actor
    BY <1>1 DEF Meant
  <2>3. Needs[job[c]] = {k \in {Notices[job[c]][i] : i \in DOMAIN Notices[job[c]]} : k.user # k.actor}
    BY <1>2, NeedsOf
  <2>. QED  BY <2>1, <2>2, <2>3
<1>4. CASE Cancelled(c) \/ Notice(c) \in Unstorable
  <2>1. unread' = unread
    BY <1>4, Zenon DEF Insert
  <2>. QED  BY <1>1, <2>1, CountedKept DEF Stutters, table
<1>5. CASE ~Cancelled(c) /\ Notice(c) \notin Unstorable
  <2>. DEFINE n == Notice(c)
  <2>1. unread' = [unread EXCEPT ![n] = @ + 1] /\ n \in Keys
    BY <1>3, <1>5, Zenon DEF Insert
  <2>. HIDE DEF n
  <2>2. Counted' = [Counted EXCEPT ![n] = @ + 1]
    <3>1. \A k \in Keys : unread'[k] + read'[k] = IF k = n THEN unread[k] + read[k] + 1 ELSE unread[k] + read[k]
      BY <1>1, <2>1
    <3>. QED  BY <2>1, <3>1 DEF Counted, Copies
  <2>3. D!Write(job[c], n)
    BY <1>1, <1>2, <1>3, <2>2 DEF D!Write, Took, Counted, n
  <2>. QED  BY <1>2, <2>1, <2>3
<1>. QED  BY <1>4, <1>5

LEMMA SettleStep ==
  ASSUME Typed, Places, Writing, Known, NEW c \in Consumers, Settle(c), Took' = Took
  PROVE  Stutters \/ \E m \in Msgs : D!Settle(m)
<1>1. /\ UNCHANGED <<dropped, table>>
      /\ acked' = acked \/ (c[2] \in open /\ pc[c] = "ack" /\ acked' = acked \cup {job[c]})
  BY DEF Settle, source
<1>2. Counted' = Counted
  BY <1>1, CountedKept
<1>3. CASE acked' = acked
  BY <1>1, <1>2, <1>3 DEF Stutters
<1>4. CASE c[2] \in open /\ pc[c] = "ack" /\ acked' = acked \cup {job[c]}
  <2>1. Works(c) /\ job[c] \in Msgs /\ job[c] \in Took /\ job[c] \notin acked
    BY <1>4, Facts, Apart DEF Known, Given
  <2>2. ASSUME NEW k \in Needs[job[c]]
        PROVE  Counted[k] > 0
    <3>1. PICK i \in DOMAIN Notices[job[c]] : k = Notices[job[c]][i] /\ k.user # k.actor
      BY <2>1, NeedsOf
    <3>2. i < at[c]
      <4>1. at[c] > Len(Notices[job[c]]) /\ i \in Nat /\ i <= Len(Notices[job[c]])
            /\ Len(Notices[job[c]]) \in Nat /\ at[c] \in Nat
        BY <1>4, <2>1, NoticeRange, Facts DEF Writing, WroteBefore
      <4>. QED  BY <4>1
    <3>3. Told(job[c], i)
      BY <2>1, <3>2 DEF Writing, WroteBefore
    <3>4. k \in Keys
      BY <2>1, <3>1, KeyOf
    <3>. QED  BY <3>1, <3>3, <3>4 DEF Told, Counted
  <2>3. D!Settle(job[c])
    BY <1>1, <1>2, <1>4, <2>1, <2>2 DEF D!Settle, Took, Counted
  <2>. QED  BY <2>1, <2>3
<1>. QED  BY <1>1, <1>3, <1>4

LEMMA PublishStep ==
  ASSUME Typed, Places, NEW m \in Msgs, PublishRaw(m)
  PROVE  D!Accept(m) \/ D!GiveUp(m)
<1>1. /\ m \in pending /\ UNCHANGED <<acked, table, job, open, conn>>
      /\ \/ ready' = [ready EXCEPT ![QueueOf[m]] = Append(@, m)] /\ dropped' = dropped
         \/ ready' = ready /\ dropped' = dropped \cup {m}
  BY DEF PublishRaw, handler, watcher
<1>2. Counted' = Counted
  BY <1>1, CountedKept
<1>3. m \notin Took \cup dropped
  <2>1. m \in Given /\ m \notin acked /\ m \notin dropped
    BY <1>1 DEF Places, Single, Disjoint, Given
  <2>2. QueueOf[m] \in QueueSet /\ \A c \in Consumers : job[c] = m => Works(c)
    BY Facts DEF Works
  <2>. QED  BY <2>1, <2>2, Apart, AcceptedIs DEF Took
<1>4. CASE ready' = [ready EXCEPT ![QueueOf[m]] = Append(@, m)] /\ dropped' = dropped
  <2>1. Took' = Took \cup {m}
    BY <1>1, <1>4, TookPublish
  <2>. QED  BY <1>1, <1>2, <1>3, <1>4, <2>1 DEF D!Accept, Took, Counted
<1>5. CASE ready' = ready /\ dropped' = dropped \cup {m}
  <2>1. Took' = Took
    BY <1>1, <1>5, TookKept
  <2>. QED  BY <1>1, <1>2, <1>3, <1>5, <2>1 DEF D!GiveUp, Took, Counted
<1>. QED  BY <1>1, <1>4, <1>5

\* The other steps of a handler, and those of the watcher and of readers.
LEMMA OtherSteps ==
  ASSUME Typed, Places, [Next]_vars
  PROVE  \/ \E m \in Msgs : PublishRaw(m)
         \/ \E c \in Consumers : (Insert(c) \/ Settle(c)) /\ Took' = Took
         \/ Stutters
<1>1. ASSUME NEW m \in Msgs, PublishAsync(m)
      PROVE  Stutters
  <2>1. UNCHANGED <<dropped, ready, acked, table, job, open, conn>>
    BY <1>1 DEF PublishAsync, handler, watcher
  <2>. QED  BY <2>1, TookKept, CountedKept DEF Stutters
<1>2. ASSUME NEW c \in Consumers, Deliver(c)
      PROVE  Stutters
  <2>1. UNCHANGED <<dropped, acked, table>>
    BY <1>2 DEF Deliver, source
  <2>. QED  BY <1>2, <2>1, TookDeliver, CountedKept DEF Stutters
<1>3. ASSUME NEW c \in Consumers, CheckDuplicate(c) \/ SeeClosed(c) \/ HandlerFails(c)
      PROVE  Stutters
  <2>1. UNCHANGED <<dropped, ready, acked, table, job, open>>
    BY <1>3, Zenon DEF CheckDuplicate, SeeClosed, HandlerFails, source, watcher
  <2>. QED  BY <2>1, TookKept, CountedKept DEF Stutters
<1>4. ASSUME NEW c \in Consumers, Insert(c)
      PROVE  Took' = Took
  <2>1. UNCHANGED <<ready, acked, job, open>>
    BY <1>4, Zenon DEF Insert, watcher
  <2>. QED  BY <2>1, TookKept
<1>5. ASSUME Watch \/ Connect \/ StartConsumer \/ Reconnected \/ ConnectFails
      PROVE  Stutters
  <2>1. UNCHANGED <<dropped, ready, acked, table, job>> /\ (open' = open \/ open' = open \cup {conn + 1})
    BY <1>5 DEF Watch, Connect, StartConsumer, Reconnected, ConnectFails, source, handler
  <2>. QED  BY <2>1, TookKept, CountedKept DEF Stutters
<1>6. ASSUME PublisherLost \/ UNCHANGED vars
      PROVE  Stutters
  <2>1. UNCHANGED <<dropped, ready, acked, table, job, open>>
    BY <1>6 DEF PublisherLost, vars, source, handler, watcher
  <2>. QED  BY <2>1, TookKept, CountedKept DEF Stutters
<1>7. ASSUME Restart
      PROVE  Stutters
  <2>1. UNCHANGED <<dropped, acked, table>>
    BY <1>7 DEF Restart, source
  <2>. QED  BY <1>7, <2>1, TookRestart, CountedKept DEF Stutters
<1>8. ASSUME NEW g \in Conns, ConnectionLost(g)
      PROVE  Stutters
  <2>1. UNCHANGED <<dropped, acked, table>>
    BY <1>8 DEF ConnectionLost, source
  <2>. QED  BY <1>8, <2>1, TookLost, CountedKept DEF Stutters
<1>9. ASSUME NEW k \in Keys, MarkAsRead(k) \/ MarkAllAsRead(k.user)
      PROVE  Stutters
  <2>1. UNCHANGED <<dropped, ready, acked, job, open>>
    BY <1>9 DEF MarkAsRead, MarkAllAsRead, source, handler, watcher
  <2>2. Counted' = Counted
    BY <1>9, Marking DEF Counted, Copies
  <2>. QED  BY <2>1, <2>2, TookKept DEF Stutters
<1>. QED  BY <1>1, <1>2, <1>3, <1>4, <1>5, <1>6, <1>7, <1>8, <1>9, TookSettle DEF Next, Consume, Reconnect

LEMMA KnownStep ==
  ASSUME Typed, Places, Known, [Next]_vars, Took \subseteq Took'
  PROVE  Known'
<1>. SUFFICES ASSUME NEW c \in Consumers, Works(c)'
              PROVE  job'[c] \in Took'
  BY DEF Known
<1>1. CASE job'[c] = job[c]
  BY <1>1 DEF Known, Works
<1>2. CASE UNCHANGED handler \/ StartConsumer
  BY <1>1, <1>2, Started DEF handler
<1>3. ~Restart
  BY DEF Restart, Works
<1>4. ASSUME NEW d \in Consumers, Consume(d) \/ HandlerFails(d), c # d
      PROVE  job'[c] = job[c]
  BY <1>4, HandlerAlone DEF Alone
<1>5. CASE Deliver(c)
  <2>. DEFINE m == Head(ready[c[1]])
  <2>1. job'[c] = m /\ ready[c[1]] # <<>> /\ c[1] \in QueueSet /\ ready[c[1]] \in Seq(Msgs)
    BY <1>5, Facts, Consumer DEF Deliver
  <2>2. m \in Msgs /\ In(m, ready[c[1]])
    BY <2>1, Taken
  <2>3. QueueOf[m] = c[1]
    BY <2>1, <2>2, Apart
  <2>. QED  BY <2>1, <2>2, <2>3, AcceptedIs DEF Took
<1>6. CASE Settle(c)
  BY <1>6, Facts DEF Settle, Works
<1>7. CASE CheckDuplicate(c) \/ Insert(c) \/ SeeClosed(c) \/ HandlerFails(c)
  <2>1. job' = job
    BY <1>7, Zenon DEF CheckDuplicate, Insert, SeeClosed, HandlerFails
  <2>. QED  BY <1>1, <2>1
<1>. QED  BY <1>1, <1>2, <1>3, <1>4, <1>5, <1>6, <1>7, HandlerSteps DEF Consume

LEMMA MeantStep ==
  ASSUME Typed, Meant, [Next]_vars
  PROVE  Meant'
BY InsertNext DEF Meant, Notice

\* The broker, the worker and the handlers together deliver at least once.
THEOREM DeliversAtLeastOnce == Spec => AtLeastOnce
<1>. DEFINE Inv == Typed /\ Places /\ Writing /\ Known /\ Meant
<1>1. Init => Inv
  <2>1. ASSUME Init
        PROVE  Writing /\ Known /\ Meant
    <3>1. \A c \in Consumers : job[c] = NoMsg /\ at[c] = 1 /\ pc[c] # "insert"
      BY <2>1 DEF Init
    <3>. QED  BY <3>1, MsgsAssumption DEF Writing, WroteBefore, Known, Meant, Works
  <2>. QED  BY <2>1, TypeInit, PlacesInit
<1>2. Init => D!Init
  <2>1. ASSUME Init
        PROVE  /\ {m \in Msgs : Accepted(m)} = {} /\ dropped = {} /\ acked = {}
               /\ [k \in Keys |-> Copies(k)] = [k \in Keys |-> 0]
    <3>1. \A c \in Consumers : job[c] = NoMsg
      BY <2>1 DEF Init
    <3>2. \A x \in Msgs : ready[QueueOf[x]] = <<>>
      BY <2>1, QueueAssumption DEF Init
    <3>3. \A x \in Msgs : ~In(x, ready[QueueOf[x]])
      BY <3>2 DEF In
    <3>4. acked = {} /\ dropped = {} /\ \A k \in Keys : unread[k] = 0 /\ read[k] = 0
      BY <2>1 DEF Init
    <3>5. {m \in Msgs : Accepted(m)} = {}
      BY <3>1, <3>3, <3>4, AcceptedIs, MsgsAssumption
    <3>. QED  BY <3>4, <3>5 DEF Copies
  <2>. QED  BY <2>1 DEF D!Init
<1>3. Inv /\ [Next]_vars
        => Stutters \/ \E m \in Msgs : \/ D!Accept(m) \/ D!GiveUp(m) \/ D!Settle(m)
                                       \/ \E k \in Keys : D!Write(m, k)
  <2>. SUFFICES ASSUME Inv, [Next]_vars
                PROVE  Stutters \/ \E m \in Msgs : \/ D!Accept(m) \/ D!GiveUp(m) \/ D!Settle(m)
                                                   \/ \E k \in Keys : D!Write(m, k)
    OBVIOUS
  <2>1. ASSUME NEW m \in Msgs, PublishRaw(m)
        PROVE  D!Accept(m) \/ D!GiveUp(m)
    BY <2>1, PublishStep
  <2>2. ASSUME NEW c \in Consumers, Insert(c), Took' = Took
        PROVE  Stutters \/ \E m \in Msgs, k \in Keys : D!Write(m, k)
    BY <2>2, WriteStep
  <2>3. ASSUME NEW c \in Consumers, Settle(c), Took' = Took
        PROVE  Stutters \/ \E m \in Msgs : D!Settle(m)
    BY <2>3, SettleStep
  <2>. QED  BY <2>1, <2>2, <2>3, OtherSteps
<1>4. Inv /\ [Next]_vars => [D!Next]_<<{m \in Msgs : Accepted(m)}, dropped, acked, [k \in Keys |-> Copies(k)]>>
  BY <1>3 DEF D!Next, Stutters, Took, Counted
<1>5. Inv /\ [Next]_vars => Took \subseteq Took'
  <2>1. ASSUME NEW m \in Msgs, D!Accept(m) \/ D!GiveUp(m) \/ D!Settle(m)
        PROVE  Took \subseteq Took'
    BY <2>1 DEF D!Accept, D!GiveUp, D!Settle, Took
  <2>2. ASSUME NEW m \in Msgs, NEW k \in Keys, D!Write(m, k)
        PROVE  Took \subseteq Took'
    BY <2>2 DEF D!Write, Took
  <2>3. Stutters => Took \subseteq Took'
    BY DEF Stutters
  <2>. QED  BY <1>3, <2>1, <2>2, <2>3
<1>6. Inv /\ [Next]_vars => Inv'
  BY <1>5, TypeStep, PlacesStep, WritingStep, KnownStep, MeantStep
<1>. QED  BY <1>1, <1>2, <1>4, <1>6, PTL DEF Spec, AtLeastOnce, D!Spec

=============================================================================
