--------------------------- MODULE MessageProofs ---------------------------
(***************************************************************************)
(* Proofs about the two ways to post messages: the ports of a              *)
(* MessageChannel (MessageChannel.tla) and a Web Worker (Worker.tla), for  *)
(* any number of messages and any capacity of the pipes.  No theorem      *)
(* speaks of both.                                                         *)
(***************************************************************************)
EXTENDS Messaging, FiniteSetTheorems, QueueFacts

-----------------------------------------------------------------------------
(* MessageChannel *)

\* The types of the queues and of the ports.
PortTypes ==
    /\ queue \in [Channel!Ports -> Seq(1..MaxPosts)]
    /\ delivered \in [Channel!Ports -> Seq(1..MaxPosts)]
    /\ pipe \in [Channel!Ports -> 0..PipeCap] /\ refs \in [Channel!Ports -> 0..2]
    /\ open \in [Channel!Ports -> BOOLEAN] /\ io \in [Channel!Ports -> BOOLEAN]
    /\ port \in {0} \cup Channel!Ports /\ batch \in Seq(1..MaxPosts)
    /\ posted \in [Channel!Ports -> 0..MaxPosts]

\* Messages of port p that have left its queue.
Taken(p) == Len(delivered[p]) + (IF port = p THEN Len(batch) ELSE 0)

\* The messages of a port are numbered in the order they were posted: first
\* those delivered, then the rest of the batch, then the queue; nothing else
\* is under way until both ports are closed.
OrderAt(p) ==
    /\ \A i \in 1..Len(delivered[p]) : delivered[p][i] = i
    /\ port = p => \A i \in 1..Len(batch) : batch[i] = Len(delivered[p]) + i
    /\ \A i \in 1..Len(queue[p]) : queue[p][i] = Taken(p) + i
    /\ Taken(p) + Len(queue[p]) <= posted[p]
    /\ refs[p] > 0 => Taken(p) + Len(queue[p]) = posted[p]
    /\ refs[p] = 0 => queue[p] = <<>>

OrderInv == (port = 0 => batch = <<>>) /\ \A p \in Channel!Ports : OrderAt(p)

\* One reference for each open port.
RefsInv ==
    \A p \in Channel!Ports : /\ refs[p] = 2 <=> open[1] /\ open[2]
                             /\ refs[p] = 0 <=> ~open[1] /\ ~open[2]

WakeInv == \A p \in Channel!Ports : queue[p] # <<>> => pipe[p] > 0

ChannelInv == PortTypes /\ OrderInv /\ RefsInv /\ WakeInv

\* The loop and the handles: only an open port is listened to, and the handle kept
\* as next is one of the list, or of a port that was closed since.
PortWalk ==
    /\ newest \in {0} \cup Channel!Ports /\ nextPort \in {0} \cup Channel!Ports
    /\ portsUndefined \in BOOLEAN
    /\ \A p \in Channel!Ports : io[p] => open[p]
    /\ port # 0 => nextPort # port
    /\ nextPort # 0 => io[nextPort] \/ ~open[nextPort]
    /\ portsUndefined => \E p \in Channel!Ports : ~open[p]

\* The number of open ports.
LEMMA OpenPorts ==
    ASSUME PortTypes
    PROVE  LET n == Cardinality({q \in Channel!Ports : open[q]})
           IN  /\ n \in 0..2
               /\ n = 2 <=> open[1] /\ open[2]
               /\ n = 0 <=> ~open[1] /\ ~open[2]
<1> DEFINE S == {q \in {1, 2} : open[q]}
<1>1. /\ Cardinality({}) = 0 /\ Cardinality({1}) = 1 /\ Cardinality({2}) = 1
      /\ Cardinality({1} \cup {2}) = 2
  <2>1. Cardinality({}) = 0 /\ Cardinality({1}) = 1 /\ Cardinality({2}) = 1
    BY FS_EmptySet, FS_Singleton
  <2>2. IsFiniteSet({1})
    BY FS_Singleton
  <2>3. Cardinality({1} \cup {2}) = IF 2 \in {1} THEN Cardinality({1}) ELSE Cardinality({1}) + 1
    BY <2>2, FS_AddElement
  <2>4. QED
    BY <2>1, <2>3
<1>2. /\ open[1] /\ open[2] => S = {1} \cup {2}
      /\ open[1] /\ ~open[2] => S = {1}
      /\ ~open[1] /\ open[2] => S = {2}
      /\ ~open[1] /\ ~open[2] => S = {}
  OBVIOUS
<1>3. S = {q \in Channel!Ports : open[q]}
  BY DEF Channel!Ports
<1>4. QED
  BY <1>1, <1>2, <1>3

\* A new channel has empty queues and two references to each.
LEMMA ChannelInit == ASSUME Channel!ChannelAssumption, Channel!Init PROVE ChannelInv
<1>1. <<>> \in Seq(1..MaxPosts) /\ Len(<<>>) = 0
  OBVIOUS
<1>2. PortTypes
  BY <1>1 DEF Channel!ChannelAssumption, Channel!Init, PortTypes, Channel!Ports
<1>3. OrderInv
  BY <1>1 DEF Channel!Init, OrderInv, OrderAt, Taken, Channel!Ports
<1>4. RefsInv /\ WakeInv
  BY DEF Channel!Init, RefsInv, WakeInv, Channel!Ports
<1>5. QED
  BY <1>2, <1>3, <1>4 DEF ChannelInv

\* mp_post_message keeps the invariant: the message is numbered after all the
\* others and a byte is in the pipe, although a full pipe loses the new one.
LEMMA PostStep ==
    ASSUME Channel!ChannelAssumption, ChannelInv, NEW p \in Channel!Ports, Channel!Post(p)
    PROVE  ChannelInv'
<1>t. /\ queue \in [Channel!Ports -> Seq(1..MaxPosts)]
      /\ delivered \in [Channel!Ports -> Seq(1..MaxPosts)]
      /\ pipe \in [Channel!Ports -> 0..PipeCap] /\ refs \in [Channel!Ports -> 0..2]
      /\ open \in [Channel!Ports -> BOOLEAN] /\ io \in [Channel!Ports -> BOOLEAN]
      /\ port \in {0} \cup Channel!Ports /\ batch \in Seq(1..MaxPosts)
      /\ posted \in [Channel!Ports -> 0..MaxPosts]
      /\ MaxPosts \in Nat /\ PipeCap \in Nat \ {0}
  BY DEF ChannelInv, PortTypes, Channel!ChannelAssumption
<1>1. /\ queue' = [queue EXCEPT ![p] = Append(queue[p], posted[p] + 1)]
      /\ pipe' = [pipe EXCEPT ![p] = IF pipe[p] < PipeCap THEN pipe[p] + 1 ELSE pipe[p]]
      /\ posted' = [posted EXCEPT ![p] = posted[p] + 1]
  BY DEF Channel!Post
<1>u. /\ open[Channel!Peer(p)] /\ posted[p] < MaxPosts
      /\ UNCHANGED <<refs, open, io, port, batch, delivered>>
  BY DEF Channel!Post
<1>2. posted[p] + 1 \in 1..MaxPosts /\ queue[p] \in Seq(1..MaxPosts)
  BY <1>t, <1>u
<1>3. PICK q : q = Append(queue[p], posted[p] + 1)
  OBVIOUS
<1>q. /\ q \in Seq(1..MaxPosts) /\ Len(q) = Len(queue[p]) + 1
      /\ \A i \in 1..Len(queue[p]) : q[i] = queue[p][i]
      /\ q[Len(queue[p]) + 1] = posted[p] + 1
  BY <1>2, <1>3, AppendProperties
<1>4. \A r \in Channel!Ports : queue'[r] = IF r = p THEN q ELSE queue[r]
  BY <1>t, <1>1, <1>3
<1>5. refs[p] > 0
  <2>1. Channel!Peer(p) \in {1, 2}
    BY DEF Channel!Ports, Channel!Peer
  <2>2. refs[p] # 0 /\ refs[p] \in 0..2
    BY <1>t, <1>u, <2>1 DEF ChannelInv, RefsInv
  <2>3. QED
    BY <2>2
<1>6. PortTypes'
  <2>1. queue' \in [Channel!Ports -> Seq(1..MaxPosts)]
    BY <1>t, <1>1, <1>3, <1>q
  <2>2. pipe' \in [Channel!Ports -> 0..PipeCap] /\ posted' \in [Channel!Ports -> 0..MaxPosts]
    <3>1. PICK b : b = IF pipe[p] < PipeCap THEN pipe[p] + 1 ELSE pipe[p]
      OBVIOUS
    <3>2. b \in 0..PipeCap
      BY <1>t, <3>1
    <3>3. pipe' \in [Channel!Ports -> 0..PipeCap]
      BY <1>t, <1>1, <3>1, <3>2
    <3>4. posted' \in [Channel!Ports -> 0..MaxPosts]
      BY <1>t, <1>1, <1>2
    <3>5. QED
      BY <3>3, <3>4
  <2>3. QED
    BY <1>t, <1>u, <2>1, <2>2 DEF PortTypes
<1>7. OrderInv'
  <2>l. \A r \in Channel!Ports : /\ OrderAt(r) /\ Taken(r) \in Nat /\ Len(queue[r]) \in Nat
                                 /\ posted[r] \in Nat /\ Len(delivered[r]) \in Nat
    BY <1>t DEF Taken, ChannelInv, OrderInv
  <2>1. \A r \in Channel!Ports : /\ Taken(r)' = Taken(r)
                                 /\ posted'[r] = IF r = p THEN posted[p] + 1 ELSE posted[r]
    BY <1>t, <1>1, <1>u DEF Taken
  <2>2. Taken(p) + Len(queue[p]) = posted[p]
    BY <1>5, <2>l DEF OrderAt
  <2>3. \A i \in 1..Len(q) : q[i] = Taken(p) + i
    <3>1. ASSUME NEW i \in 1..Len(q) PROVE q[i] = Taken(p) + i
      <4>1. CASE i \in 1..Len(queue[p])
        BY <1>q, <2>l, <4>1 DEF OrderAt
      <4>2. CASE i = Len(queue[p]) + 1
        BY <1>q, <2>l, <2>2, <4>2
      <4>3. QED
        BY <1>q, <2>l, <4>1, <4>2
    <3>2. QED
      BY <3>1
  <2>4. OrderAt(p)'
    <3>1. queue'[p] = q /\ refs'[p] > 0 /\ delivered'[p] = delivered[p]
      BY <1>u, <1>4, <1>5
    <3>2. Taken(p)' + Len(q) = posted'[p]
      BY <1>q, <2>l, <2>1, <2>2
    <3>3. port' = p => \A i \in 1..Len(batch') : batch'[i] = Len(delivered'[p]) + i
      BY <1>u, <2>l DEF OrderAt
    <3>4. \A i \in 1..Len(delivered'[p]) : delivered'[p][i] = i
      BY <1>u, <2>l DEF OrderAt
    <3>5. Taken(p)' \in Nat /\ Len(q) \in Nat
      BY <1>q, <2>l, <2>1
    <3>6. QED
      BY <2>1, <2>3, <3>1, <3>2, <3>3, <3>4, <3>5 DEF OrderAt
  <2>5. ASSUME NEW r \in Channel!Ports, r # p PROVE OrderAt(r)'
    <3>1. queue'[r] = queue[r] /\ posted'[r] = posted[r] /\ Taken(r)' = Taken(r)
      BY <1>4, <2>1, <2>5
    <3>2. QED
      BY <1>u, <2>l, <3>1 DEF OrderAt
  <2>6. QED
    BY <1>u, <2>4, <2>5 DEF ChannelInv, OrderInv
<1>8. RefsInv'
  BY <1>u DEF ChannelInv, RefsInv
<1>9. WakeInv'
  BY <1>t, <1>1, <1>u DEF ChannelInv, WakeInv
<1>10. QED
  BY <1>6, <1>7, <1>8, <1>9 DEF ChannelInv

\* mp_close keeps the invariant: both queues lose one reference, and are emptied
\* with the last.
LEMMA CloseStep ==
    ASSUME Channel!ChannelAssumption, ChannelInv, NEW p \in Channel!Ports, Channel!Close(p)
    PROVE  ChannelInv'
<1>t. /\ queue \in [Channel!Ports -> Seq(1..MaxPosts)]
      /\ delivered \in [Channel!Ports -> Seq(1..MaxPosts)]
      /\ pipe \in [Channel!Ports -> 0..PipeCap] /\ refs \in [Channel!Ports -> 0..2]
      /\ open \in [Channel!Ports -> BOOLEAN] /\ io \in [Channel!Ports -> BOOLEAN]
      /\ port \in {0} \cup Channel!Ports /\ batch \in Seq(1..MaxPosts)
      /\ posted \in [Channel!Ports -> 0..MaxPosts]
      /\ MaxPosts \in Nat /\ PipeCap \in Nat \ {0}
  BY DEF ChannelInv, PortTypes, Channel!ChannelAssumption
<1>1. /\ open' = [open EXCEPT ![p] = FALSE]
      /\ io' = [io EXCEPT ![p] = FALSE]
      /\ refs' = [q \in Channel!Ports |-> refs[q] - 1]
      /\ queue' = [q \in Channel!Ports |-> IF refs'[q] = 0 THEN <<>> ELSE queue[q]]
      /\ open[p]
      /\ UNCHANGED <<pipe, port, batch, posted, delivered>>
  BY DEF Channel!Close
<1>2. open' \in [Channel!Ports -> BOOLEAN] /\ io' \in [Channel!Ports -> BOOLEAN]
  BY <1>t, <1>1
<1>3. RefsInv' /\ \A q \in Channel!Ports : refs[q] \in 1..2 /\ refs'[q] = refs[q] - 1
  <2>1. p \in {1, 2} /\ \A q \in {1, 2} : open'[q] <=> q # p /\ open[q]
    BY <1>t, <1>1 DEF Channel!Ports
  <2>o. open[p]
    BY <1>1
  <2>2. ASSUME NEW q \in Channel!Ports
        PROVE  /\ refs[q] \in 1..2 /\ refs'[q] = refs[q] - 1
               /\ refs'[q] # 2 /\ ~(open'[1] /\ open'[2])
               /\ refs'[q] = 0 <=> ~open'[1] /\ ~open'[2]
    <3>1. /\ refs[q] \in 0..2 /\ refs'[q] = refs[q] - 1
          /\ refs[q] = 2 <=> open[1] /\ open[2]
          /\ refs[q] = 0 <=> ~open[1] /\ ~open[2]
      BY <1>t, <1>1 DEF ChannelInv, RefsInv
    <3>2. CASE p = 1
      BY <2>1, <2>o, <3>1, <3>2
    <3>3. CASE p = 2
      BY <2>1, <2>o, <3>1, <3>3
    <3>4. QED
      BY <2>1, <3>2, <3>3
  <2>3. QED
    BY <2>2 DEF RefsInv
<1>4. PortTypes'
  <2>1. <<>> \in Seq(1..MaxPosts)
    OBVIOUS
  <2>2. queue' \in [Channel!Ports -> Seq(1..MaxPosts)]
    BY <1>t, <1>1, <2>1
  <2>3. refs' \in [Channel!Ports -> 0..2]
    BY <1>1, <1>3
  <2>4. QED
    BY <1>t, <1>1, <1>2, <2>2, <2>3 DEF PortTypes
<1>5. OrderInv'
  <2>l. \A r \in Channel!Ports : /\ OrderAt(r) /\ Taken(r) \in Nat /\ Len(queue[r]) \in Nat
                                 /\ posted[r] \in Nat /\ Len(delivered[r]) \in Nat
    BY <1>t DEF Taken, ChannelInv, OrderInv
  <2>1. \A r \in Channel!Ports : Taken(r)' = Taken(r)
    BY <1>1 DEF Taken
  <2>2. ASSUME NEW r \in Channel!Ports PROVE OrderAt(r)'
    <3>1. /\ \A i \in 1..Len(delivered'[r]) : delivered'[r][i] = i
          /\ port' = r => \A i \in 1..Len(batch') : batch'[i] = Len(delivered'[r]) + i
      BY <1>1, <2>l DEF OrderAt
    <3>2. CASE refs'[r] = 0
      <4>1. queue'[r] = <<>> /\ Len(<<>>) = 0
        BY <1>1, <3>2
      <4>2. Taken(r)' + Len(queue'[r]) <= posted'[r]
        BY <1>1, <2>l, <2>1, <4>1 DEF OrderAt
      <4>3. \A i \in 1..Len(queue'[r]) : queue'[r][i] = Taken(r)' + i
        BY <4>1
      <4>4. QED
        BY <3>1, <3>2, <4>1, <4>2, <4>3 DEF OrderAt
    <3>3. CASE refs'[r] # 0
      <4>1. queue'[r] = queue[r] /\ refs[r] > 0
        BY <1>1, <1>3, <3>3
      <4>2. QED
        BY <1>1, <2>l, <2>1, <3>1, <3>3, <4>1 DEF OrderAt
    <3>4. QED
      BY <3>2, <3>3
  <2>3. QED
    BY <1>1, <2>2 DEF ChannelInv, OrderInv
<1>6. WakeInv'
  BY <1>1 DEF ChannelInv, WakeInv
<1>7. QED
  BY <1>3, <1>4, <1>5, <1>6 DEF ChannelInv

\* mp_pipe_cb keeps the invariant: the queue becomes the batch of its port.
LEMMA PipeCallbackStep ==
    ASSUME Channel!ChannelAssumption, ChannelInv, NEW p \in Channel!Ports,
           Channel!PipeCallback(p)
    PROVE  ChannelInv'
<1>t. /\ queue \in [Channel!Ports -> Seq(1..MaxPosts)]
      /\ delivered \in [Channel!Ports -> Seq(1..MaxPosts)]
      /\ pipe \in [Channel!Ports -> 0..PipeCap] /\ refs \in [Channel!Ports -> 0..2]
      /\ open \in [Channel!Ports -> BOOLEAN] /\ io \in [Channel!Ports -> BOOLEAN]
      /\ port \in {0} \cup Channel!Ports /\ batch \in Seq(1..MaxPosts)
      /\ posted \in [Channel!Ports -> 0..MaxPosts]
      /\ MaxPosts \in Nat /\ PipeCap \in Nat \ {0}
  BY DEF ChannelInv, PortTypes, Channel!ChannelAssumption
<1>1. /\ pipe' = [pipe EXCEPT ![p] = 0]
      /\ queue' = [queue EXCEPT ![p] = <<>>]
  BY DEF Channel!PipeCallback
<1>u. /\ batch' = queue[p]
      /\ port' = p /\ port = 0
      /\ UNCHANGED <<refs, open, io, posted, delivered>>
  BY DEF Channel!PipeCallback
<1>2. <<>> \in Seq(1..MaxPosts) /\ Len(<<>>) = 0 /\ 0 \notin Channel!Ports
  BY DEF Channel!Ports
<1>3. PortTypes'
  BY <1>t, <1>1, <1>u, <1>2 DEF PortTypes
<1>4. OrderInv'
  <2>l. \A r \in Channel!Ports : /\ OrderAt(r) /\ Taken(r) \in Nat /\ Len(queue[r]) \in Nat
                                 /\ posted[r] \in Nat /\ Len(delivered[r]) \in Nat
    BY <1>t DEF Taken, ChannelInv, OrderInv
  <2>1. \A r \in Channel!Ports : /\ Taken(r) = Len(delivered[r])
                                 /\ queue'[r] = IF r = p THEN <<>> ELSE queue[r]
    BY <1>t, <1>1, <1>u, <1>2, <2>l DEF Taken
  <2>2. \A r \in Channel!Ports :
          Taken(r)' = IF r = p THEN Len(delivered[p]) + Len(queue[p]) ELSE Taken(r)
    <3>1. Taken(p)' = Len(delivered[p]) + Len(queue[p])
      <4>1. delivered'[p] = delivered[p] /\ port' = p /\ batch' = queue[p]
        BY <1>u
      <4>2. QED
        BY <4>1 DEF Taken
    <3>2. ASSUME NEW r \in Channel!Ports, r # p PROVE Taken(r)' = Taken(r)
      <4>1. delivered'[r] = delivered[r] /\ port' # r /\ port # r
        BY <1>u, <1>2, <3>2
      <4>2. QED
        BY <4>1 DEF Taken
    <3>3. QED
      BY <3>1, <3>2
  <2>3. OrderAt(p)'
    <3>l. /\ Taken(p) = Len(delivered[p]) /\ Taken(p)' = Len(delivered[p]) + Len(queue[p])
          /\ Len(queue[p]) \in Nat /\ Len(delivered[p]) \in Nat /\ posted[p] \in Nat
      BY <2>l, <2>1, <2>2
    <3>e. queue'[p] = <<>>
      BY <2>1
    <3>z. Len(queue'[p]) = 0
      BY <1>2, <3>e
    <3>o. OrderAt(p)
      BY <2>l
    <3>1. \A i \in 1..Len(delivered'[p]) : delivered'[p][i] = i
      BY <1>u, <3>o DEF OrderAt
    <3>2. \A i \in 1..Len(batch') : batch'[i] = Len(delivered'[p]) + i
      BY <1>u, <3>l, <3>o DEF OrderAt
    <3>3. \A i \in 1..Len(queue'[p]) : queue'[p][i] = Taken(p)' + i
      BY <3>z
    <3>4. /\ Taken(p)' + Len(queue'[p]) <= posted'[p]
          /\ refs'[p] > 0 => Taken(p)' + Len(queue'[p]) = posted'[p]
      <4>1. /\ Taken(p) + Len(queue[p]) <= posted[p]
            /\ refs[p] > 0 => Taken(p) + Len(queue[p]) = posted[p]
        BY <3>o DEF OrderAt
      <4>2. posted'[p] = posted[p] /\ refs'[p] = refs[p]
        BY <1>u
      <4>3. Taken(p)' + Len(queue'[p]) = Taken(p) + Len(queue[p])
        BY <3>l, <3>z
      <4>4. QED
        BY <4>1, <4>2, <4>3
    <3>5. QED
      BY <3>e, <3>1, <3>2, <3>3, <3>4 DEF OrderAt
  <2>4. ASSUME NEW r \in Channel!Ports, r # p PROVE OrderAt(r)'
    BY <1>u, <2>l, <2>1, <2>2, <2>4 DEF OrderAt
  <2>5. QED
    <3>1. port' # 0
      BY <1>u, <1>2
    <3>2. \A r \in Channel!Ports : OrderAt(r)'
      BY <2>3, <2>4
    <3>3. QED
      BY <3>1, <3>2 DEF OrderInv
<1>5. RefsInv'
  BY <1>u DEF ChannelInv, RefsInv
<1>6. WakeInv'
  BY <1>t, <1>1, <1>u DEF ChannelInv, WakeInv
<1>7. QED
  BY <1>3, <1>4, <1>5, <1>6 DEF ChannelInv

\* mp_pipe_cb calls onmessage: the head of the batch is the next message of its
\* port, and nothing else moves.
LEMMA DeliverStep ==
    ASSUME Channel!ChannelAssumption, ChannelInv, Channel!Deliver
    PROVE  ChannelInv'
<1>t. /\ queue \in [Channel!Ports -> Seq(1..MaxPosts)]
      /\ delivered \in [Channel!Ports -> Seq(1..MaxPosts)]
      /\ port \in Channel!Ports /\ batch \in Seq(1..MaxPosts)
      /\ posted \in [Channel!Ports -> 0..MaxPosts]
  BY DEF ChannelInv, PortTypes, Channel!ChannelAssumption, Channel!Deliver
<1>u. UNCHANGED <<queue, pipe, refs, open, io, posted>>
  BY DEF Channel!Deliver
<1>z. 0 \notin Channel!Ports
  BY DEF Channel!Ports
<1>l. \A r \in Channel!Ports : /\ OrderAt(r) /\ Len(queue[r]) \in Nat
                               /\ posted[r] \in Nat /\ Len(delivered[r]) \in Nat
  BY <1>t DEF ChannelInv, OrderInv
<1>1. RefsInv' /\ WakeInv'
  BY <1>u DEF ChannelInv, RefsInv, WakeInv
<1>2. CASE batch # <<>>
  <2>1. /\ delivered' = [delivered EXCEPT ![port] = Append(@, Head(batch))]
        /\ batch' = Tail(batch) /\ port' = port
    BY <1>2 DEF Channel!Deliver
  <2>2. PICK h : h = Head(batch)
    OBVIOUS
  <2>3. /\ h \in 1..MaxPosts /\ h = batch[1]
        /\ batch' \in Seq(1..MaxPosts) /\ Len(batch) \in Nat \ {0}
        /\ Len(batch') = Len(batch) - 1
        /\ \A i \in 1..(Len(batch) - 1) : batch'[i] = batch[i + 1]
    <3>1. /\ Len(batch) \in Nat \ {0} /\ Head(batch) = batch[1] /\ Head(batch) \in 1..MaxPosts
          /\ Tail(batch) \in Seq(1..MaxPosts) /\ Len(Tail(batch)) = Len(batch) - 1
          /\ \A i \in 1..(Len(batch) - 1) : Tail(batch)[i] = batch[i + 1]
      BY <1>t, <1>2, TakeHead
    <3>2. QED
      BY <2>1, <2>2, <3>1
  <2>4. PICK d : d = Append(delivered[port], h)
    OBVIOUS
  <2>d. delivered[port] \in Seq(1..MaxPosts) /\ Len(delivered[port]) \in Nat
    BY <1>t
  <2>5. /\ d \in Seq(1..MaxPosts) /\ Len(d) = Len(delivered[port]) + 1
        /\ \A i \in 1..Len(delivered[port]) : d[i] = delivered[port][i]
        /\ d[Len(delivered[port]) + 1] = h
    BY <2>3, <2>4, <2>d, AppendProperties
  <2>6. \A r \in Channel!Ports : delivered'[r] = IF r = port THEN d ELSE delivered[r]
    BY <1>t, <2>1, <2>2, <2>4
  <2>7. PortTypes'
    <3>1. delivered' \in [Channel!Ports -> Seq(1..MaxPosts)]
      BY <1>t, <2>1, <2>2, <2>4, <2>5
    <3>2. QED
      BY <1>u, <2>1, <2>3, <3>1 DEF ChannelInv, PortTypes
  <2>8. OrderAt(port)'
    <3>o. OrderAt(port)
      BY <1>t, <1>l
    <3>1. /\ Taken(port) = Len(delivered[port]) + Len(batch)
          /\ Taken(port)' = Len(d) + Len(batch')
      <4>1. delivered'[port] = d /\ port' = port
        BY <1>t, <2>1, <2>6
      <4>2. QED
        BY <4>1 DEF Taken
    <3>2. Taken(port)' = Taken(port)
      BY <2>3, <2>5, <2>d, <3>1
    <3>3. h = Len(delivered[port]) + 1
      BY <2>3, <3>o DEF OrderAt
    <3>4. ASSUME NEW i \in 1..Len(d) PROVE d[i] = i
      <4>1. \A j \in 1..Len(delivered[port]) : delivered[port][j] = j
        BY <3>o DEF OrderAt
      <4>2. i \in 1..Len(delivered[port]) \/ i = Len(delivered[port]) + 1
        BY <2>5, <2>d, <3>4
      <4>3. QED
        BY <2>5, <3>3, <4>1, <4>2
    <3>5. ASSUME NEW i \in 1..Len(batch') PROVE batch'[i] = Len(d) + i
      <4>1. \A j \in 1..Len(batch) : batch[j] = Len(delivered[port]) + j
        BY <3>o DEF OrderAt
      <4>2. i + 1 \in 1..Len(batch) /\ batch'[i] = batch[i + 1]
        BY <2>3, <3>5
      <4>3. batch'[i] = Len(delivered[port]) + (i + 1)
        BY <4>1, <4>2
      <4>4. \A n, e, j \in Int : e = n + 1 => n + (j + 1) = e + j
        OBVIOUS
      <4>5. Len(delivered[port]) + (i + 1) = Len(d) + i
        <5>1. Len(delivered[port]) \in Int /\ Len(d) = Len(delivered[port]) + 1
          BY <2>5, <2>d
        <5>2. Len(d) \in Int /\ i \in Int
          BY <5>1
        <5>3. QED
          BY <4>4, <5>1, <5>2
      <4>6. QED
        BY <4>3, <4>5
    <3>6. delivered'[port] = d
      BY <1>t, <2>6
    <3>7. /\ queue'[port] = queue[port] /\ refs'[port] = refs[port]
          /\ posted'[port] = posted[port] /\ port' = port
      BY <1>u, <2>1
    <3>8. QED
      BY <2>1, <3>o, <3>2, <3>4, <3>5, <3>6, <3>7 DEF OrderAt
  <2>9. ASSUME NEW r \in Channel!Ports, r # port PROVE OrderAt(r)'
    <3>1. delivered'[r] = delivered[r] /\ port' # r /\ port # r
      BY <2>1, <2>6, <2>9
    <3>2. Taken(r)' = Taken(r)
      BY <3>1 DEF Taken
    <3>3. queue'[r] = queue[r] /\ refs'[r] = refs[r] /\ posted'[r] = posted[r]
      BY <1>u
    <3>4. QED
      BY <1>l, <3>1, <3>2, <3>3 DEF OrderAt
  <2>10. OrderInv'
    <3>1. port' # 0
      BY <1>t, <1>z, <2>1
    <3>2. \A r \in Channel!Ports : OrderAt(r)'
      BY <2>1, <2>8, <2>9
    <3>3. QED
      BY <3>1, <3>2 DEF OrderInv
  <2>11. QED
    BY <1>1, <2>7, <2>10 DEF ChannelInv
<1>3. CASE batch = <<>>
  <2>1. port' = 0 /\ UNCHANGED <<batch, delivered>>
    BY <1>3 DEF Channel!Deliver
  <2>2. PortTypes'
    BY <1>u, <2>1 DEF ChannelInv, PortTypes
  <2>3. ASSUME NEW r \in Channel!Ports PROVE OrderAt(r)'
    <3>1. delivered'[r] = delivered[r] /\ port' # r /\ Len(batch) = 0
      BY <1>z, <1>3, <2>1
    <3>2. Taken(r)' = Taken(r)
      BY <1>l, <3>1 DEF Taken
    <3>3. queue'[r] = queue[r] /\ refs'[r] = refs[r] /\ posted'[r] = posted[r]
      BY <1>u
    <3>4. QED
      BY <1>l, <3>1, <3>2, <3>3 DEF OrderAt
  <2>4. OrderInv'
    BY <1>3, <2>1, <2>3 DEF OrderInv
  <2>5. QED
    BY <1>1, <2>2, <2>4 DEF ChannelInv
<1>4. QED
  BY <1>2, <1>3

\* A step that leaves the queues, the batch and the history alone keeps the order:
\* registering onmessage does, and so does the walk of the loop.
LEMMA OnStep ==
    ASSUME ChannelInv, UNCHANGED <<queue, pipe, refs, open, port, batch, posted, delivered>>,
           io' \in [Channel!Ports -> BOOLEAN]
    PROVE  ChannelInv'
<1>1. PortTypes'
  BY DEF ChannelInv, PortTypes
<1>2. RefsInv' /\ WakeInv'
  BY DEF ChannelInv, RefsInv, WakeInv
<1>3. ASSUME NEW r \in Channel!Ports PROVE OrderAt(r)'
  <2>1. Taken(r)' = Taken(r)
    BY DEF Taken
  <2>2. OrderAt(r)
    BY DEF ChannelInv, OrderInv
  <2>3. QED
    BY <2>1, <2>2 DEF OrderAt
<1>4. OrderInv'
  BY <1>3 DEF ChannelInv, OrderInv
<1>5. QED
  BY <1>1, <1>2, <1>4 DEF ChannelInv

\* Every step of the channel keeps the invariant.
LEMMA NextChannelInv ==
    ASSUME Channel!ChannelAssumption, ChannelInv, [Channel!Next]_Channel!vars
    PROVE  ChannelInv'
<1>1. CASE Channel!Deliver
  BY <1>1, DeliverStep
<1>2. ASSUME NEW p \in Channel!Ports, Channel!Post(p) PROVE ChannelInv'
  BY <1>2, PostStep
<1>3. ASSUME NEW p \in Channel!Ports, Channel!On(p) PROVE ChannelInv'
  <2>1. io' \in [Channel!Ports -> BOOLEAN]
    BY <1>3 DEF Channel!On, ChannelInv, PortTypes
  <2>2. QED
    BY <1>3, <2>1, OnStep DEF Channel!On
<1>4. ASSUME NEW p \in Channel!Ports, Channel!Close(p) PROVE ChannelInv'
  BY <1>4, CloseStep
<1>5. ASSUME NEW p \in Channel!Ports, Channel!PipeCallback(p) PROVE ChannelInv'
  BY <1>5, PipeCallbackStep
<1>6. CASE UNCHANGED <<queue, pipe, refs, open, io, port, batch, posted, delivered>>
  <2>1. io' \in [Channel!Ports -> BOOLEAN]
    BY <1>6 DEF ChannelInv, PortTypes
  <2>2. QED
    BY <1>6, <2>1, OnStep
<1>7. ASSUME NEW p \in Channel!Ports, Channel!WalkBefore(p) PROVE ChannelInv'
  BY <1>6, <1>7 DEF Channel!WalkBefore
<1>8. CASE Channel!WalkOn
  BY <1>6, <1>8 DEF Channel!WalkOn
<1>9. CASE UNCHANGED Channel!vars
  BY <1>6, <1>9 DEF Channel!vars
<1>10. QED
  BY <1>1, <1>2, <1>3, <1>4, <1>5, <1>7, <1>8, <1>9 DEF Channel!Next, Channel!Step

\* Every step keeps what the loop knows of the handles: mp_close takes the handle
\* of an open port out of the list, and a callback runs for another handle than the
\* one kept as next.
LEMMA NextPortWalk ==
    ASSUME ChannelInv, PortWalk, [Channel!Next]_Channel!vars
    PROVE  PortWalk'
<1> USE DEF PortWalk
<1>t. /\ open \in [Channel!Ports -> BOOLEAN] /\ io \in [Channel!Ports -> BOOLEAN]
      /\ port \in {0} \cup Channel!Ports /\ 0 \notin Channel!Ports
  BY DEF ChannelInv, PortTypes, Channel!Ports
<1>1. CASE Channel!Deliver
  BY <1>t, <1>1 DEF Channel!Deliver, Channel!walkVars
<1>2. ASSUME NEW p \in Channel!Ports, Channel!Post(p) PROVE PortWalk'
  BY <1>t, <1>2 DEF Channel!Post, Channel!walkVars
<1>3. ASSUME NEW p \in Channel!Ports, Channel!On(p) PROVE PortWalk'
  BY <1>t, <1>3 DEF Channel!On
<1>4. ASSUME NEW p \in Channel!Ports, Channel!Close(p) PROVE PortWalk'
  BY <1>t, <1>4 DEF Channel!Close, Channel!walkVars
<1>5. ASSUME NEW p \in Channel!Ports, Channel!PipeCallback(p) PROVE PortWalk'
  <2>1. Channel!Peer(p) # p
    BY DEF Channel!Ports, Channel!Peer
  <2>2. /\ nextPort' = 0 \/ (nextPort' = Channel!Peer(p) /\ nextPort' \in Channel!Ports
                              /\ io[nextPort'])
        /\ port' = p /\ UNCHANGED <<open, io, newest, portsUndefined>>
    BY <1>5 DEF Channel!PipeCallback
  <2>3. QED
    BY <1>t, <2>1, <2>2
<1>6. ASSUME NEW p \in Channel!Ports, Channel!WalkBefore(p) PROVE PortWalk'
  BY <1>t, <1>6 DEF Channel!WalkBefore
<1>7. CASE Channel!WalkOn
  BY <1>t, <1>7 DEF Channel!WalkOn
<1>8. CASE UNCHANGED Channel!vars
  BY <1>8 DEF Channel!vars
<1>9. QED
  BY <1>1, <1>2, <1>3, <1>4, <1>5, <1>6, <1>7, <1>8 DEF Channel!Next, Channel!Step

\* The invariant says what the two ends may rely on: each port has received a
\* prefix of what was posted to it, and the batch and the queue hold the rest.
LEMMA ChannelInvSuffices ==
    ASSUME Channel!ChannelAssumption, ChannelInv, PortWalk
    PROVE  PortsInOrder
<1>t. /\ queue \in [Channel!Ports -> Seq(1..MaxPosts)]
      /\ delivered \in [Channel!Ports -> Seq(1..MaxPosts)] /\ batch \in Seq(1..MaxPosts)
      /\ refs \in [Channel!Ports -> 0..2]
      /\ posted \in [Channel!Ports -> 0..MaxPosts] /\ MaxPosts \in Nat
  BY DEF ChannelInv, PortTypes, Channel!ChannelAssumption
<1>1. Channel!QueuesLive
  <2>1. PICK n : n = Cardinality({q \in Channel!Ports : open[q]})
    OBVIOUS
  <2>2. n \in 0..2 /\ (n = 2 <=> open[1] /\ open[2]) /\ (n = 0 <=> ~open[1] /\ ~open[2])
    BY <2>1, OpenPorts DEF ChannelInv
  <2>3. \A p \in Channel!Ports : refs[p] = n
    BY <1>t, <2>2 DEF ChannelInv, RefsInv
  <2>4. QED
    <3>1. \A p \in Channel!Ports : refs[p] = Cardinality({q \in Channel!Ports : open[q]})
      BY <2>1, <2>3
    <3>c. \A S : Channel!Cardinality(S) = Cardinality(S)
      BY DEF Channel!Cardinality, Cardinality
    <3>w. \A p \in Channel!Ports : queue[p] # <<>> => pipe[p] > 0
      BY DEF ChannelInv, WakeInv
    <3>2. QED
      BY <3>1, <3>w, <3>c DEF Channel!QueuesLive, PortWalk
<1>2. ASSUME NEW p \in Channel!Ports
      PROVE  /\ Len(delivered[p]) <= posted[p]
             /\ delivered[p] = [i \in 1..Len(delivered[p]) |-> i]
             /\ refs[p] > 0 =>
                  delivered[p] \o ((IF port = p THEN batch ELSE <<>>) \o queue[p])
                    = [i \in 1..posted[p] |-> i]
  <2>1. PICK d : d = delivered[p]
    OBVIOUS
  <2>2. PICK b : b = IF port = p THEN batch ELSE <<>>
    OBVIOUS
  <2>3. PICK q : q = queue[p]
    OBVIOUS
  <2>4. PICK m : m = posted[p]
    OBVIOUS
  <2>5. /\ d \in Seq(1..MaxPosts) /\ b \in Seq(1..MaxPosts) /\ q \in Seq(1..MaxPosts)
        /\ m \in Nat /\ Len(d) \in Nat /\ Len(b) \in Nat /\ Len(q) \in Nat
    <3>1. d \in Seq(1..MaxPosts) /\ q \in Seq(1..MaxPosts) /\ m \in Nat
      BY <1>t, <2>1, <2>3, <2>4
    <3>2. b \in Seq(1..MaxPosts)
      BY <1>t, <2>2, EmptySeq
    <3>3. QED
      BY <3>1, <3>2
  <2>o. OrderAt(p)
    BY DEF ChannelInv, OrderInv
  <2>6. Taken(p) = Len(d) + Len(b)
    BY <2>1, <2>2 DEF Taken
  <2>7. \A i \in 1..Len(d) : d[i] = i
    BY <2>1, <2>o DEF OrderAt
  <2>8. \A i \in 1..Len(b) : b[i] = Len(d) + i
    BY <2>1, <2>2, <2>5, <2>o DEF OrderAt
  <2>9. /\ \A i \in 1..Len(q) : q[i] = Len(d) + Len(b) + i
        /\ Len(d) + Len(b) + Len(q) <= m
        /\ refs[p] > 0 => Len(d) + Len(b) + Len(q) = m
    BY <2>3, <2>4, <2>6, <2>o DEF OrderAt
  <2>10. Len(d) <= m /\ d = [i \in 1..Len(d) |-> i]
    BY <1>t, <2>5, <2>7, <2>9, Counting
  <2>11. ASSUME refs[p] > 0 PROVE d \o (b \o q) = [i \in 1..m |-> i]
    <3>1. PICK u : u = b \o q
      OBVIOUS
    <3>2. /\ u \in Seq(1..MaxPosts) /\ Len(u) = Len(b) + Len(q)
          /\ \A i \in 1..Len(u) : u[i] = Len(d) + i
      BY <1>t, <2>5, <2>8, <2>9, <3>1, CountingOn
    <3>3. PICK w : w = d \o u
      OBVIOUS
    <3>k. PICK k \in Nat : k = 0
      OBVIOUS
    <3>4. /\ \A i \in 1..Len(d) : d[i] = k + i
          /\ \A i \in 1..Len(u) : u[i] = k + Len(d) + i
      BY <2>5, <2>7, <3>2, <3>k
    <3>5. /\ w \in Seq(1..MaxPosts) /\ Len(w) = Len(d) + Len(u)
          /\ \A i \in 1..Len(w) : w[i] = k + i
      <4>1. d \in Seq(1..MaxPosts) /\ u \in Seq(1..MaxPosts) /\ MaxPosts \in Nat
        BY <1>t, <2>5, <3>2
      <4>2. QED
        BY <3>3, <3>4, <4>1, CountingOn
    <3>6. \A i \in 1..Len(w) : w[i] = i
      BY <3>5, <3>k
    <3>7. Len(w) = m
      <4>1. Len(d) + Len(b) + Len(q) = m
        BY <2>9, <2>11
      <4>2. Len(w) = Len(d) + (Len(b) + Len(q))
        BY <3>2, <3>5
      <4>3. QED
        BY <2>5, <4>1, <4>2
    <3>8. w = [i \in 1..m |-> i]
      BY <1>t, <3>5, <3>6, <3>7, Counting
    <3>9. QED
      BY <3>1, <3>3, <3>8
  <2>12. QED
    BY <2>1, <2>2, <2>3, <2>4, <2>10, <2>11
<1>3. Channel!TypeOK
  BY DEF ChannelInv, PortTypes, PortWalk, Channel!TypeOK
<1>4. QED
  BY <1>1, <1>2, <1>3 DEF PortsInOrder, Channel!DeliveredInOrder

\* However posts, closes and callbacks interleave, as long as the loop is not at a
\* freed handle: each port of a MessageChannel is called with the messages posted to
\* it, in order, each once; what is not delivered yet is in the batch or the queue
\* and has a byte to wake its receiver; and a queue has a reference for each open
\* port.  The loop gets to a freed handle only by a close() that is not in the port's
\* own onmessage.
THEOREM PortsStayInOrder ==
    Channel!Spec => []PortsInOrder
<1>1. Channel!Init => ChannelInv /\ PortWalk
  <2>1. Channel!Init => PortWalk
    BY DEF Channel!Init, PortWalk, Channel!Ports
  <2>2. QED
    BY <2>1, ChannelInit, MessagingAssumption
<1>2. ChannelInv /\ PortWalk /\ [Channel!Next]_Channel!vars => (ChannelInv /\ PortWalk)'
  BY NextChannelInv, NextPortWalk, MessagingAssumption
<1>3. ChannelInv /\ PortWalk => PortsInOrder
  BY ChannelInvSuffices, MessagingAssumption
<1>4. QED
  BY <1>1, <1>2, <1>3, PTL DEF Channel!Spec

-----------------------------------------------------------------------------
(* Worker *)

\* Where the two threads can be: main_thread_pipe_cb is on the stack from drain
\* to its return, terminate() has joined the thread before it releases anything,
\* and a message whose byte is not written yet belongs to JavaScript code.
StageInv ==
    /\ mpc \in {"drain", "handler"} => inCallback
    /\ mpc = "loop" => ~inCallback
    /\ mpc = "drain" => mainIo
    /\ mpc \in {"flag", "byte", "join", "free"} => mainIo
    /\ mpc \in {"byte", "join", "free"} => terminateRequested
    /\ mpc = "free" => wpc = "exited"
    /\ mainPosting => mpc \in {"loop", "handler"}
    /\ workerPosting => wpc \in {"script", "js", "handler", "stopping"}

\* The handle is live and its listener registered until terminate() releases both;
\* from then on it is freed, or waits for the end of the callback.  While the loop
\* holds the listener as the next one, the worker's own callback is not running.
HandleInv ==
    /\ mainIo => handle = "live" /\ ~needsFree
    /\ mainIo /\ terminateRequested => mpc \in {"byte", "join", "free"}
    /\ ~mainIo => terminateRequested /\ wpc = "exited"
    /\ ~mainIo => IF needsFree /\ handle = "live" THEN mpc = "handler" ELSE handle = "freed"
    /\ handle = "freed" => ~inCallback
    /\ inCallback \/ needsFree => ~nextUp /\ ~undefined
    /\ undefined => handle = "freed"

\* What is queued was pushed.
QueuesInv ==
    /\ \A i \in 1..Len(mainQueue) : mainQueue[i] \in pushed
    /\ \A i \in 1..Len(workerQueue) : workerQueue[i] \in pushed

WorkerInv == Worker!TypeOK /\ Worker!NoStrandedMessage /\ StageInv /\ HandleInv /\ QueuesInv

\* Every step keeps the stages of the two threads and of the handle in agreement.
LEMMA WorkerStages ==
    ASSUME Worker!WorkerAssumption, WorkerInv, Worker!Next
    PROVE  StageInv' /\ HandleInv'
<1> USE DEF StageInv, HandleInv
<1>t. /\ StageInv /\ HandleInv
      /\ mpc \in Worker!MainPCs /\ handle \in {"live", "freed"} /\ ~undefined
      /\ {terminateRequested, inCallback, needsFree, mainIo, nextUp, undefined,
          mainPosting, workerPosting} \subseteq BOOLEAN
  BY DEF WorkerInv, Worker!TypeOK, Worker!Next
<1>1. ASSUME NEW m \in ToWorker, Worker!MainPush(m) PROVE StageInv' /\ HandleInv'
  BY <1>t, <1>1 DEF Worker!MainPush, Worker!MainInJS, Worker!mainVars, Worker!walkVars
<1>2. ASSUME NEW m \in ToMain, Worker!WorkerPush(m) PROVE StageInv' /\ HandleInv'
  BY <1>t, <1>2 DEF Worker!WorkerPush, Worker!WorkerInJS, Worker!workerLocal,
     Worker!mainVars, Worker!walkVars
<1>3. CASE Worker!MainNotify
  BY <1>t, <1>3 DEF Worker!MainNotify, Worker!Write, Worker!mainVars, Worker!walkVars
<1>4. CASE Worker!MainCallback
  BY <1>t, <1>4 DEF Worker!MainCallback
<1>5. CASE Worker!MainDrain
  BY <1>t, <1>5 DEF Worker!MainDrain, Worker!LeaveCallback, Worker!walkVars
<1>6. CASE Worker!MainHandlerReturn
  BY <1>t, <1>6 DEF Worker!MainHandlerReturn, Worker!LeaveCallback, Worker!walkVars
<1>7. CASE Worker!SetFlag
  BY <1>t, <1>7 DEF Worker!SetFlag, Worker!mainVars, Worker!walkVars
<1>8. CASE Worker!WakeWorker
  BY <1>t, <1>8 DEF Worker!WakeWorker, Worker!Write, Worker!mainVars, Worker!walkVars
<1>9. CASE Worker!Join
  BY <1>t, <1>9 DEF Worker!Join, Worker!mainVars, Worker!walkVars
<1>10. CASE Worker!Release
  <2>1. CASE inCallback
    BY <1>t, <1>10, <2>1 DEF Worker!Release, Worker!walkVars
  <2>2. CASE ~inCallback
    BY <1>t, <1>10, <2>2 DEF Worker!Release, Worker!walkVars
  <2>3. QED
    BY <2>1, <2>2
<1>11. CASE Worker!Terminate
  BY <1>t, <1>11 DEF Worker!Terminate, Worker!MainInJS, Worker!mainVars, Worker!walkVars
<1>12. CASE Worker!WorkerLoad
  BY <1>t, <1>12 DEF Worker!WorkerLoad, Worker!workerLocal, Worker!mainVars,
     Worker!walkVars
<1>13. CASE Worker!WorkerNotify
  BY <1>t, <1>13 DEF Worker!WorkerNotify, Worker!Write, Worker!workerLocal,
     Worker!mainVars, Worker!walkVars
<1>14. CASE Worker!WorkerCheck
  BY <1>t, <1>14 DEF Worker!WorkerCheck, Worker!workerLocal, Worker!mainVars,
     Worker!walkVars
<1>15. CASE Worker!WorkerDrain
  BY <1>t, <1>15 DEF Worker!WorkerDrain, Worker!workerLocal, Worker!mainVars,
     Worker!walkVars
<1>16. CASE Worker!WorkerExit
  BY <1>t, <1>16 DEF Worker!WorkerExit, Worker!workerLocal, Worker!mainVars,
     Worker!walkVars
<1>17. CASE Worker!WorkerJSReturn
  BY <1>t, <1>17 DEF Worker!WorkerJSReturn, Worker!WorkerInJS, Worker!workerLocal,
     Worker!mainVars, Worker!walkVars
<1>18. CASE Worker!WorkerTimer
  BY <1>t, <1>18 DEF Worker!WorkerTimer, Worker!workerLocal, Worker!mainVars,
     Worker!walkVars
<1>19. CASE Worker!WorkerCallback
  BY <1>t, <1>19 DEF Worker!WorkerCallback, Worker!workerLocal, Worker!mainVars,
     Worker!walkVars
<1>20. CASE Worker!WalkBefore
  BY <1>t, <1>20 DEF Worker!WalkBefore
<1>21. CASE Worker!WalkOn
  BY <1>t, <1>21 DEF Worker!WalkOn
<1>22. QED
  BY <1>1, <1>2, <1>3, <1>4, <1>5, <1>6, <1>7, <1>8, <1>9, <1>10, <1>11, <1>12,
     <1>13, <1>14, <1>15, <1>16, <1>17, <1>18, <1>19, <1>20, <1>21
  DEF Worker!Next, Worker!Step, Worker!MainStep, Worker!WorkerStep

\* Every step keeps the types; what is received has been pushed.
LEMMA WorkerTypes ==
    ASSUME Worker!WorkerAssumption, WorkerInv, Worker!Next
    PROVE  Worker!TypeOK'
<1> USE DEF Worker!TypeOK, Worker!MainPCs, Worker!WorkerPCs
<1>t. Worker!TypeOK /\ QueuesInv /\ PipeCap \in Nat \ {0}
  BY DEF WorkerInv, Worker!WorkerAssumption
<1>1. ASSUME NEW m \in ToWorker, Worker!MainPush(m) PROVE Worker!TypeOK'
  BY <1>t, <1>1 DEF Worker!MainPush, Worker!MainInJS, Worker!mainVars, Worker!walkVars
<1>2. ASSUME NEW m \in ToMain, Worker!WorkerPush(m) PROVE Worker!TypeOK'
  BY <1>t, <1>2 DEF Worker!WorkerPush, Worker!WorkerInJS, Worker!workerLocal,
     Worker!mainVars, Worker!walkVars
<1>3. CASE Worker!MainNotify
  <2>1. workerPipe' \in 0..PipeCap
    BY <1>t, <1>3 DEF Worker!MainNotify, Worker!Write, Worker!mainVars, Worker!walkVars
  <2>2. QED
    BY <1>t, <1>3, <2>1 DEF Worker!MainNotify, Worker!Write, Worker!mainVars,
       Worker!walkVars
<1>4. CASE Worker!MainCallback
  <2>1. {terminateRequested, inCallback, needsFree, mainIo, nextUp, undefined,
         mainPosting, workerPosting}' \subseteq BOOLEAN
    BY <1>t, <1>4 DEF Worker!MainCallback
  <2>2. 0 \in 0..PipeCap
    BY <1>t
  <2>3. QED
    BY <1>t, <1>4, <2>1, <2>2 DEF Worker!MainCallback
<1>5. CASE Worker!MainDrain
  <2>1. CASE mainQueue = <<>>
    BY <1>t, <1>5, <2>1 DEF Worker!MainDrain, Worker!LeaveCallback, Worker!walkVars
  <2>2. CASE mainQueue # <<>>
    <3>1. PICK h : h = Head(mainQueue)
      OBVIOUS
    <3>2. h \in pushed /\ mainQueue' \in Seq(ToMain) /\ received' = received \cup {h}
      <4>1. mainQueue' = Tail(mainQueue) /\ received' = received \cup {h}
        BY <1>5, <2>2, <3>1 DEF Worker!MainDrain
      <4>2. h \in pushed
        BY <1>t, <2>2, <3>1, TakeHead DEF QueuesInv
      <4>3. mainQueue' \in Seq(ToMain)
        BY <1>t, <2>2, <4>1, TakeHead
      <4>4. QED
        BY <4>1, <4>2, <4>3
    <3>3. QED
      BY <1>t, <1>5, <2>2, <3>2 DEF Worker!MainDrain, Worker!walkVars
  <2>3. QED
    BY <2>1, <2>2
<1>6. CASE Worker!MainHandlerReturn
  BY <1>t, <1>6 DEF Worker!MainHandlerReturn, Worker!LeaveCallback, Worker!walkVars
<1>7. CASE Worker!SetFlag
  BY <1>t, <1>7 DEF Worker!SetFlag, Worker!mainVars, Worker!walkVars
<1>8. CASE Worker!WakeWorker
  BY <1>t, <1>8 DEF Worker!WakeWorker, Worker!Write, Worker!mainVars, Worker!walkVars
<1>9. CASE Worker!Join
  BY <1>t, <1>9 DEF Worker!Join, Worker!mainVars, Worker!walkVars
<1>10. CASE Worker!Release
  <2>1. <<>> \in Seq(ToWorker) /\ <<>> \in Seq(ToMain) /\ 0 \in 0..PipeCap
    BY <1>t
  <2>2. QED
    BY <1>t, <1>10, <2>1 DEF Worker!Release, Worker!walkVars
<1>11. CASE Worker!Terminate
  BY <1>t, <1>11 DEF Worker!Terminate, Worker!MainInJS, Worker!mainVars, Worker!walkVars
<1>12. CASE Worker!WorkerLoad
  BY <1>t, <1>12 DEF Worker!WorkerLoad, Worker!workerLocal, Worker!mainVars,
     Worker!walkVars
<1>13. CASE Worker!WorkerNotify
  <2>1. mainPipe' \in 0..PipeCap
    BY <1>t, <1>13 DEF Worker!WorkerNotify, Worker!Write, Worker!workerLocal,
       Worker!mainVars, Worker!walkVars
  <2>2. QED
    BY <1>t, <1>13, <2>1 DEF Worker!WorkerNotify, Worker!Write, Worker!workerLocal,
       Worker!mainVars, Worker!walkVars
<1>14. CASE Worker!WorkerCheck
  BY <1>t, <1>14 DEF Worker!WorkerCheck, Worker!workerLocal, Worker!mainVars,
     Worker!walkVars
<1>15. CASE Worker!WorkerDrain
  <2>1. CASE workerQueue = <<>>
    BY <1>t, <1>15, <2>1 DEF Worker!WorkerDrain, Worker!workerLocal, Worker!mainVars,
       Worker!walkVars
  <2>2. CASE workerQueue # <<>>
    <3>1. PICK h : h = Head(workerQueue)
      OBVIOUS
    <3>2. h \in pushed /\ workerQueue' \in Seq(ToWorker) /\ received' = received \cup {h}
      <4>1. workerQueue' = Tail(workerQueue) /\ received' = received \cup {h}
        BY <1>15, <2>2, <3>1 DEF Worker!WorkerDrain
      <4>2. h \in pushed
        BY <1>t, <2>2, <3>1, TakeHead DEF QueuesInv
      <4>3. workerQueue' \in Seq(ToWorker)
        BY <1>t, <2>2, <4>1, TakeHead
      <4>4. QED
        BY <4>1, <4>2, <4>3
    <3>3. QED
      <4>1. received' \subseteq pushed
        BY <1>t, <3>2
      <4>2. /\ wpc' = "handler"
            /\ UNCHANGED <<mainQueue, workerPipe, mainPipe, workerPosting, pushed,
                           terminateRequested, inCallback, needsFree, mainIo, nextUp,
                           undefined, mainPosting, handle, mpc>>
        BY <1>15, <2>2 DEF Worker!WorkerDrain, Worker!workerLocal, Worker!mainVars,
           Worker!walkVars
      <4>3. QED
        BY <1>t, <3>2, <4>1, <4>2
  <2>3. QED
    BY <2>1, <2>2
<1>16. CASE Worker!WorkerExit
  BY <1>t, <1>16 DEF Worker!WorkerExit, Worker!workerLocal, Worker!mainVars,
     Worker!walkVars
<1>17. CASE Worker!WorkerJSReturn
  BY <1>t, <1>17 DEF Worker!WorkerJSReturn, Worker!WorkerInJS, Worker!workerLocal,
     Worker!mainVars, Worker!walkVars
<1>18. CASE Worker!WorkerTimer
  BY <1>t, <1>18 DEF Worker!WorkerTimer, Worker!workerLocal, Worker!mainVars,
     Worker!walkVars
<1>19. CASE Worker!WorkerCallback
  BY <1>t, <1>19 DEF Worker!WorkerCallback, Worker!workerLocal, Worker!mainVars,
     Worker!walkVars
<1>20. CASE Worker!WalkBefore
  BY <1>t, <1>20 DEF Worker!WalkBefore
<1>21. CASE Worker!WalkOn
  BY <1>t, <1>21 DEF Worker!WalkOn
<1>22. QED
  BY <1>1, <1>2, <1>3, <1>4, <1>5, <1>6, <1>7, <1>8, <1>9, <1>10, <1>11, <1>12,
     <1>13, <1>14, <1>15, <1>16, <1>17, <1>18, <1>19, <1>20, <1>21
  DEF Worker!Next, Worker!Step, Worker!MainStep, Worker!WorkerStep

\* No step strands a message: the byte is written after the push and the queue is
\* looked at after the byte is taken.
LEMMA WorkerWakes ==
    ASSUME Worker!WorkerAssumption, WorkerInv, Worker!Next
    PROVE  Worker!NoStrandedMessage'
<1> USE DEF Worker!NoStrandedMessage
<1>t. /\ Worker!NoStrandedMessage /\ StageInv /\ HandleInv
      /\ workerPipe \in Nat /\ mainPipe \in Nat /\ PipeCap \in Nat \ {0}
      /\ mpc \in Worker!MainPCs /\ handle \in {"live", "freed"} /\ ~undefined
      /\ {terminateRequested, inCallback, needsFree, mainIo, nextUp, undefined,
          mainPosting, workerPosting} \subseteq BOOLEAN
  BY DEF WorkerInv, Worker!TypeOK, Worker!WorkerAssumption, Worker!Next
<1> USE DEF StageInv, HandleInv
<1>1. ASSUME NEW m \in ToWorker, Worker!MainPush(m) PROVE Worker!NoStrandedMessage'
  BY <1>t, <1>1 DEF Worker!MainPush, Worker!MainInJS, Worker!mainVars, Worker!walkVars
<1>2. ASSUME NEW m \in ToMain, Worker!WorkerPush(m) PROVE Worker!NoStrandedMessage'
  BY <1>t, <1>2 DEF Worker!WorkerPush, Worker!WorkerInJS, Worker!workerLocal,
     Worker!mainVars, Worker!walkVars
<1>3. CASE Worker!MainNotify
  BY <1>t, <1>3 DEF Worker!MainNotify, Worker!Write, Worker!mainVars, Worker!walkVars
<1>4. CASE Worker!MainCallback
  BY <1>t, <1>4 DEF Worker!MainCallback
<1>5. CASE Worker!MainDrain
  BY <1>t, <1>5 DEF Worker!MainDrain, Worker!LeaveCallback, Worker!walkVars
<1>6. CASE Worker!MainHandlerReturn
  BY <1>t, <1>6 DEF Worker!MainHandlerReturn, Worker!LeaveCallback, Worker!walkVars
<1>7. CASE Worker!SetFlag
  BY <1>t, <1>7 DEF Worker!SetFlag, Worker!mainVars, Worker!walkVars
<1>8. CASE Worker!WakeWorker
  BY <1>t, <1>8 DEF Worker!WakeWorker, Worker!Write, Worker!mainVars, Worker!walkVars
<1>9. CASE Worker!Join
  BY <1>t, <1>9 DEF Worker!Join, Worker!mainVars, Worker!walkVars
<1>10. CASE Worker!Release
  BY <1>t, <1>10 DEF Worker!Release, Worker!walkVars
<1>11. CASE Worker!Terminate
  BY <1>t, <1>11 DEF Worker!Terminate, Worker!MainInJS, Worker!mainVars, Worker!walkVars
<1>12. CASE Worker!WorkerLoad
  BY <1>t, <1>12 DEF Worker!WorkerLoad, Worker!workerLocal, Worker!mainVars,
     Worker!walkVars
<1>13. CASE Worker!WorkerNotify
  BY <1>t, <1>13 DEF Worker!WorkerNotify, Worker!Write, Worker!workerLocal,
     Worker!mainVars, Worker!walkVars
<1>14. CASE Worker!WorkerCheck
  BY <1>t, <1>14 DEF Worker!WorkerCheck, Worker!workerLocal, Worker!mainVars,
     Worker!walkVars
<1>15. CASE Worker!WorkerDrain
  BY <1>t, <1>15 DEF Worker!WorkerDrain, Worker!workerLocal, Worker!mainVars,
     Worker!walkVars
<1>16. CASE Worker!WorkerExit
  BY <1>t, <1>16 DEF Worker!WorkerExit, Worker!workerLocal, Worker!mainVars,
     Worker!walkVars
<1>17. CASE Worker!WorkerJSReturn
  BY <1>t, <1>17 DEF Worker!WorkerJSReturn, Worker!WorkerInJS, Worker!workerLocal,
     Worker!mainVars, Worker!walkVars
<1>18. CASE Worker!WorkerTimer
  BY <1>t, <1>18 DEF Worker!WorkerTimer, Worker!workerLocal, Worker!mainVars,
     Worker!walkVars
<1>19. CASE Worker!WorkerCallback
  BY <1>t, <1>19 DEF Worker!WorkerCallback, Worker!workerLocal, Worker!mainVars,
     Worker!walkVars
<1>20. CASE Worker!WalkBefore
  BY <1>t, <1>20 DEF Worker!WalkBefore
<1>21. CASE Worker!WalkOn
  BY <1>t, <1>21 DEF Worker!WalkOn
<1>22. QED
  BY <1>1, <1>2, <1>3, <1>4, <1>5, <1>6, <1>7, <1>8, <1>9, <1>10, <1>11, <1>12,
     <1>13, <1>14, <1>15, <1>16, <1>17, <1>18, <1>19, <1>20, <1>21
  DEF Worker!Next, Worker!Step, Worker!MainStep, Worker!WorkerStep

\* The queues hold pushed messages only: push_message is the only way in.
LEMMA WorkerQueues ==
    ASSUME WorkerInv, Worker!Next
    PROVE  QueuesInv'
<1>t. /\ workerQueue \in Seq(ToWorker) /\ mainQueue \in Seq(ToMain)
      /\ \A i \in 1..Len(mainQueue) : mainQueue[i] \in pushed
      /\ \A i \in 1..Len(workerQueue) : workerQueue[i] \in pushed
  BY DEF WorkerInv, Worker!TypeOK, QueuesInv
<1>1. ASSUME NEW m \in ToWorker, Worker!MainPush(m) PROVE QueuesInv'
  BY <1>t, <1>1 DEF QueuesInv, Worker!MainPush
<1>2. ASSUME NEW m \in ToMain, Worker!WorkerPush(m) PROVE QueuesInv'
  BY <1>t, <1>2 DEF QueuesInv, Worker!WorkerPush
<1>3. CASE Worker!MainDrain /\ mainQueue # <<>>
  <2>1. /\ Len(mainQueue) \in Nat /\ Len(mainQueue') = Len(mainQueue) - 1
        /\ \A i \in 1..(Len(mainQueue) - 1) : mainQueue'[i] = mainQueue[i + 1]
        /\ UNCHANGED <<workerQueue, pushed>>
    BY <1>t, <1>3, TakeHead DEF Worker!MainDrain
  <2>2. QED
    BY <1>t, <2>1 DEF QueuesInv
<1>4. CASE Worker!WorkerDrain /\ workerQueue # <<>>
  <2>1. /\ Len(workerQueue) \in Nat /\ Len(workerQueue') = Len(workerQueue) - 1
        /\ \A i \in 1..(Len(workerQueue) - 1) : workerQueue'[i] = workerQueue[i + 1]
        /\ UNCHANGED <<mainQueue, pushed>>
    BY <1>t, <1>4, TakeHead DEF Worker!WorkerDrain
  <2>2. QED
    BY <1>t, <2>1 DEF QueuesInv
<1>5. CASE Worker!Release
  BY <1>5 DEF QueuesInv, Worker!Release
<1>6. CASE UNCHANGED <<workerQueue, mainQueue, pushed>>
  BY <1>t, <1>6 DEF QueuesInv
<1>7. \/ \E m \in ToWorker : Worker!MainPush(m)
      \/ \E m \in ToMain : Worker!WorkerPush(m)
      \/ Worker!MainDrain /\ mainQueue # <<>>
      \/ Worker!WorkerDrain /\ workerQueue # <<>>
      \/ Worker!Release
      \/ UNCHANGED <<workerQueue, mainQueue, pushed>>
  BY DEF Worker!Next, Worker!Step, Worker!WalkBefore, Worker!WalkOn, Worker!MainStep,
     Worker!WorkerStep, Worker!MainNotify,
     Worker!MainCallback, Worker!MainDrain,
     Worker!MainHandlerReturn, Worker!SetFlag, Worker!WakeWorker, Worker!Join,
     Worker!Terminate, Worker!WorkerLoad,
     Worker!WorkerNotify, Worker!WorkerCheck, Worker!WorkerDrain, Worker!WorkerExit,
     Worker!WorkerJSReturn,
     Worker!WorkerTimer, Worker!WorkerCallback
<1>8. QED
  BY <1>1, <1>2, <1>3, <1>4, <1>5, <1>6, <1>7

\* The invariant holds when js_worker_constructor has started the thread.
LEMMA WorkerInit ==
    ASSUME Worker!WorkerAssumption, Worker!Init
    PROVE  WorkerInv
<1>1. Worker!TypeOK
  <2>1. <<>> \in Seq(ToWorker) /\ <<>> \in Seq(ToMain) /\ 0 \in 0..PipeCap
    BY DEF Worker!WorkerAssumption
  <2>2. {terminateRequested, inCallback, needsFree, mainIo, nextUp, undefined,
         mainPosting, workerPosting} \subseteq BOOLEAN
    BY DEF Worker!Init
  <2>3. QED
    BY <2>1, <2>2 DEF Worker!Init, Worker!TypeOK, Worker!MainPCs, Worker!WorkerPCs
<1>2. StageInv /\ HandleInv /\ QueuesInv /\ Worker!NoStrandedMessage
  BY DEF Worker!Init, StageInv, HandleInv, QueuesInv, Worker!NoStrandedMessage
<1>3. QED
  BY <1>1, <1>2 DEF WorkerInv

\* Every step of the two threads keeps the invariant.
LEMMA NextWorkerInv ==
    ASSUME Worker!WorkerAssumption, WorkerInv, [Worker!Next]_Worker!vars
    PROVE  WorkerInv'
<1>1. CASE Worker!Next
  BY <1>1, WorkerStages, WorkerTypes, WorkerWakes, WorkerQueues DEF WorkerInv
<1>2. CASE UNCHANGED Worker!vars
  BY <1>2 DEF Worker!vars, WorkerInv, StageInv, HandleInv, QueuesInv, Worker!TypeOK,
     Worker!NoStrandedMessage
<1>3. QED
  BY <1>1, <1>2

\* The invariant says that the handle outlives its users.
LEMMA WorkerInvSuffices ==
    ASSUME WorkerInv
    PROVE  WorkerSound
  BY DEF WorkerInv, WorkerSound, Worker!TypeOK, HandleInv, Worker!HandleOutlivesUsers

\* Between the thread that created it and a Web Worker, however posts, callbacks
\* and terminate() interleave and as long as the loop is not at a freed handle: no
\* message is stranded in a queue without a byte, a post or a drain to fetch it, and
\* the WorkerHandle is freed only when the worker thread is gone and
\* main_thread_pipe_cb has returned.  The loop gets to the freed main_io only by a
\* terminate() in the callback before it, never by one in the worker's onmessage.
THEOREM WorkersStaySound ==
    Worker!Spec => []WorkerSound
<1>1. Worker!Init => WorkerInv
  BY WorkerInit, MessagingAssumption
<1>2. WorkerInv /\ [Worker!Next]_Worker!vars => WorkerInv'
  BY NextWorkerInv, MessagingAssumption
<1>3. WorkerInv => WorkerSound
  BY WorkerInvSuffices
<1>4. QED
  BY <1>1, <1>2, <1>3, PTL DEF Worker!Spec

\* Once terminate() has set the flag, no step delivers a message of the worker to
\* main's onmessage, whatever is still queued: onmessage is called only from the
\* drain loop, which the flag ends.
LEMMA TerminatedStep ==
    ASSUME Worker!WorkerAssumption, WorkerInv, [Worker!Next]_Worker!vars
    PROVE  [Worker!NothingAfterTerminate]_Worker!vars
<1>1. CASE Worker!MainDrain
  <2>1. ~terminateRequested
    BY <1>1 DEF WorkerInv, StageInv, HandleInv, Worker!MainDrain, Worker!TypeOK
  <2>2. QED
    BY <2>1 DEF Worker!NothingAfterTerminate
<1>2. CASE Worker!WorkerDrain
  <2>1. CASE workerQueue = <<>>
    BY <1>2, <2>1 DEF Worker!WorkerDrain, Worker!NothingAfterTerminate
  <2>2. CASE workerQueue # <<>>
    <3>1. PICK h : h = Head(workerQueue)
      OBVIOUS
    <3>2. h \in ToWorker /\ received' = received \cup {h}
      BY <1>2, <2>2, <3>1, TakeHead DEF Worker!WorkerDrain, WorkerInv, Worker!TypeOK
    <3>3. QED
      BY <3>2 DEF Worker!NothingAfterTerminate, Worker!WorkerAssumption
  <2>3. QED
    BY <2>1, <2>2
<1>3. CASE received' = received
  BY <1>3 DEF Worker!NothingAfterTerminate
<1>4. Worker!MainDrain \/ Worker!WorkerDrain \/ received' = received
  BY DEF Worker!Next, Worker!Step, Worker!WalkBefore, Worker!WalkOn, Worker!MainStep,
     Worker!WorkerStep, Worker!MainPush,
     Worker!WorkerPush, Worker!MainNotify,
     Worker!MainCallback, Worker!MainHandlerReturn, Worker!SetFlag, Worker!WakeWorker,
     Worker!Join, Worker!Release,
     Worker!Terminate, Worker!WorkerLoad, Worker!WorkerNotify, Worker!WorkerCheck,
     Worker!WorkerExit,
     Worker!WorkerJSReturn, Worker!WorkerTimer, Worker!WorkerCallback, Worker!vars
<1>5. QED
  BY <1>1, <1>2, <1>3, <1>4

\* After terminate() no message of the worker is delivered any more.
THEOREM TerminateIsFinal ==
    Worker!Spec => NothingAfterTerminate
<1>1. Worker!Init => WorkerInv
  BY WorkerInit, MessagingAssumption
<1>2. WorkerInv /\ [Worker!Next]_Worker!vars => WorkerInv'
  BY NextWorkerInv, MessagingAssumption
<1>3. WorkerInv /\ [Worker!Next]_Worker!vars => [Worker!NothingAfterTerminate]_Worker!vars
  BY TerminatedStep, MessagingAssumption
<1>4. QED
  BY <1>1, <1>2, <1>3, PTL DEF Worker!Spec, NothingAfterTerminate

=============================================================================
