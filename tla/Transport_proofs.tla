-------------------------- MODULE Transport_proofs --------------------------
(***************************************************************************)
(* The transport is a link as FrameLink describes it, whatever the sizes   *)
(* of the inbox and of the kernel's buffer: each step of pump, session and *)
(* peer is one of the link's, or none.                                     *)
(***************************************************************************)
EXTENDS Transport, SequenceTheorems, TLAPS

\* The frames on their way to the session, from the one it receives next.
Down == inbox \o Held \o wire

\* The frames of q are numbered one after the other, the first after n.
Numbered(q, n) == \A i \in 1 .. Len(q) : q[i] = n + i

-----------------------------------------------------------------------------
(* Three queues in a row.                                                  *)

LEMMA Row ==
  ASSUME NEW S, NEW a \in Seq(S), NEW b \in Seq(S), NEW c \in Seq(S)
  PROVE  /\ a \o b \o c \in Seq(S)
         /\ Len(a \o b \o c) = Len(a) + Len(b) + Len(c)
         /\ a \o b \o c = a \o (b \o c)
BY ConcatProperties, ConcatAssociative

\* A first element leaves the first queue.
LEMMA RowTake ==
  ASSUME NEW S, NEW a \in Seq(S), NEW b \in Seq(S), a # <<>>
  PROVE  a \o b # <<>> /\ Head(a \o b) = Head(a) /\ Tail(a \o b) = Tail(a) \o b
<1>1. /\ a \o b \in Seq(S) /\ Len(a \o b) = Len(a) + Len(b) /\ Len(a) \in Nat \ {0}
      /\ Len(b) \in Nat
  BY ConcatProperties, EmptySeq, LenProperties
<1>2. a \o b # <<>>
  BY <1>1, EmptySeq
<1>3. Head(a \o b) = Head(a)
  BY <1>1, ConcatProperties
<1>4. /\ Tail(a) \in Seq(S) /\ Len(Tail(a)) = Len(a) - 1
      /\ Tail(a \o b) \in Seq(S) /\ Len(Tail(a \o b)) = Len(a) + Len(b) - 1
      /\ Tail(a) \o b \in Seq(S) /\ Len(Tail(a) \o b) = Len(a) - 1 + Len(b)
  BY <1>1, <1>2, HeadTailProperties, ConcatProperties
<1>5. ASSUME NEW i \in 1 .. Len(Tail(a \o b))
      PROVE  Tail(a \o b)[i] = (Tail(a) \o b)[i]
  <2>1. Tail(a \o b)[i] = (a \o b)[i + 1]
    BY <1>1, <1>2, HeadTailProperties
  <2>2. (a \o b)[i + 1] = IF i + 1 <= Len(a) THEN a[i + 1] ELSE b[i + 1 - Len(a)]
    BY <1>1, <1>4, ConcatProperties
  <2>3. (Tail(a) \o b)[i] = IF i <= Len(a) - 1 THEN Tail(a)[i] ELSE b[i - (Len(a) - 1)]
    BY <1>1, <1>4, ConcatProperties
  <2>4. i <= Len(a) - 1 => Tail(a)[i] = a[i + 1]
    BY <1>1, <1>4, HeadTailProperties
  <2>5. QED
    BY <1>1, <2>1, <2>2, <2>3, <2>4
<1>6. QED
  BY <1>2, <1>3, <1>4, <1>5, SeqEqual

\* An element that moves to the end of the queue before it stays where it was.
LEMMA RowMove ==
  ASSUME NEW S, NEW a \in Seq(S), NEW b \in Seq(S), b # <<>>
  PROVE  a \o <<Head(b)>> \o Tail(b) = a \o b
<1>1. Head(b) \in S /\ Tail(b) \in Seq(S) /\ <<Head(b)>> \in Seq(S)
  BY HeadTailProperties
<1>2. <<Head(b)>> \o Tail(b) = b
  <2>1. /\ <<Head(b)>> \o Tail(b) \in Seq(S)
        /\ Len(<<Head(b)>> \o Tail(b)) = Len(b)
    BY <1>1, ConcatProperties, HeadTailProperties, LenProperties
  <2>2. \A i \in 1 .. Len(b) : (<<Head(b)>> \o Tail(b))[i] = b[i]
    BY <1>1, ConcatProperties, HeadTailProperties, LenProperties
  <2>3. QED
    BY <2>1, <2>2, SeqEqual
<1>3. QED
  BY <1>1, <1>2, ConcatAssociative

\* Append is concatenation with one element.
LEMMA AppendAtEnd ==
  ASSUME NEW S, NEW a \in Seq(S), NEW e \in S
  PROVE  Append(a, e) = a \o <<e>>
<1>1. /\ <<e>> \in Seq(S) /\ a \o <<e>> \in Seq(S) /\ Len(a \o <<e>>) = Len(a) + 1
      /\ Append(a, e) \in Seq(S) /\ Len(Append(a, e)) = Len(a) + 1
  BY ConcatProperties, LenProperties
<1>2. \A i \in 1 .. Len(a) + 1 : Append(a, e)[i] = (a \o <<e>>)[i]
  BY <1>1, ConcatProperties, LenProperties
<1>3. QED
  BY <1>1, <1>2, SeqEqual

\* What is cut off the last queue is cut off the row.
LEMMA RowCut ==
  ASSUME NEW S, NEW a \in Seq(S), NEW b \in Seq(S), NEW n \in 0 .. Len(b)
  PROVE  /\ Len(a) + n \in 0 .. Len(a \o b)
         /\ a \o SubSeq(b, 1, n) = SubSeq(a \o b, 1, Len(a) + n)
<1>1. /\ Len(a) \in Nat /\ Len(b) \in Nat /\ a \o b \in Seq(S)
      /\ Len(a \o b) = Len(a) + Len(b)
  BY ConcatProperties, LenProperties
<1> DEFINE cut == SubSeq(b, 1, n)
           whole == SubSeq(a \o b, 1, Len(a) + n)
<1>2. cut \in Seq(S) /\ Len(cut) = n /\ \A i \in 1 .. n : cut[i] = b[i]
  <2>1. \A i \in 1 .. n : b[i] \in S
    BY <1>1, ElementOfSeq
  <2>2. QED
    BY <2>1, SubSeqProperties
<1>3. /\ whole \in Seq(S) /\ Len(whole) = Len(a) + n
      /\ \A i \in 1 .. Len(a) + n : whole[i] = (a \o b)[i]
  <2>1. \A i \in 1 .. Len(a) + n : (a \o b)[i] \in S
    BY <1>1, ElementOfSeq
  <2>2. QED
    BY <1>1, <2>1, SubSeqProperties
<1>4. /\ a \o cut \in Seq(S) /\ Len(a \o cut) = Len(a) + n
      /\ \A i \in 1 .. Len(a) + n :
           (a \o cut)[i] = IF i <= Len(a) THEN a[i] ELSE cut[i - Len(a)]
  BY <1>2, ConcatProperties
<1>5. \A i \in 1 .. Len(a) + n : (a \o b)[i] = IF i <= Len(a) THEN a[i] ELSE b[i - Len(a)]
  BY <1>1, ConcatProperties
<1>6. \A i \in 1 .. Len(a) + n : (a \o cut)[i] = whole[i]
  BY <1>1, <1>2, <1>3, <1>4, <1>5
<1>7. a \o cut = whole
  BY <1>1, <1>3, <1>4, <1>6, SeqEqual
<1>8. QED
  BY <1>1, <1>7

-----------------------------------------------------------------------------
(* Types.                                                                  *)

\* The pump holds a frame while it delivers, and a Send has one to write.
Holding ==
  /\ pump = "delivering" => msg \in 1 .. MaxFrames
  /\ session = "sending" => wrote < MaxFrames

\* The queues keep their type.
LEMMA InitType == Init => TypeOK /\ Holding
<1> SUFFICES ASSUME Init PROVE TypeOK /\ Holding
  OBVIOUS
<1>1. <<>> \in Seq(1 .. MaxFrames) /\ Len(<<>>) = 0
  BY EmptySeq
<1>2. inbox \in Seq(1 .. MaxFrames) /\ Len(inbox) = 0 /\ wire \in Seq(1 .. MaxFrames)
  BY <1>1 DEF Init
<1>3. Len(inbox) <= InboxCap /\ 0 \in 0 .. MaxFrames /\ 0 \in 0 .. OutCap
  BY <1>2, TransportAssumption
<1>4. msg \in 0 .. MaxFrames /\ sent \in 0 .. MaxFrames /\ got \in 0 .. MaxFrames
      /\ wrote \in 0 .. MaxFrames /\ out \in 0 .. OutCap
  BY <1>3 DEF Init
<1> QED BY <1>2, <1>3, <1>4 DEF Init, TypeOK, Holding

LEMMA NextType == TypeOK /\ Holding /\ [Next]_vars => TypeOK' /\ Holding'
<1> SUFFICES ASSUME TypeOK, Holding, [Next]_vars PROVE TypeOK' /\ Holding'
  OBVIOUS
<1> USE TransportAssumption DEF TypeOK, Holding
<1>1. CASE Connect \/ ConnectFails \/ ReceiveClosed \/ SendBegin \/ CloseDone \/ CloseConn
  BY <1>1 DEF Connect, ConnectFails, ReceiveClosed, SendBegin, CloseDone, CloseConn
<1>2. CASE Receive
  <2>1. Head(inbox) \in 1 .. MaxFrames /\ Tail(inbox) \in Seq(1 .. MaxFrames)
        /\ Len(Tail(inbox)) = Len(inbox) - 1 /\ Len(inbox) \in Nat
    BY <1>2, HeadTailProperties, LenProperties DEF Receive
  <2>2. QED
    BY <1>2, <2>1 DEF Receive
<1>3. CASE SendReturn
  <2>1. out' \in 0 .. OutCap
    BY <1>3 DEF SendReturn
  <2>2. wrote' \in 0 .. MaxFrames
    BY <1>3 DEF SendReturn
  <2>3. QED
    BY <1>3, <2>1, <2>2 DEF SendReturn
<1>4. CASE ReadMessage
  <2>1. Head(wire) \in 1 .. MaxFrames /\ Tail(wire) \in Seq(1 .. MaxFrames)
    BY <1>4, HeadTailProperties DEF ReadMessage
  <2>2. QED
    BY <1>4, <2>1 DEF ReadMessage
<1>5. CASE ReadFails
  BY <1>5 DEF ReadFails
<1>6. CASE Deliver
  <2>1. Append(inbox, msg) \in Seq(1 .. MaxFrames) /\ Len(Append(inbox, msg)) = Len(inbox) + 1
        /\ Len(inbox) \in Nat
    BY <1>6, LenProperties DEF Deliver
  <2>2. QED
    BY <1>6, <2>1 DEF Deliver
<1>7. CASE DeliverDone
  BY <1>7 DEF DeliverDone
<1>8. CASE PeerSend
  <2>1. sent + 1 \in 1 .. MaxFrames /\ Append(wire, sent + 1) \in Seq(1 .. MaxFrames)
    BY <1>8 DEF PeerSend
  <2>2. QED
    BY <1>8, <2>1 DEF PeerSend
<1>9. CASE PeerRead
  BY <1>9 DEF PeerRead
<1>10. CASE PeerEnds
  <2>1. PICK n \in 0 .. Len(wire) : wire' = SubSeq(wire, 1, n)
    BY <1>10 DEF PeerEnds
  <2>2. \A i \in 1 .. n : wire[i] \in 1 .. MaxFrames
    BY LenProperties, ElementOfSeq
  <2>3. wire' \in Seq(1 .. MaxFrames)
    BY <2>1, <2>2, LenProperties, SubSeqProperties
  <2>4. QED
    BY <1>10, <2>3 DEF PeerEnds
<1>11. CASE UNCHANGED vars
  BY <1>11 DEF vars
<1>12. QED
  BY <1>1, <1>2, <1>3, <1>4, <1>5, <1>6, <1>7, <1>8, <1>9, <1>10, <1>11 DEF Next, ReadPump

\* Every reachable state has its type: the inbox never holds more than its capacity,
\* nor the kernel more frames than it has room for.
THEOREM TransportTypeCorrect == Spec => []TypeOK
BY InitType, NextType, PTL DEF Spec

-----------------------------------------------------------------------------
(* The link.                                                               *)

\* What a connection goes through: nothing before Connect; from then to Close a
\* pump, which ends only once the peer is gone and everything was read.
Connection ==
  /\ session \in {"new", "failed"} =>
       /\ pump = "none" /\ ~peer /\ ~done /\ sent = 0 /\ got = 0
       /\ inbox = <<>> /\ wire = <<>>
  /\ open => pump # "none" /\ conn = "open" /\ ~done
  /\ open /\ pump = "exited" => ~peer /\ wire = <<>>

\* While the connection is open the frames on their way are the ones after the last
\* received; as long as the peer is there, up to the last sent.
Orderly ==
  open => /\ Numbered(Down, got)
          /\ peer => got + Len(Down) = sent

LinkInv == TypeOK /\ Holding /\ Connection /\ Orderly

LEMMA InitLink == Init => LinkInv
<1> SUFFICES ASSUME Init PROVE LinkInv
  OBVIOUS
<1>1. Connection /\ Orderly
  BY DEF Init, Connection, Orderly, open
<1> QED BY <1>1, InitType DEF LinkInv

\* The types of the queues, and of the row they make.
LEMMA DownType ==
  ASSUME TypeOK, Holding
  PROVE  /\ inbox \in Seq(1 .. MaxFrames) /\ Held \in Seq(1 .. MaxFrames)
         /\ wire \in Seq(1 .. MaxFrames) /\ inbox \o Held \in Seq(1 .. MaxFrames)
         /\ Down \in Seq(1 .. MaxFrames) /\ Len(Down) \in Nat
         /\ Down = inbox \o (Held \o wire)
<1>1. Held \in Seq(1 .. MaxFrames)
  <2>1. CASE pump = "delivering"
    BY <2>1 DEF Held, Holding
  <2>2. CASE pump # "delivering"
    BY <2>2, EmptySeq DEF Held
  <2>3. QED
    BY <2>1, <2>2
<1>2. inbox \in Seq(1 .. MaxFrames) /\ wire \in Seq(1 .. MaxFrames)
  BY DEF TypeOK
<1>3. inbox \o Held \in Seq(1 .. MaxFrames)
  BY <1>1, <1>2, ConcatProperties
<1>4. Down \in Seq(1 .. MaxFrames) /\ Down = inbox \o (Held \o wire)
  BY <1>1, <1>2, Row DEF Down
<1>5. Len(Down) \in Nat
  BY <1>4, LenProperties
<1> QED BY <1>1, <1>2, <1>3, <1>4, <1>5

\* A step that leaves queues and session alone leaves the row alone.
LEMMA DownUnchanged ==
  ASSUME UNCHANGED <<inbox, msg, wire>>, pump' = "delivering" <=> pump = "delivering"
  PROVE  Down' = Down
BY DEF Down, Held

\* Receive takes the first frame of the row.
LEMMA ReceiveTakes ==
  ASSUME TypeOK, Holding, Receive
  PROVE  Down # <<>> /\ got' = Head(Down) /\ Down' = Tail(Down)
<1>1. /\ Held \o wire \in Seq(1 .. MaxFrames) /\ Down = inbox \o (Held \o wire)
      /\ TypeOK' /\ Holding'
  BY DownType, ConcatProperties, NextType DEF Next
<1>2. Held' = Held /\ wire' = wire /\ inbox' = Tail(inbox) /\ inbox # <<>> /\ got' = Head(inbox)
  BY DEF Receive, Held
<1>3. Down' = inbox' \o (Held' \o wire')
  BY <1>1, DownType, Row DEF Down
<1>4. QED
  BY <1>1, <1>2, <1>3, DownType, RowTake

\* The pump only moves frames along the row.
LEMMA ReadKeepsRow ==
  ASSUME TypeOK, Holding, ReadMessage
  PROVE  Down' = Down
<1>1. Held = <<>> /\ Held' = <<Head(wire)>> /\ wire' = Tail(wire) /\ inbox' = inbox /\ wire # <<>>
  BY DEF ReadMessage, Held
<1>2. inbox \o Held = inbox
  BY <1>1, DownType, ConcatEmptySeq
<1>3. inbox \o <<Head(wire)>> \o Tail(wire) = inbox \o wire
  BY <1>1, DownType, RowMove
<1>4. QED
  BY <1>1, <1>2, <1>3 DEF Down

LEMMA DeliverKeepsRow ==
  ASSUME TypeOK, Holding, Deliver
  PROVE  Down' = Down
<1>1. Held = <<msg>> /\ Held' = <<>> /\ wire' = wire /\ inbox' = Append(inbox, msg)
  BY DEF Deliver, Held
<1>2. msg \in 1 .. MaxFrames /\ Append(inbox, msg) = inbox \o <<msg>>
  BY DownType, AppendAtEnd DEF Deliver, Holding
<1>3. inbox \o <<msg>> \in Seq(1 .. MaxFrames)
  BY <1>1, DownType
<1>4. (inbox \o <<msg>>) \o <<>> = inbox \o <<msg>>
  BY <1>3, ConcatEmptySeq
<1>5. QED
  BY <1>1, <1>2, <1>4 DEF Down

\* The peer adds at the end, and a break cuts at some place.
LEMMA SendAppends ==
  ASSUME TypeOK, Holding, PeerSend
  PROVE  Down' = Append(Down, sent + 1)
<1>1. Held' = Held /\ inbox' = inbox /\ wire' = Append(wire, sent + 1) /\ sent + 1 \in 1 .. MaxFrames
  BY TransportAssumption DEF PeerSend, Held, TypeOK
<1>2. wire' = wire \o <<sent + 1>> /\ Append(Down, sent + 1) = Down \o <<sent + 1>>
  BY <1>1, DownType, AppendAtEnd
<1>3. <<sent + 1>> \in Seq(1 .. MaxFrames)
  BY <1>1
<1>4. (inbox \o Held) \o (wire \o <<sent + 1>>) = ((inbox \o Held) \o wire) \o <<sent + 1>>
  BY <1>3, DownType, ConcatAssociative
<1>5. QED
  BY <1>1, <1>2, <1>4 DEF Down

LEMMA BreakCuts ==
  ASSUME TypeOK, Holding, PeerEnds
  PROVE  \E n \in 0 .. Len(Down) : Down' = SubSeq(Down, 1, n)
<1>1. PICK k \in 0 .. Len(wire) : wire' = SubSeq(wire, 1, k)
  BY DEF PeerEnds
<1>2. Held' = Held /\ inbox' = inbox
  BY DEF PeerEnds, Held
<1>3. /\ Len(inbox \o Held) + k \in 0 .. Len(Down)
      /\ (inbox \o Held) \o SubSeq(wire, 1, k) = SubSeq(Down, 1, Len(inbox \o Held) + k)
  BY DownType, RowCut DEF Down
<1>4. Down' = SubSeq(Down, 1, Len(inbox \o Held) + k)
  BY <1>1, <1>2, <1>3 DEF Down
<1>5. QED
  BY <1>3, <1>4

\* Numbers survive a take, a frame more and a cut.
LEMMA NumberedTail ==
  ASSUME NEW S, NEW q \in Seq(S), q # <<>>, NEW n \in Nat, Numbered(q, n)
  PROVE  /\ Head(q) = n + 1 /\ Numbered(Tail(q), Head(q))
         /\ Head(q) + Len(Tail(q)) = n + Len(q)
<1>1. Len(q) \in Nat \ {0} /\ Len(Tail(q)) = Len(q) - 1 /\ Head(q) = q[1]
      /\ \A i \in 1 .. Len(Tail(q)) : Tail(q)[i] = q[i + 1]
  BY EmptySeq, HeadTailProperties
<1>2. Head(q) = n + 1
  BY <1>1 DEF Numbered
<1>3. \A i \in 1 .. Len(Tail(q)) : Tail(q)[i] = n + 1 + i
  BY <1>1 DEF Numbered
<1>4. QED
  BY <1>1, <1>2, <1>3 DEF Numbered

LEMMA NumberedAppend ==
  ASSUME NEW S, NEW q \in Seq(S), NEW n \in Nat, Numbered(q, n), NEW e \in S, e = n + Len(q) + 1
  PROVE  Numbered(Append(q, e), n) /\ Len(Append(q, e)) = Len(q) + 1
<1>1. Len(q) \in Nat /\ Len(Append(q, e)) = Len(q) + 1
  BY LenProperties
<1>2. \A i \in 1 .. Len(q) + 1 : Append(q, e)[i] = IF i = Len(q) + 1 THEN e ELSE q[i]
  BY <1>1
<1>3. QED
  BY <1>1, <1>2 DEF Numbered

LEMMA NumberedCut ==
  ASSUME NEW S, NEW q \in Seq(S), NEW n \in Nat, Numbered(q, n), NEW m \in 0 .. Len(q)
  PROVE  Numbered(SubSeq(q, 1, m), n)
<1>1. Len(q) \in Nat /\ \A i \in 1 .. m : q[i] \in S
  BY LenProperties, ElementOfSeq
<1>2. Len(SubSeq(q, 1, m)) = m /\ \A i \in 1 .. m : SubSeq(q, 1, m)[i] = q[i]
  BY <1>1, SubSeqProperties
<1>3. QED
  BY <1>1, <1>2 DEF Numbered

\* The connection goes through its phases in every step.
LEMMA NextConnection ==
  ASSUME LinkInv, [Next]_vars
  PROVE  Connection'
<1> USE DEF LinkInv, Connection, open
<1>1. CASE Connect
  BY <1>1 DEF Connect
<1>2. CASE ConnectFails
  BY <1>2 DEF ConnectFails
<1>3. CASE Receive
  BY <1>3 DEF Receive
<1>4. CASE ReceiveClosed
  BY <1>4 DEF ReceiveClosed
<1>5. CASE SendBegin \/ SendReturn
  BY <1>5 DEF SendBegin, SendReturn
<1>6. CASE CloseDone \/ CloseConn
  BY <1>6 DEF CloseDone, CloseConn
<1>7. CASE ReadMessage
  BY <1>7 DEF ReadMessage
<1>8. CASE ReadFails
  BY <1>8 DEF ReadFails, TypeOK
<1>9. CASE Deliver
  BY <1>9 DEF Deliver
<1>10. CASE DeliverDone
  BY <1>10 DEF DeliverDone
<1>11. CASE PeerSend
  BY <1>11 DEF PeerSend
<1>12. CASE PeerRead
  BY <1>12 DEF PeerRead
<1>13. CASE PeerEnds
  <2>1. wire = <<>> => wire' = <<>>
    <3> SUFFICES ASSUME wire = <<>> PROVE wire' = <<>>
      OBVIOUS
    <3>1. Len(wire) = 0
      BY EmptySeq
    <3>2. wire' = SubSeq(wire, 1, 0)
      BY <1>13, <3>1 DEF PeerEnds
    <3>3. QED
      BY <3>2, SubSeqEmpty
  <2>2. QED
    BY <1>13, <2>1 DEF PeerEnds
<1>14. CASE UNCHANGED vars
  BY <1>14 DEF vars
<1>15. QED
  BY <1>1, <1>2, <1>3, <1>4, <1>5, <1>6, <1>7, <1>8, <1>9, <1>10, <1>11, <1>12, <1>13, <1>14
     DEF Next, ReadPump

\* The row of frames stays in order in every step.
LEMMA NextOrderly ==
  ASSUME LinkInv, [Next]_vars
  PROVE  Orderly'
<1>1. /\ TypeOK /\ Holding /\ Connection /\ Orderly
      /\ Down \in Seq(1 .. MaxFrames) /\ Len(Down) \in Nat /\ got \in Nat /\ sent \in Nat
  BY DownType DEF LinkInv, TypeOK
<1>2. ASSUME UNCHANGED <<got, sent>>, Down' = Down, open' => open, peer' => peer
      PROVE  Orderly'
  BY <1>1, <1>2 DEF Orderly, Numbered
<1>3. CASE Connect
  <2>1. /\ inbox' = <<>> /\ Held' = <<>> /\ wire' = <<>> /\ got' = 0 /\ sent' = 0
    BY <1>1, <1>3 DEF Connect, Connection, Held
  <2>2. Down' = <<>>
    BY <2>1 DEF Down
  <2>3. Len(Down') = 0
    BY <2>2
  <2>4. QED
    BY <2>1, <2>3 DEF Orderly, Numbered
<1>4. CASE ConnectFails \/ ReceiveClosed \/ SendBegin \/ SendReturn \/ CloseDone \/ CloseConn
           \/ PeerRead
  <2>1. UNCHANGED <<inbox, pump, msg, wire, got, sent, peer>> /\ (open' => open)
    BY <1>4 DEF ConnectFails, ReceiveClosed, SendBegin, SendReturn, CloseDone, CloseConn,
                PeerRead, open
  <2>2. QED
    BY <1>2, <2>1, DownUnchanged
<1>5. CASE Receive
  <2>1. Down # <<>> /\ got' = Head(Down) /\ Down' = Tail(Down)
    BY <1>1, <1>5, ReceiveTakes
  <2>2. open /\ UNCHANGED <<sent, peer>>
    BY <1>5 DEF Receive, open
  <2>3. Numbered(Down', got') /\ got' + Len(Down') = got + Len(Down)
    BY <1>1, <2>1, <2>2, NumberedTail DEF Orderly
  <2>4. QED
    BY <1>1, <2>2, <2>3 DEF Orderly
<1>6. CASE ReadMessage
  BY <1>1, <1>2, <1>6, ReadKeepsRow DEF ReadMessage, open
<1>7. CASE ReadFails
  <2>1. UNCHANGED <<inbox, msg, wire, got, sent, peer, session>>
        /\ pump # "delivering" /\ pump' # "delivering"
    BY <1>7 DEF ReadFails
  <2>2. QED
    BY <1>2, <2>1, DownUnchanged DEF open
<1>8. CASE Deliver
  BY <1>1, <1>2, <1>8, DeliverKeepsRow DEF Deliver, open
<1>9. CASE DeliverDone
  BY <1>1, <1>9 DEF DeliverDone, Connection, Orderly, open
<1>10. CASE PeerSend
  <2> SUFFICES ASSUME open PROVE Orderly'
    BY <1>10 DEF Orderly, PeerSend, open
  <2>1. Down' = Append(Down, sent + 1) /\ peer /\ got' = got /\ sent' = sent + 1
        /\ sent + 1 \in 1 .. MaxFrames
    BY <1>1, <1>10, SendAppends, TransportAssumption DEF PeerSend, TypeOK
  <2>2. Numbered(Down, got) /\ got + Len(Down) = sent
    BY <1>1, <2>1 DEF Orderly
  <2>3. Numbered(Down', got) /\ Len(Down') = Len(Down) + 1
    BY <1>1, <2>1, <2>2, NumberedAppend
  <2>4. QED
    BY <1>1, <2>1, <2>2, <2>3 DEF Orderly
<1>11. CASE PeerEnds
  <2>1. PICK n \in 0 .. Len(Down) : Down' = SubSeq(Down, 1, n)
    BY <1>1, <1>11, BreakCuts
  <2>2. ~peer' /\ got' = got /\ open' = open
    BY <1>11 DEF PeerEnds, open
  <2>3. open => Numbered(Down', got)
    BY <1>1, <2>1, NumberedCut DEF Orderly
  <2>4. QED
    BY <2>2, <2>3 DEF Orderly
<1>12. CASE UNCHANGED vars
  BY <1>2, <1>12, DownUnchanged DEF vars, open
<1>13. QED
  BY <1>3, <1>4, <1>5, <1>6, <1>7, <1>8, <1>9, <1>10, <1>11, <1>12 DEF Next, ReadPump

\* LinkInv holds in every reachable state.
THEOREM LinkInvariant == Spec => []LinkInv
<1>1. LinkInv /\ [Next]_vars => LinkInv'
  BY NextType, NextConnection, NextOrderly DEF LinkInv
<1>2. QED
  BY <1>1, InitLink, PTL DEF Spec

-----------------------------------------------------------------------------
(* The refinement.                                                         *)

\* A transport that was not connected is a link that was not opened.
LEMMA InitIsLink == Init => Frames!Init
BY DEF Init, Frames!Init, open

\* Each step is a step of the link, or none.
LEMMA StepIsLink == LinkInv /\ [Next]_vars => [Frames!Next]_(Frames!vars)
<1> SUFFICES ASSUME LinkInv, [Next]_vars PROVE [Frames!Next]_(Frames!vars)
  OBVIOUS
<1>1. TypeOK /\ Holding /\ Connection /\ Orderly
  BY DEF LinkInv
<1>2. ASSUME UNCHANGED <<got, sent, peer, session>>, open => Down' = Down
      PROVE  UNCHANGED Frames!vars
  BY <1>2 DEF Frames!vars, Down, open
<1>3. CASE Connect
  <2>1. Down' = <<>>
    BY <1>1, <1>3 DEF Connect, Connection, Down, Held
  <2>2. Frames!Open
    BY <1>1, <1>3, <2>1 DEF Connect, Connection, Frames!Open, Down, open
  <2>3. QED
    BY <2>2 DEF Frames!Next
<1>4. CASE ConnectFails
  BY <1>4 DEF ConnectFails, Frames!vars, open
<1>5. CASE Receive
  <2>1. Down # <<>> /\ got' = Head(Down) /\ Down' = Tail(Down)
    BY <1>1, <1>5, ReceiveTakes
  <2>2. Head(Down) = got + 1
    <3>1. got \in Nat /\ Down \in Seq(1 .. MaxFrames) /\ Numbered(Down, got)
      BY <1>1, <1>5, DownType DEF Orderly, Receive, open, TypeOK
    <3>2. QED
      BY <2>1, <3>1, NumberedTail
  <2>3. Frames!Take
    BY <1>5, <2>1, <2>2 DEF Receive, Frames!Take, Down, open
  <2>4. QED
    BY <2>3 DEF Frames!Next
<1>6. CASE ReceiveClosed
  <2>1. open /\ ~peer /\ Down = <<>> /\ Down' = <<>>
    BY <1>1, <1>6 DEF ReceiveClosed, Connection, Down, Held, open, inboxClosed
  <2>2. Frames!SeeClosed
    BY <1>6, <2>1 DEF ReceiveClosed, Frames!SeeClosed, Down, open
  <2>3. QED
    BY <2>2 DEF Frames!Next
<1>7. CASE SendBegin \/ SendReturn
  <2>1. UNCHANGED <<inbox, msg, wire, pump>>
    BY <1>7 DEF SendBegin, SendReturn
  <2>2. Down' = Down
    BY <2>1, DownUnchanged
  <2>3. UNCHANGED Frames!vars
    BY <1>7, <2>2 DEF SendBegin, SendReturn, Frames!vars, Down, open
  <2>4. QED
    BY <2>3
<1>8. CASE CloseDone
  <2>1. Frames!Close
    BY <1>8 DEF CloseDone, Frames!Close, open
  <2>2. QED
    BY <2>1 DEF Frames!Next
<1>9. CASE CloseConn
  BY <1>9 DEF CloseConn, Frames!vars, open
<1>10. CASE ReadMessage
  <2>1. UNCHANGED Frames!vars
    BY <1>1, <1>2, <1>10, ReadKeepsRow DEF ReadMessage
  <2>2. QED
    BY <2>1
<1>11. CASE ReadFails
  <2>1. Down' = Down
    BY <1>11, DownUnchanged DEF ReadFails
  <2>2. UNCHANGED Frames!vars
    BY <1>2, <1>11, <2>1 DEF ReadFails
  <2>3. QED
    BY <2>2
<1>12. CASE Deliver
  <2>1. UNCHANGED Frames!vars
    BY <1>1, <1>2, <1>12, DeliverKeepsRow DEF Deliver
  <2>2. QED
    BY <2>1
<1>13. CASE DeliverDone
  <2>1. ~open
    BY <1>1, <1>13 DEF DeliverDone, Connection
  <2>2. UNCHANGED Frames!vars
    BY <1>2, <1>13, <2>1 DEF DeliverDone
  <2>3. QED
    BY <2>2
<1>14. CASE PeerSend
  <2>1. CASE open
    <3>1. Down' = Append(Down, sent + 1)
      BY <1>1, <1>14, SendAppends
    <3>2. Frames!Put
      BY <1>14, <2>1, <3>1 DEF PeerSend, Frames!Put, Down, open
    <3>3. QED
      BY <3>2 DEF Frames!Next
  <2>2. CASE ~open
    <3>1. session \in {"closing", "closed"}
      BY <1>1, <1>14, <2>2 DEF PeerSend, Connection, TypeOK, open
    <3>2. Frames!PutNowhere
      BY <1>14, <3>1 DEF PeerSend, Frames!PutNowhere, open
    <3>3. QED
      BY <3>2 DEF Frames!Next
  <2>3. QED
    BY <2>1, <2>2
<1>15. CASE PeerRead
  <2>1. Down' = Down
    BY <1>15, DownUnchanged DEF PeerRead
  <2>2. UNCHANGED Frames!vars
    BY <1>2, <1>15, <2>1 DEF PeerRead
  <2>3. QED
    BY <2>2
<1>16. CASE PeerEnds
  <2>1. CASE open
    <3>1. \E n \in 0 .. Len(Down) : Down' = SubSeq(Down, 1, n)
      BY <1>1, <1>16, BreakCuts
    <3>2. Frames!Cut
      BY <1>16, <2>1, <3>1 DEF PeerEnds, Frames!Cut, Down, open
    <3>3. QED
      BY <3>2 DEF Frames!Next
  <2>2. CASE ~open
    BY <1>16, <2>2 DEF PeerEnds, Frames!vars, open
  <2>3. QED
    BY <2>1, <2>2
<1>17. CASE UNCHANGED vars
  <2>1. Down' = Down
    BY <1>17, DownUnchanged DEF vars
  <2>2. UNCHANGED Frames!vars
    BY <1>2, <1>17, <2>1 DEF vars
  <2>3. QED
    BY <2>2
<1>18. QED
  BY <1>3, <1>4, <1>5, <1>6, <1>7, <1>8, <1>9, <1>10, <1>11, <1>12, <1>13, <1>14, <1>15,
     <1>16, <1>17 DEF Next, ReadPump

\* Every behaviour of pump, inbox, session and peer is one of the link Lifecycle relies
\* on: frames in the order they were sent, without a gap, the close seen after the last
\* of them, whatever the sizes of the buffers (readPump, Receive, Close).
THEOREM TransportIsLink == Spec => ImplementsLink
BY InitIsLink, StepIsLink, LinkInvariant, PTL DEF Spec, ImplementsLink, Frames!Spec
=============================================================================
