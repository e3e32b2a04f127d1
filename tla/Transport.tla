----------------------------- MODULE Transport ------------------------------
(***************************************************************************)
(* One WebSocket connection (adapters/communication/websocket/             *)
(* transport.go): the read pump goroutine, the bounded inbox channel, the  *)
(* done channel and the connection, between a session that receives,       *)
(* sends, is busy printing or closes, and a peer.  A transport is used for *)
(* one connection only.                                                    *)
(***************************************************************************)
EXTENDS Integers, Sequences

CONSTANTS InboxCap,    \* make(chan []byte, 32)
          OutCap,      \* frames the kernel holds before a write blocks
          MaxFrames    \* bound: frames the peer sends, and the session sends

ASSUME TransportAssumption ==
  InboxCap \in Nat \ {0} /\ OutCap \in Nat \ {0} /\ MaxFrames \in Nat

VARIABLES
  pump,     \* readPump: "none", "reading", "delivering", "exited"
  msg,      \* the frame readPump holds while "delivering"
  inbox,    \* the channel's buffer
  done,     \* TRUE once done is closed
  conn,     \* "none", "open", "closed" by the agent
  session,  \* runOnce: "new", "failed", "ready", "sending", "ended" (it saw
            \* the inbox closed), "closing" (between the halves of Close),
            \* "closed"
  peer,     \* FALSE once the peer, or the network, ended the connection
  wire,     \* frames of the peer not yet read from the connection
  sent, got,   \* how many frames the peer sent, the last one received
  out, wrote   \* frames the kernel holds for the peer, frames written

vars == <<pump, msg, inbox, done, conn, session, peer, wire, sent, got, out,
          wrote>>

inboxClosed == pump = "exited"   \* the deferred close(t.inbox)

TypeOK ==
  /\ pump \in {"none", "reading", "delivering", "exited"}
  /\ msg \in 0..MaxFrames
  /\ inbox \in Seq(1..MaxFrames) /\ Len(inbox) <= InboxCap
  /\ done \in BOOLEAN /\ conn \in {"none", "open", "closed"}
  /\ session \in {"new", "failed", "ready", "sending", "ended", "closing",
                  "closed"}
  /\ peer \in BOOLEAN /\ wire \in Seq(1..MaxFrames)
  /\ sent \in 0..MaxFrames /\ got \in 0..MaxFrames
  /\ out \in 0..OutCap /\ wrote \in 0..MaxFrames

Init ==
  /\ pump = "none" /\ msg = 0 /\ inbox = <<>> /\ done = FALSE
  /\ conn = "none" /\ session = "new" /\ peer = FALSE
  /\ wire = <<>> /\ sent = 0 /\ got = 0 /\ out = 0 /\ wrote = 0

-----------------------------------------------------------------------------
(* The session.                                                            *)

\* Connect: the dial, then go readPump() ...
Connect ==
  /\ session = "new"
  /\ session' = "ready" /\ conn' = "open" /\ peer' = TRUE /\ pump' = "reading"
  /\ UNCHANGED <<msg, inbox, done, wire, sent, got, out, wrote>>

\* ... or an error, with no pump and no connection; runOnce then drops it.
ConnectFails ==
  /\ session = "new"
  /\ session' = "failed"
  /\ UNCHANGED <<pump, msg, inbox, done, conn, peer, wire, sent, got, out,
                 wrote>>

Receive ==
  /\ session = "ready" /\ inbox # <<>>
  /\ got' = Head(inbox) /\ inbox' = Tail(inbox)
  /\ UNCHANGED <<pump, msg, done, conn, session, peer, wire, sent, out, wrote>>

\* raw, ok := <-in with ok = FALSE: a closed channel is drained first.
ReceiveClosed ==
  /\ session = "ready" /\ inboxClosed /\ inbox = <<>>
  /\ session' = "ended"
  /\ UNCHANGED <<pump, msg, inbox, done, conn, peer, wire, sent, got, out,
                 wrote>>

\* Send takes the write mutex and blocks in WriteMessage: no deadline, and its
\* context is not looked at.
SendBegin ==
  /\ session = "ready" /\ wrote < MaxFrames
  /\ session' = "sending"
  /\ UNCHANGED <<pump, msg, inbox, done, conn, peer, wire, sent, got, out,
                 wrote>>

\* Slip: one mutex guards the read pump and Send.
SendReturn_SharedMutex ==
  /\ session = "sending" /\ pump # "delivering"
  /\ \/ peer /\ out < OutCap /\ out' = out + 1 /\ wrote' = wrote + 1
     \/ ~peer /\ UNCHANGED <<out, wrote>>
  /\ session' = "ready"
  /\ UNCHANGED <<pump, msg, inbox, done, conn, peer, wire, sent, got>>

SendReturn ==
  /\ session = "sending"
  /\ \/ peer /\ out < OutCap /\ out' = out + 1 /\ wrote' = wrote + 1
     \/ ~peer /\ UNCHANGED <<out, wrote>>
  /\ session' = "ready"
  /\ UNCHANGED <<pump, msg, inbox, done, conn, peer, wire, sent, got>>

\* Close, called once by runOnce: close(done), then the connection.
CloseDone ==
  /\ session \in {"ready", "ended"}
  /\ session' = "closing" /\ done' = TRUE
  /\ UNCHANGED <<pump, msg, inbox, conn, peer, wire, sent, got, out, wrote>>

CloseConn ==
  /\ session = "closing"
  /\ session' = "closed" /\ conn' = "closed"
  /\ UNCHANGED <<pump, msg, inbox, done, peer, wire, sent, got, out, wrote>>

-----------------------------------------------------------------------------
(* readPump.                                                               *)

ReadMessage ==
  /\ pump = "reading" /\ wire # <<>>
  /\ msg' = Head(wire) /\ wire' = Tail(wire) /\ pump' = "delivering"
  /\ UNCHANGED <<inbox, done, conn, session, peer, sent, got, out, wrote>>

ReadFails ==
  /\ pump = "reading"
  /\ conn = "closed" \/ (~peer /\ wire = <<>>)
  /\ pump' = "exited"
  /\ UNCHANGED <<msg, inbox, done, conn, session, peer, wire, sent, got, out,
                 wrote>>

\* Slip: a default case drops the frame when the inbox is full.
Deliver_DropsWhenFull ==
  /\ pump = "delivering"
  /\ inbox' = IF Len(inbox) < InboxCap THEN Append(inbox, msg) ELSE inbox
  /\ pump' = "reading" /\ msg' = 0
  /\ UNCHANGED <<done, conn, session, peer, wire, sent, got, out, wrote>>

\* Slip: the inbox is made without the capacity it should have.
Deliver_Unbounded ==
  /\ pump = "delivering"
  /\ inbox' = Append(inbox, msg)
  /\ pump' = "reading" /\ msg' = 0
  /\ UNCHANGED <<done, conn, session, peer, wire, sent, got, out, wrote>>

\* The select: with room in the inbox and done closed, either case may run.
Deliver ==
  /\ pump = "delivering" /\ Len(inbox) < InboxCap
  /\ inbox' = Append(inbox, msg)
  /\ pump' = "reading" /\ msg' = 0
  /\ UNCHANGED <<done, conn, session, peer, wire, sent, got, out, wrote>>

\* Slip: done is looked at before a plain send, not in one select with it.
DeliverDone_NotSelected ==
  /\ pump = "delivering" /\ done /\ Len(inbox) < InboxCap
  /\ pump' = "exited" /\ msg' = 0
  /\ UNCHANGED <<inbox, done, conn, session, peer, wire, sent, got, out, wrote>>

DeliverDone ==
  /\ pump = "delivering" /\ done
  /\ pump' = "exited" /\ msg' = 0
  /\ UNCHANGED <<inbox, done, conn, session, peer, wire, sent, got, out, wrote>>

-----------------------------------------------------------------------------
(* The peer and the network, external.                                     *)

PeerSend ==
  /\ peer /\ sent < MaxFrames
  /\ sent' = sent + 1 /\ wire' = Append(wire, sent')
  /\ UNCHANGED <<pump, msg, inbox, done, conn, session, peer, got, out, wrote>>

PeerRead ==
  /\ peer /\ out > 0
  /\ out' = out - 1
  /\ UNCHANGED <<pump, msg, inbox, done, conn, session, peer, wire, sent, got,
                 wrote>>

\* The connection ends; what was not read yet may be lost from some frame on.
PeerEnds ==
  /\ peer
  /\ peer' = FALSE
  /\ \E n \in 0..Len(wire) : wire' = SubSeq(wire, 1, n)
  /\ UNCHANGED <<pump, msg, inbox, done, conn, session, sent, got, out, wrote>>

-----------------------------------------------------------------------------
ReadPump == ReadMessage \/ ReadFails \/ Deliver \/ DeliverDone

Next ==
  \/ Connect \/ ConnectFails \/ Receive \/ ReceiveClosed
  \/ SendBegin \/ SendReturn \/ CloseDone \/ CloseConn
  \/ ReadPump
  \/ PeerSend \/ PeerRead \/ PeerEnds

\* The pump and a call that was begun go on; a peer that lives reads.  The
\* session owes nothing: it may print for minutes before it receives again.
Spec ==
  /\ Init /\ [][Next]_vars
  /\ WF_vars(ReadPump)
  /\ WF_vars(SendReturn) /\ WF_vars(CloseConn)
  /\ WF_vars(PeerRead)

-----------------------------------------------------------------------------
open == session \in {"ready", "sending", "ended"}

Held == IF pump = "delivering" THEN <<msg>> ELSE <<>>

Frames == INSTANCE FrameLink WITH
  link <- IF ~open THEN "none" ELSE IF peer THEN "up" ELSE "cut",
  down <- IF open THEN inbox \o Held \o wire ELSE <<>>,
  next <- sent + 1,
  seen <- session \in {"ended", "closing", "closed"}

\* Pump, channel and session together are a link without gaps or reordering,
\* whose close is seen last.
ImplementsLink == Frames!Spec

\* Close ends the read pump, wherever it waits: on the connection or on a full
\* inbox nobody reads any more.
PumpEnds == done ~> inboxClosed

\* A Send returns as long as the peer reads or the connection ends, also while
\* the inbox is full and the pump blocked.
SendReturns == session = "sending" ~> session # "sending"

=============================================================================
