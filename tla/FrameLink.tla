------------------------------ MODULE FrameLink -----------------------------
(***************************************************************************)
(* What a session may rely on about the frames it receives: they come in   *)
(* the order they were sent and without gaps; when the connection breaks,  *)
(* those past some point never come, and the close is seen only after the  *)
(* ones before it were received.  Lifecycle uses the link in this form.    *)
(***************************************************************************)
EXTENDS Integers, Sequences

VARIABLES link,   \* "none", "up", "cut"
          down,   \* the frames sent and still to be received; they are numbered
          next,   \* the number of the next frame the peer sends
          got,    \* the number of the last frame received, 0 before the first
          seen    \* TRUE once the session was told that the link is closed

vars == <<link, down, next, got, seen>>

Init == link = "none" /\ down = <<>> /\ next = 1 /\ got = 0 /\ seen = FALSE

Open ==
  /\ link = "none" /\ next = 1 /\ ~seen
  /\ link' = "up"
  /\ UNCHANGED <<down, next, got, seen>>

Put ==
  /\ link = "up"
  /\ down' = Append(down, next) /\ next' = next + 1
  /\ UNCHANGED <<link, got, seen>>

\* The peer does not know yet that the session closed the link.
PutNowhere ==
  /\ link = "none" /\ seen
  /\ next' = next + 1
  /\ UNCHANGED <<link, down, got, seen>>

Cut ==
  /\ link = "up"
  /\ link' = "cut"
  /\ \E n \in 0..Len(down) : down' = SubSeq(down, 1, n)
  /\ UNCHANGED <<next, got, seen>>

Take ==
  /\ link \in {"up", "cut"} /\ down # <<>>
  /\ Head(down) = got + 1
  /\ down' = Tail(down) /\ got' = Head(down)
  /\ UNCHANGED <<link, next, seen>>

SeeClosed ==
  /\ link = "cut" /\ down = <<>>
  /\ seen' = TRUE
  /\ UNCHANGED <<link, down, next, got>>

Close ==
  /\ link \in {"up", "cut"}
  /\ link' = "none" /\ down' = <<>> /\ seen' = TRUE
  /\ UNCHANGED <<next, got>>

Next == Open \/ Put \/ PutNowhere \/ Cut \/ Take \/ SeeClosed \/ Close

Spec == Init /\ [][Next]_vars

=============================================================================
