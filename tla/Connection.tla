----------------------------- MODULE Connection -----------------------------
(***************************************************************************)
(* What a TcpConnection promises its user: it comes up once and goes down  *)
(* once; the bytes of the messages it takes leave in the order in which it *)
(* took them, each once; and while it is up its write side is closed only  *)
(* when every byte taken has left.  TcpConnection.tla is shown to          *)
(* implement this specification.                                           *)
(***************************************************************************)
EXTENDS Naturals, Sequences

CONSTANTS Message,   \* messages; each is taken at most once
          Size       \* bytes per message

VARIABLES phase,     \* "new", "up", "closing" (the peer is gone) or "down"
          backlog,   \* bytes taken that have not left
          sent,      \* bytes that have left
          open       \* may bytes still leave?

vars == <<phase, backlog, sent, open>>

Bytes(m) == [i \in 1..Size |-> <<m, i>>]
Accepted == sent \o backlog
Fresh(m) == \A k \in 1..Len(Accepted) : Accepted[k][1] # m

Init == phase = "new" /\ backlog = <<>> /\ sent = <<>> /\ open = TRUE

Become(from, to) ==
    phase = from /\ phase' = to /\ UNCHANGED <<backlog, sent, open>>

(* n bytes leave, the oldest first, with data queued behind the backlog.   *)
Flow(data, n) ==
    LET bytes == backlog \o data IN
    /\ n \in 0..Len(bytes)
    /\ n > 0 => open
    /\ sent' = sent \o SubSeq(bytes, 1, n)
    /\ backlog' = SubSeq(bytes, n + 1, Len(bytes))
    /\ UNCHANGED phase

Take(m, n) == phase # "new" /\ Fresh(m) /\ Flow(Bytes(m), n) /\ UNCHANGED open

Write(n) == Flow(<<>>, n) /\ UNCHANGED open

(* The end of the stream follows the last byte.                            *)
Finish(n) ==
    /\ Flow(<<>>, n)
    /\ backlog' = <<>> \/ phase \in {"closing", "down"}
    /\ open' = FALSE

Next ==
    \/ Become("new", "up") \/ Become("up", "closing") \/ Become("closing", "down")
    \/ \E m \in Message, n \in 0..Len(backlog) + Size : Take(m, n)
    \/ \E n \in 0..Len(backlog) : Write(n) \/ Finish(n)

Spec == Init /\ [][Next]_vars
=============================================================================
