----------------------------- MODULE TcpStream -----------------------------
(* A proxied TCP connection of hysteria's client: Client::tcp, the reader of
   the server's TCP response, and TcpConn's poll_read, which replays what that
   reader took from the QUIC stream past the response.  With fast open, tcp
   returns before the response is read, and the first reads drive the reader.

   The stream is a sequence of positions: a response of HeaderLen units, then
   the proxied data.  A response that is refused carries no data; an invalid
   one (a length above its limit, a message that is not UTF-8) has no end. *)
EXTENDS Integers, Sequences

CONSTANTS
    HeaderLen,  \* units of a response
    DataLen,    \* units of proxied data
    Chunk,      \* units the response reader takes at most in one read
    MaxBuf      \* units a caller's buffer holds at most

ASSUME StreamAssumption ==
    /\ HeaderLen \in Nat \ {0} /\ DataLen \in Nat
    /\ Chunk \in Nat \ {0} /\ MaxBuf \in Nat \ {0}

VARIABLES
    fastOpen,   \* config.fast_open
    answer,     \* what the server answers: "ok", "refused" or "invalid"
    arrived,    \* units of the stream that quinn has received
    fin,        \* the stream is finished, or was cut: "no", "finished", "lost"
    state,      \* of the call and of RecvState
    buf,        \* what the response reader has read
    leftover,   \* RecvState::Ready: the units past the response
    pos,        \* RecvState::Ready: leftover_pos
    got,        \* what the caller was given
    ended       \* how the caller's reads ended: "no", "eof" or "error"

vars == <<fastOpen, answer, arrived, fin, state, buf, leftover, pos, got, ended>>

Wire == 1..(IF answer = "ok" THEN HeaderLen + DataLen ELSE HeaderLen)

\* Units taken from the quinn stream: by the response reader, or by the caller
\* once the leftover is used up.
Taken == Len(buf) + Len(got) - pos

TypeOK ==
    /\ fastOpen \in BOOLEAN /\ answer \in {"ok", "refused", "invalid"}
    /\ arrived \in Nat /\ fin \in {"no", "finished", "lost"}
    /\ state \in {"new", "reading", "awaiting", "ready", "failed"}
    /\ buf \in Seq(Nat) /\ leftover \in Seq(Nat) /\ got \in Seq(Nat)
    /\ pos \in Nat
    /\ ended \in {"no", "eof", "error"}

Init ==
    /\ fastOpen \in BOOLEAN
    /\ answer \in {"ok", "refused", "invalid"}
    /\ arrived = 0 /\ fin = "no"
    /\ state = "new"
    /\ buf = << >> /\ leftover = << >> /\ pos = 0
    /\ got = << >> /\ ended = "no"

-----------------------------------------------------------------------------

(* External: the network delivers one more unit of the stream, in order. *)
Arrive ==
    /\ state # "new" /\ fin = "no"
    /\ arrived + 1 \in Wire
    /\ arrived' = arrived + 1
    /\ UNCHANGED <<fastOpen, answer, fin, state, buf, leftover, pos, got, ended>>

(* External: the server finishes the stream after its last unit, or the
   stream is cut, by a reset or with its connection; some of what arrived may
   then never be read. *)
End ==
    /\ state # "new" /\ fin = "no"
    /\ \/ arrived + 1 \notin Wire /\ fin' = "finished" /\ UNCHANGED arrived
       \/ fin' = "lost" /\ arrived' \in Taken..arrived
    /\ UNCHANGED <<fastOpen, answer, state, buf, leftover, pos, got, ended>>

(* Client::tcp: opens the stream and writes the request; either fails when the
   connection is gone.  With fast open it returns at once. *)
Tcp ==
    /\ state = "new"
    /\ \/ state' = (IF fastOpen THEN "awaiting" ELSE "reading") /\ UNCHANGED ended
       \/ state' = "failed" /\ ended' = "error"
    /\ UNCHANGED <<fastOpen, answer, arrived, fin, buf, leftover, pos, got>>

Reading == state \in {"reading", "awaiting"}

(* protocol::read_tcp_response on a prefix of the stream: the end of the
   response, 0 when it is incomplete, an error when a length is too large. *)
ResponseEnd == IF answer # "invalid" /\ Len(buf) >= HeaderLen THEN HeaderLen ELSE 0
ResponseInvalid == answer = "invalid" /\ Len(buf) >= HeaderLen

(* read_tcp_response: more bytes are needed, a chunk of what is there is read. *)
ReadChunk(n) ==
    /\ Reading /\ ResponseEnd = 0 /\ ~ResponseInvalid
    /\ n \in 1..Chunk /\ Taken + n <= arrived
    /\ buf' = buf \o [i \in 1..n |-> Taken + i]
    /\ UNCHANGED <<fastOpen, answer, arrived, fin, state, leftover, pos, got, ended>>

\* Mutant: the units past the response are dropped.
ResponseOkDropsRest ==
    /\ Reading /\ ResponseEnd > 0 /\ answer = "ok"
    /\ state' = "ready"
    /\ UNCHANGED <<leftover, pos>>
    /\ UNCHANGED <<fastOpen, answer, arrived, fin, buf, got, ended>>

(* The response is complete and good: the rest of what was read is kept. *)
ResponseOk ==
    /\ Reading /\ ResponseEnd > 0 /\ answer = "ok"
    /\ state' = "ready"
    /\ leftover' = SubSeq(buf, ResponseEnd + 1, Len(buf))
    /\ pos' = 0
    /\ UNCHANGED <<fastOpen, answer, arrived, fin, buf, got, ended>>

\* Mutant: the end of the stream is taken for a chunk without bytes.
ResponseFailsNotAtEof ==
    /\ Reading
    /\ \/ ResponseEnd > 0 /\ answer = "refused"
       \/ ResponseInvalid
    /\ state' = "failed" /\ ended' = "error"
    /\ UNCHANGED <<fastOpen, answer, arrived, fin, buf, leftover, pos, got>>

(* The dial was refused, the response is invalid, or the stream ends before it
   is complete.  The error is tcp's or, with fast open, the first read's. *)
ResponseFails ==
    /\ Reading
    /\ \/ ResponseEnd > 0 /\ answer = "refused"
       \/ ResponseInvalid
       \/ ResponseEnd = 0 /\ Taken = arrived /\ fin # "no"
    /\ state' = "failed" /\ ended' = "error"
    /\ UNCHANGED <<fastOpen, answer, arrived, fin, buf, leftover, pos, got>>

(* poll_read while the leftover lasts: as much as the buffer holds. *)
ReadLeftover(room) ==
    /\ state = "ready" /\ ended = "no"
    /\ pos < Len(leftover)
    /\ LET rest == Len(leftover) - pos
           n    == IF rest < room THEN rest ELSE room
       IN  /\ got' = got \o SubSeq(leftover, pos + 1, pos + n)
           /\ pos' = pos + n
    /\ UNCHANGED <<fastOpen, answer, arrived, fin, state, buf, leftover, ended>>

(* poll_read afterwards: what the stream has, its end, or its error. *)
ReadStream(n) ==
    /\ state = "ready" /\ ended = "no"
    /\ pos = Len(leftover)
    /\ \/ /\ Taken + n <= arrived
          /\ got' = got \o [i \in 1..n |-> Taken + i]
          /\ UNCHANGED ended
       \/ /\ Taken = arrived /\ fin # "no"
          /\ ended' = IF fin = "finished" THEN "eof" ELSE "error"
          /\ UNCHANGED got
    /\ UNCHANGED <<fastOpen, answer, arrived, fin, state, buf, leftover, pos>>

Network == Arrive \/ End

Reader ==
    \/ \E n \in 1..Chunk : ReadChunk(n)
    \/ ResponseOk \/ ResponseFails
    \/ \E n \in 1..MaxBuf : ReadLeftover(n) \/ ReadStream(n)

Next == Tcp \/ Network \/ Reader

Spec == Init /\ [][Next]_vars

\* The runtime polls whoever waits for the stream, tcp or the caller's read.
FairSpec == Spec /\ WF_vars(Reader)

-----------------------------------------------------------------------------

\* The caller gets the proxied data from its first unit on, in order and
\* without gap or repeat, however the stream is cut into chunks and however
\* small its buffers are; none of it from a dial that was not accepted; and
\* it is told of the end only when it has all of it.
DataExact ==
    /\ \A i \in DOMAIN got : got[i] = HeaderLen + i
    /\ got # << >> \/ ended = "eof" => answer = "ok"
    /\ ended = "eof" => Len(got) = DataLen

\* A stream that ended, even within the response, ends the caller's reads.
ReadsEnd == fin # "no" ~> ended # "no"
=============================================================================
