------------------------------ MODULE ClsServer -----------------------------
(***************************************************************************)
(* The TCP command server of the CLS DAQ, echo.c: which client is served,  *)
(* and how its byte stream becomes commands.                               *)
(*                                                                         *)
(* The callbacks run one at a time, from the main loop (main.c), so each   *)
(* one is an action.  lwIP is outside the repository and is modelled by    *)
(* how echo.c uses it: when it calls which callback, and how long a pcb    *)
(* outlives tcp_close.  A byte is the pair <<connection, position>>, so    *)
(* that a command of the parser can be compared with what a client sent;   *)
(* message m of a connection is its bytes m * MessageSize ... of the       *)
(* stream, and MsgKind says which command it is.                           *)
(***************************************************************************)
EXTENDS Integers, Sequences, FiniteSets, FiniteSetsExt

CONSTANTS
    Conns,          \* connections, in the order clients make them
    MessageSize,    \* MESSAGE_SIZE: 24 in the source
    BufferSize,     \* sizeof(recv_buffer): 1024 in the source
    MaxSegment,     \* the longest pbuf lwIP delivers, which may exceed the buffer
    MaxMessages,    \* bound: messages a client sends on one connection
    MsgKind,        \* the command of each message of a stream
    SndBuf,         \* replies that fit the send buffer of a connection
    NULL

Kinds   == {"GetCount", "GetVolt", "SetVolt", "Register"}
Devices == {"gpioVolt", "gpioSet", "spi"}

ASSUME ServerAssumption ==
    /\ MessageSize \in Nat \ {0}
    /\ BufferSize \in Nat /\ BufferSize >= MessageSize
    /\ MaxSegment \in Nat
    /\ MaxMessages \in Nat
    /\ MsgKind \in [0 .. MaxMessages - 1 -> Kinds]
    /\ SndBuf \in Nat
    /\ NULL \notin Conns

VARIABLES
    client_pcb,     \* the connection being served, or NULL
    recv_buffer,    \* the first recv_len bytes of recv_buffer
    listening,      \* tcp_accept is registered on a listening pcb
    devices,        \* devices start_application has initialised
    running,        \* "boot", "loop", "halted" in a device driver's assertion, or
                    \* "overrun" once memcpy has written past recv_buffer
    pcb,            \* lwIP: the state of each connection
    delivered,      \* bytes of each stream handed to recv_callback
    sndbuf,         \* lwIP: free space for replies
    executed,       \* aux: well-formed commands executed, by connection
    replies,        \* aux: replies written
    refused,        \* aux: replies dropped for want of send buffer
    misframed,      \* aux: a command was made of bytes that are no message
    tainted,        \* aux: the buffer was emptied of part of a message or kept part of
                    \* one, bytes were not copied, or two connections filled it
    unreturned,     \* aux: bytes delivered and never given back by tcp_recved
    overran         \* aux: the length of the pbuf that was copied past recv_buffer

server == <<client_pcb, recv_buffer, listening, devices, running>>
lwip   == <<pcb, delivered, sndbuf>>
aux    == <<executed, replies, refused, misframed, tainted, unreturned, overran>>
vars   == <<server, lwip, aux>>

StreamLength == MaxMessages * MessageSize
Byte == Conns \X (0 .. StreamLength - 1)

(* The connections, buffers and counts are of their types; sndbuf never goes *)
(* below zero: recv_callback asks tcp_sndbuf before each tcp_write.         *)
TypeOK ==
    /\ client_pcb \in Conns \cup {NULL}
    /\ recv_buffer \in Seq(Byte)
    /\ listening \in BOOLEAN
    /\ devices \subseteq Devices
    /\ running \in {"boot", "loop", "halted", "overrun"}
    /\ pcb \in [Conns -> {"none", "open", "closing", "gone"}]
    /\ delivered \in [Conns -> 0 .. StreamLength]
    /\ sndbuf \in [Conns -> 0 .. SndBuf]
    /\ executed \in [Conns -> Nat]
    /\ replies \in [Conns -> Nat]
    /\ refused \in [Conns -> Nat]
    /\ misframed \in BOOLEAN
    /\ tainted \in BOOLEAN
    /\ unreturned \in Nat /\ overran \in Nat

Init ==
    /\ client_pcb = NULL
    /\ recv_buffer = <<>>
    /\ listening = FALSE /\ devices = {} /\ running = "boot"
    /\ pcb = [c \in Conns |-> "none"]
    /\ delivered = [c \in Conns |-> 0]
    /\ sndbuf = [c \in Conns |-> SndBuf]
    /\ executed = [c \in Conns |-> 0]
    /\ replies = [c \in Conns |-> 0]
    /\ refused = [c \in Conns |-> 0]
    /\ misframed = FALSE /\ tainted = FALSE /\ unreturned = 0
    /\ overran = 0

-----------------------------------------------------------------------------
(* start_application.  It returns at the first step that fails, and main    *)
(* ignores what it returns: the loop runs with whatever is set up by then.  *)

StartApplication(failing) ==
    /\ running = "boot"
    /\ running' = "loop"
    /\ listening' = (failing \notin {"tcp_new", "tcp_bind", "tcp_listen"})
    /\ devices' = CASE failing \in {"tcp_new", "tcp_bind", "tcp_listen", "gpioVolt"} -> {}
                    [] failing = "gpioSet" -> {"gpioVolt"}
                    [] failing = "spi"     -> {"gpioVolt", "gpioSet"}
                    [] failing = "nothing" -> Devices
    /\ UNCHANGED <<client_pcb, recv_buffer, lwip, aux>>

BootFailures == {"tcp_new", "tcp_bind", "tcp_listen", "gpioVolt", "gpioSet", "spi", "nothing"}

-----------------------------------------------------------------------------
(* accept_callback: a client that comes while another is served is aborted. *)

accept_callback(newpcb) ==
    IF client_pcb # NULL
    THEN /\ pcb' = [pcb EXCEPT ![newpcb] = "gone"]
         /\ UNCHANGED client_pcb
    ELSE /\ pcb' = [pcb EXCEPT ![newpcb] = "open"]
         /\ client_pcb' = newpcb

Connect(c) ==
    /\ running = "loop" /\ listening
    /\ pcb[c] = "none"
    /\ accept_callback(c)
    /\ tainted' = (tainted \/ \E d \in Conns \ {c} : pcb[d] = "open" /\ pcb'[c] = "open")
    /\ UNCHANGED <<recv_buffer, listening, devices, running, delivered, sndbuf,
                   executed, replies, refused, misframed, unreturned, overran>>

-----------------------------------------------------------------------------
(* recv_callback with data.                                                 *)

\* The bytes of a stream that follow what was delivered of it.
NextBytes(c, n) == [i \in 1 .. n |-> <<c, delivered[c] + i - 1>>]

\* Mutant: the check against the size of the buffer is left out.
AppendUnchecked(bytes) == recv_buffer \o bytes

\* The buffer is emptied first when the segment would fill it, and the segment
\* copied then, however long it is.
Append_(bytes) ==
    IF Len(recv_buffer) + Len(bytes) >= BufferSize THEN bytes ELSE recv_buffer \o bytes

Overflows(bytes) ==
    recv_buffer # <<>> /\ Len(recv_buffer) + Len(bytes) >= BufferSize

\* The parse loop: as many whole messages as the buffer holds.
FrameCount(buf) == Len(buf) \div MessageSize
Frame(buf, j) == SubSeq(buf, (j - 1) * MessageSize + 1, j * MessageSize)

\* A frame is the message m of connection c, byte for byte.
IsMessage(frame, c, m) ==
    \A k \in 1 .. MessageSize : frame[k] = <<c, m * MessageSize + k - 1>>
Messages == 0 .. MaxMessages - 1
WellFormed(frame) == \E c \in Conns, m \in Messages : IsMessage(frame, c, m)
KindOf(frame) ==
    MsgKind[CHOOSE m \in Messages : \E c \in Conns : IsMessage(frame, c, m)]

\* The frames of a buffer whose command is one of `kinds'.
FramesOf(buf, kinds) ==
    {j \in 1 .. FrameCount(buf) :
        WellFormed(Frame(buf, j)) /\ KindOf(Frame(buf, j)) \in kinds}

\* A driver called on a device that was not initialised stops in its assertion.
Needs(kind) == CASE kind = "SetVolt" -> {"gpioVolt", "gpioSet"}
                 [] kind = "GetVolt" -> {"spi"}
                 [] OTHER            -> {}
HaltsAt(buf) == FramesOf(buf, {k \in Kinds : ~(Needs(k) \subseteq devices)})
BeforeHalt(buf) ==
    IF HaltsAt(buf) = {} THEN buf
    ELSE SubSeq(buf, 1, (Min(HaltsAt(buf)) - 1) * MessageSize)

\* What is left in the buffer once the commands in front are taken out.
Rest(buf) == SubSeq(buf, FrameCount(BeforeHalt(buf)) * MessageSize + 1, Len(buf))

\* Mutant: a reply is written without asking tcp_sndbuf.
ExecuteFramesUnchecked(tpcb, buf) ==
    LET asks == Cardinality(FramesOf(buf, {"GetCount", "GetVolt"}))
    IN  /\ executed' = [c \in Conns |->
              executed[c] + Cardinality({j \in FramesOf(buf, Kinds) : Frame(buf, j)[1][1] = c})]
        /\ misframed' = (misframed \/ \E j \in 1 .. FrameCount(buf) : ~WellFormed(Frame(buf, j)))
        /\ sndbuf' = [sndbuf EXCEPT ![tpcb] = @ - asks]
        /\ replies' = [replies EXCEPT ![tpcb] = @ + asks]
        /\ UNCHANGED refused

\* Mutant: one segment is answered once, however many commands it holds.
ExecuteFramesOnce(tpcb, buf) ==
    LET asks == IF FramesOf(buf, {"GetCount", "GetVolt"}) = {} THEN 0 ELSE 1
        sent == IF asks <= sndbuf[tpcb] THEN asks ELSE sndbuf[tpcb]
    IN  /\ executed' = [c \in Conns |->
              executed[c] + Cardinality({j \in FramesOf(buf, Kinds) : Frame(buf, j)[1][1] = c})]
        /\ misframed' = (misframed \/ \E j \in 1 .. FrameCount(buf) : ~WellFormed(Frame(buf, j)))
        /\ sndbuf' = [sndbuf EXCEPT ![tpcb] = @ - sent]
        /\ replies' = [replies EXCEPT ![tpcb] = @ + sent]
        /\ refused' = [refused EXCEPT ![tpcb] = @ + asks - sent]

\* Every command of the buffer in turn; a reply goes out if it fits sndbuf.
ExecuteFrames(tpcb, buf) ==
    LET asks == Cardinality(FramesOf(buf, {"GetCount", "GetVolt"}))
        sent == IF asks <= sndbuf[tpcb] THEN asks ELSE sndbuf[tpcb]
    IN  /\ executed' = [c \in Conns |->
              executed[c] + Cardinality({j \in FramesOf(buf, Kinds) : Frame(buf, j)[1][1] = c})]
        /\ misframed' = (misframed \/ \E j \in 1 .. FrameCount(buf) : ~WellFormed(Frame(buf, j)))
        /\ sndbuf' = [sndbuf EXCEPT ![tpcb] = @ - sent]
        /\ replies' = [replies EXCEPT ![tpcb] = @ + sent]
        /\ refused' = [refused EXCEPT ![tpcb] = @ + asks - sent]

\* One call with p: p->len bytes are copied and given back to the window, the
\* `lost' bytes of the pbufs chained behind it are freed unread.
recv_callback(tpcb, len, lost) ==
    LET bytes == NextBytes(tpcb, len)
        buf == Append_(bytes)
    IN  /\ Len(buf) <= BufferSize
        /\ recv_buffer' = Rest(buf)
        /\ ExecuteFrames(tpcb, BeforeHalt(buf))
        /\ running' = IF HaltsAt(buf) # {} THEN "halted" ELSE running
        /\ delivered' = [delivered EXCEPT ![tpcb] = @ + len + lost]
        /\ unreturned' = unreturned + lost
        /\ tainted' = (tainted \/ Overflows(bytes) \/ lost > 0)
        /\ UNCHANGED <<client_pcb, listening, devices, pcb, overran>>

\* What memcpy copies does not fit: the memory behind recv_buffer is overwritten,
\* and what the program does from there on is not followed.
recv_callback_overruns(tpcb, len) ==
    /\ Len(Append_(NextBytes(tpcb, len))) > BufferSize
    /\ running' = "overrun"
    /\ overran' = len
    /\ UNCHANGED <<client_pcb, recv_buffer, listening, devices, lwip,
                   executed, replies, refused, misframed, tainted, unreturned>>

\* lwIP delivers the next bytes of the stream in one pbuf.
Receive(c, len) ==
    /\ running = "loop" /\ pcb[c] = "open"
    /\ delivered[c] + len <= StreamLength
    /\ recv_callback(c, len, 0) \/ recv_callback_overruns(c, len)

\* Segments that had to wait for a missing one come as a chain of pbufs.
ReceiveChain(c, len, more) ==
    /\ running = "loop" /\ pcb[c] = "open"
    /\ delivered[c] + len + more <= StreamLength
    /\ recv_callback(c, len, more)

\* The client acknowledges its replies.
Acknowledge(c) ==
    /\ running = "loop" /\ pcb[c] = "open" /\ sndbuf[c] < SndBuf
    /\ sndbuf' = [sndbuf EXCEPT ![c] = SndBuf]
    /\ UNCHANGED <<server, pcb, delivered, aux>>

-----------------------------------------------------------------------------
(* The ends of a connection.                                                *)

\* Mutant: the bytes of the client that left stay in the buffer.
recv_callback_keeps_bytes(tpcb) ==
    /\ pcb' = [pcb EXCEPT ![tpcb] = "closing"]
    /\ client_pcb' = NULL
    /\ UNCHANGED recv_buffer

\* recv_callback without p.  tcp_close leaves the pcb to lwIP until the client
\* has acknowledged; tcp_recv(NULL) takes recv_callback from it, and nothing
\* takes err_callback from it.
recv_callback_closed(tpcb) ==
    /\ pcb' = [pcb EXCEPT ![tpcb] = "closing"]
    /\ client_pcb' = NULL
    /\ recv_buffer' = <<>>

Disconnect(c) ==
    /\ running = "loop" /\ pcb[c] = "open"
    /\ recv_callback_closed(c)
    /\ UNCHANGED <<listening, devices, running, delivered, sndbuf, aux>>

\* Mutant: the served client is not forgotten.
err_callback_keeps == UNCHANGED client_pcb

err_callback == client_pcb' = NULL

\* A reset or the end of lwIP's retransmissions.  recv_len is not touched.
Abort(c) ==
    /\ running = "loop" /\ pcb[c] \in {"open", "closing"}
    /\ pcb' = [pcb EXCEPT ![c] = "gone"]
    /\ err_callback
    /\ tainted' = (tainted \/ recv_buffer # <<>>)
    /\ UNCHANGED <<recv_buffer, listening, devices, running, delivered, sndbuf,
                   executed, replies, refused, misframed, unreturned, overran>>

\* The last acknowledgement of an orderly close: lwIP calls nothing.
Closed(c) ==
    /\ running = "loop" /\ pcb[c] = "closing"
    /\ pcb' = [pcb EXCEPT ![c] = "gone"]
    /\ UNCHANGED <<server, delivered, sndbuf, aux>>

Next ==
    \/ \E failing \in BootFailures : StartApplication(failing)
    \/ \E c \in Conns :
          \/ Connect(c) \/ Acknowledge(c) \/ Disconnect(c) \/ Abort(c) \/ Closed(c)
          \/ \E len \in 1 .. MaxSegment :
                \/ Receive(c, len)
                \/ \E more \in 1 .. MaxSegment : ReceiveChain(c, len, more)

Spec == Init /\ [][Next]_vars

-----------------------------------------------------------------------------
(* recv_buffer is written past its end by a pbuf longer than all of it,     *)
(* which the "Buffer overflow, clearing" before memcpy does not stop, and   *)
(* by nothing else, whatever is in the buffer when a pbuf comes.  Between   *)
(* callbacks the buffer holds less than one message, so the memmove of the  *)
(* parse loop never leaves one behind.                                      *)
BufferFits ==
    /\ running = "overrun" => overran > BufferSize
    /\ running = "loop" => Len(recv_buffer) < MessageSize

(* client_pcb is never a connection that has ended: the server is never     *)
(* locked by a client that is gone, and no new client is refused for it.    *)
ServedClientIsOpen == client_pcb # NULL => pcb[client_pcb] = "open"

(* As long as no byte is lost, every message is executed exactly once and   *)
(* whole, however lwIP cuts the stream into segments.                       *)
ExactlyOnce ==
    ~tainted => /\ ~misframed
                /\ running = "loop" =>
                       \A c \in Conns : executed[c] = delivered[c] \div MessageSize

(* Each GetCount and GetVolt is answered once, on the connection that asked, *)
(* unless the send buffer had no room for the reply.                        *)
Asks(c) == Cardinality({m \in 0 .. executed[c] - 1 : MsgKind[m] \in {"GetCount", "GetVolt"}})
RepliesAccounted == ~tainted => \A c \in Conns : replies[c] + refused[c] = Asks(c)

(* "Rejcting new client, already connected": the server has one client at a *)
(* time.  Two open connections would share recv_buffer.                     *)
OneClient == Cardinality({c \in Conns : pcb[c] = "open"}) <= 1

(* "indicate that the packet has been received": the bytes of every packet  *)
(* are given back to the window that lwIP advertises.                       *)
PacketsReturned == unreturned = 0
=============================================================================
