----------------------------- MODULE HttpServer -----------------------------
(***************************************************************************)
(* The HTTP server of firmware/http_server.c on lwIP's raw TCP callbacks:  *)
(* each connection accumulates the segments of one request in a buffer     *)
(* until it is complete, is answered once by a handler of WebUi and        *)
(* closed, while TCP still sends, and sends again, what it was given.      *)
(*                                                                         *)
(* A request is what the decisions read of it: the length of its header    *)
(* block, its content length, whether the header is spelled as             *)
(* parse_headers looks for it, its route and its argument.  TCP may split  *)
(* it anywhere.                                                            *)
(***************************************************************************)
EXTENDS WebUi, FiniteSets

CONSTANTS
    Conn,         \* connections that clients open
    HttpRequest,  \* requests they may send
    BufMax,       \* REQ_BUF_MAX
    Heap,         \* conn_state_t objects the heap has room for
    SndBuf,       \* TCP_SND_BUF
    RespHeader    \* the header of an answer

ASSUME HttpAssumption ==
    /\ HttpRequest \subseteq [hdr: Nat \ {0}, cl: Nat, spelled: BOOLEAN,
                              path: Path, arg: Arg]
    /\ BufMax \in Nat /\ Heap \in Nat /\ SndBuf \in Nat /\ RespHeader \in Nat

VARIABLES
    st,           \* new, open, closed, reset
    req,          \* the request of each client
    used,         \* bytes in the buffer
    have_headers,
    heap,         \* connections whose conn_state_t is allocated
    tcp_arg,      \* does the connection hold the pointer to it
    resp,         \* the status sent, "none" before
    served,       \* history: the body as the handler returned it
    queued,       \* did tcp_write take the body
    got           \* the body at the client

connVars == <<st, req, used, have_headers, heap, tcp_arg, resp, served, queued, got>>
httpVars == <<webVars, connVars>>

\* The bytes of the whole request.
Total(c) == req[c].hdr + req[c].cl

NoBody == Body("none", Blank, 0)

\* on_accept: without memory lwIP drops the connection.
Accept(c) ==
    /\ st[c] = "new"
    /\ IF Cardinality(heap) < Heap
       THEN /\ st' = [st EXCEPT ![c] = "open"]
            /\ heap' = heap \cup {c}
            /\ tcp_arg' = [tcp_arg EXCEPT ![c] = TRUE]
       ELSE st' = [st EXCEPT ![c] = "reset"] /\ UNCHANGED <<heap, tcp_arg>>
    /\ UNCHANGED <<webVars, req, used, have_headers, resp, served, queued, got>>

\* Slip: the pointer stays in the connection.
ReleaseKeepArg(c) ==
    /\ heap' = heap \ {c}
    /\ tcp_arg' = tcp_arg
    /\ st' = [st EXCEPT ![c] = "closed"]

\* free, tcp_arg and tcp_close, on every way out of on_recv.
Release(c) ==
    /\ heap' = heap \ {c}
    /\ tcp_arg' = [tcp_arg EXCEPT ![c] = FALSE]
    /\ st' = [st EXCEPT ![c] = "closed"]

\* tcp_write takes data as a whole or not at all; nobody looks at the result.
TcpTakes(n) == RespHeader + n <= SndBuf

\* send_response.
SendResponse(c, status, body) ==
    /\ resp' = [resp EXCEPT ![c] = status]
    /\ served' = [served EXCEPT ![c] = body]
    /\ queued' = [queued EXCEPT ![c] = TcpTakes(body.len)]

\* parse_headers: what it takes for the content length.
ContentLength(c) == IF req[c].spelled THEN req[c].cl ELSE 0

\* Slip: one byte is missing from the body.
CompleteEarly(c, n) == n >= req[c].hdr /\ n + 1 >= req[c].hdr + ContentLength(c)

\* request_complete, with n bytes in the buffer.
Complete(c, n) == n >= req[c].hdr /\ n >= req[c].hdr + ContentLength(c)

\* The next segment does not fit.
TooLarge(n) == n > BufMax

\* dispatch: the handler gets content_length bytes of the body.
Dispatch(c) ==
    \E r \in Replies(req[c].path,
                     IF ContentLength(c) = 0 THEN "" ELSE req[c].arg) :
        /\ board' = r.board /\ s_resp_buf' = r.buf
        /\ SendResponse(c, r.status, r.body)

\* on_recv with a segment of k bytes.
Recv(c, k) ==
    LET n == used[c] + k IN
    /\ st[c] = "open" /\ n <= Total(c)
    /\ \/ /\ TooLarge(n)
          /\ SendResponse(c, "413", Body("too large", Blank, Short))
          /\ Release(c)
          /\ UNCHANGED <<webVars, used, have_headers>>
       \/ /\ ~TooLarge(n)
          /\ used' = [used EXCEPT ![c] = n]
          /\ have_headers' = [have_headers EXCEPT ![c] = n >= req[c].hdr]
          /\ IF Complete(c, n) THEN Dispatch(c) /\ Release(c)
             ELSE UNCHANGED <<webVars, st, heap, tcp_arg, resp, served, queued>>
    /\ UNCHANGED <<req, got>>

\* on_recv without a segment: the client has closed its side, perhaps after
\* the server has.
RecvClosed(c) ==
    /\ st[c] \in {"open", "closed"}
    /\ Release(c)
    /\ UNCHANGED <<webVars, req, used, have_headers, resp, served, queued, got>>

\* The connection is reset, by the client or for want of connections: lwIP
\* drops it and would call tcp_err, which the server never registers.
Aborted(c) ==
    /\ st[c] = "open"
    /\ st' = [st EXCEPT ![c] = "reset"]
    /\ UNCHANGED <<webVars, req, used, have_headers, heap, tcp_arg, resp, served,
                   queued, got>>

\* Slip: without TCP_WRITE_FLAG_COPY the segments refer to the static buffer.
SegmentByReference(c) ==
    IF served[c].what \in {"status", "channels"} THEN s_resp_buf ELSE served[c]

\* What TCP holds of the body: a copy.
Segment(c) == served[c]

\* lwIP sends the body, at any time after the answer and as often as needed.
Transmit(c) ==
    /\ queued[c]
    /\ got' = [got EXCEPT ![c] = Segment(c)]
    /\ UNCHANGED <<webVars, st, req, used, have_headers, heap, tcp_arg, resp,
                   served, queued>>

---------------------------------------------------------------------------
HttpInit ==
    /\ WebInit
    /\ st = [c \in Conn |-> "new"]
    /\ req \in [Conn -> HttpRequest]
    /\ used = [c \in Conn |-> 0]
    /\ have_headers = [c \in Conn |-> FALSE]
    /\ heap = {} /\ tcp_arg = [c \in Conn |-> FALSE]
    /\ resp = [c \in Conn |-> "none"]
    /\ served = [c \in Conn |-> NoBody]
    /\ queued = [c \in Conn |-> FALSE]
    /\ got = [c \in Conn |-> NoBody]

HttpNext ==
    \E c \in Conn :
        \/ Accept(c) \/ RecvClosed(c) \/ Aborted(c) \/ Transmit(c)
        \/ \E k \in 1 .. Total(c) : Recv(c, k)

HttpSpec == HttpInit /\ [][HttpNext]_httpVars

---------------------------------------------------------------------------
(* Properties *)

\* http_server.c:172-195.  The answer does not depend on how the request was
\* split: it is too large exactly when it does not fit the buffer, a handler
\* runs only on the whole body, and no split leaves the connection waiting
\* for bytes that never come.
AnsweredExactly ==
    \A c \in Conn : req[c].spelled =>
        /\ resp[c] = "413" => Total(c) > BufMax
        /\ resp[c] \notin {"413", "none"} => Total(c) <= BufMax /\ used[c] = Total(c)
        /\ st[c] = "open" => used[c] < Total(c)

\* http_server.c:87, webui.c:26.  What a client gets is what the handler
\* wrote for it, although the next request formats its answer into the same
\* buffer while TCP still sends, or sends again, the one before.
ServedAsWritten == \A c \in Conn : got[c] # NoBody => got[c] = served[c]

\* http_server.c:162-195, 198-207.  No connection keeps a pointer to a state
\* that was freed, so a close that comes after the answer frees nothing
\* twice; and only a reset connection keeps its state for ever.
StateOwned ==
    \A c \in Conn :
        /\ tcp_arg[c] => c \in heap
        /\ c \in heap => st[c] \in {"open", "reset"}

\* http_server.c:11 "write the response inline", 80 "Content-Length".  The
\* body that the header announces is handed to TCP.
BodyDelivered == \A c \in Conn : resp[c] # "none" => queued[c]

=============================================================================
