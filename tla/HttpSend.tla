------------------------------ MODULE HttpSend ------------------------------
(***************************************************************************)
(* How the web server (httpd.c of both programs) answers a GET on one      *)
(* connection: http_send_data() gives TCP as much of the answer as it      *)
(* takes, and is called again when TCP reports an acknowledgement          *)
(* (http_sent) and every two seconds (http_poll). lwIP calls it back from  *)
(* main()'s loop, one callback at a time; memory may run out at any call.  *)
(*                                                                         *)
(* The answer is either the default page, one buffer with its headers, or  *)
(* the three header strings of a 404. The data are counted in units.       *)
(***************************************************************************)
EXTENDS Naturals, Sequences

CONSTANTS
    NumHdrs,     \* NUM_FILE_HDR_STRINGS
    HdrAt,       \* where the header strings of a 404 begin in the answer, and where it ends
    PageLen,     \* length of the default page
    SndBuf,      \* TCP_SND_BUF
    Mss,         \* the connection's maximum segment size
    MaxRetries,  \* HTTPD_MAX_RETRIES
    MaxRequests  \* bound: pbufs that the client sends

ASSUME HttpAssumption ==
    /\ NumHdrs \in Nat /\ HdrAt \in [1 .. NumHdrs + 1 -> Nat] /\ HdrAt[1] = 1
    /\ \A i, j \in 1 .. NumHdrs + 1 : i < j => HdrAt[i] < HdrAt[j]
    /\ PageLen \in Nat \ {0}
    /\ SndBuf \in Nat \ {0} /\ Mss \in Nat \ {0}
    /\ MaxRetries \in Nat \ {0} /\ MaxRequests \in Nat

VARIABLES
    conn,        \* the connection: open, closing (tcp_close failed), closed by the server, gone
    at,          \* whether a call of http_send_data is under way
    hdr_index, hdr_pos,  \* the header string being sent and how much of it was
    handle,      \* whether the file is open
    unsent,      \* hs->left: what is left of the file
    retries,
    unacked,     \* data TCP was given and the client has not acknowledged
    requests,    \* number of pbufs received
    answer,      \* history: the answer begun: none, page or missing
    again,       \* history: a request came while a 404 was being sent
    out,         \* history: the units given to TCP
    silence,     \* history: polls since an acknowledgement or the answer's begin
    broken_off   \* history: the client closed first, or its request was bad

httpVars == <<conn, at, hdr_index, hdr_pos, handle, unsent, retries, unacked, requests, answer,
              again, out, silence, broken_off>>

HttpTypeOK ==
    /\ conn \in {"open", "closing", "closed", "gone"}
    /\ at \in {"idle", "sending"}
    /\ hdr_index \in 1 .. NumHdrs + 1 /\ hdr_pos \in Nat
    /\ handle \in BOOLEAN /\ unsent \in 0 .. PageLen
    /\ retries \in 0 .. MaxRetries
    /\ unacked \in 0 .. SndBuf
    /\ requests \in 0 .. MaxRequests
    /\ answer \in {"none", "page", "missing"} /\ again \in BOOLEAN
    /\ out \in Seq(Nat) /\ silence \in Nat /\ broken_off \in BOOLEAN

\* http_accept and http_state_alloc: the header index says that there are no headers.
HttpInit ==
    /\ conn = "open" /\ at = "idle"
    /\ hdr_index = NumHdrs + 1 /\ hdr_pos = 0
    /\ handle = FALSE /\ unsent = 0
    /\ retries = 0 /\ unacked = 0 /\ requests = 0
    /\ answer = "none" /\ again = FALSE
    /\ out = <<>> /\ silence = 0 /\ broken_off = FALSE

-----------------------------------------------------------------------------
\* Mutant: data that were sent need no space any more.
WholeSndbuf == SndBuf

\* tcp_sndbuf
tcp_sndbuf == SndBuf - unacked

Smaller(a, b) == IF a <= b THEN a ELSE b

\* http_write: how much of len TCP may take: all, a half, a quarter ..., but no single unit
\* out of more, or nothing (0).
Taken(len) ==
    {0, len} \cup {n \in 2 .. len : \E k \in 1 .. len : n = len \div 2 ^ k}

Numbers(from, n) == [i \in 1 .. n |-> from + i - 1]

\* TCP takes n units, from number from on.
TcpTakes(from, n) ==
    /\ out' = out \o Numbers(from, n)
    /\ unacked' = unacked + n

\* http_state_free
StateFree == handle' = FALSE

\* http_close_conn: the state is freed, whether or not tcp_close succeeds.
HttpCloseConn ==
    /\ StateFree
    /\ conn' \in {"closed", "closing"}
    /\ at' = "idle"

-----------------------------------------------------------------------------
\* http_recv, through http_parse_request and http_find_file. Nothing comes of a pbuf that
\* arrives while a file is being sent, or that does not complete a request.
RecvIgnored ==
    /\ conn = "open" /\ at = "idle" /\ requests < MaxRequests
    /\ requests' = requests + 1
    /\ UNCHANGED <<conn, at, hdr_index, hdr_pos, handle, unsent, retries, unacked, answer,
                   again, out, silence, broken_off>>

\* The default page is asked for, and there is memory for it (fs_open_default). An HTTP/0.9
\* request gets it without its header, which is only a shorter page.
RecvPage ==
    /\ conn = "open" /\ at = "idle" /\ ~handle /\ requests < MaxRequests
    /\ requests' = requests + 1
    /\ handle' = TRUE
    /\ unsent' = PageLen /\ retries' = 0 /\ silence' = 0
    /\ again' = (again \/ answer # "none")
    /\ answer' = "page"
    /\ at' = "sending"
    /\ UNCHANGED <<conn, hdr_index, hdr_pos, unacked, out, broken_off>>

\* There is no file: 404. The header strings begin anew.
RecvMissing ==
    /\ conn = "open" /\ at = "idle" /\ ~handle /\ requests < MaxRequests
    /\ requests' = requests + 1
    /\ hdr_index' = 1 /\ hdr_pos' = 0
    /\ unsent' = 0 /\ retries' = 0 /\ silence' = 0
    /\ again' = (again \/ answer # "none")
    /\ answer' = "missing"
    /\ at' = "sending"
    /\ UNCHANGED <<conn, handle, unacked, out, broken_off>>

\* The request is not understood (ERR_ARG).
RecvBad ==
    /\ conn = "open" /\ at = "idle" /\ ~handle /\ requests < MaxRequests
    /\ requests' = requests + 1
    /\ broken_off' = TRUE
    /\ HttpCloseConn
    /\ UNCHANGED <<hdr_index, hdr_pos, unsent, retries, unacked, answer, again, out, silence>>

\* http_recv without a pbuf: the client closes.
RecvClose ==
    /\ conn = "open" /\ at = "idle"
    /\ broken_off' = TRUE
    /\ HttpCloseConn
    /\ UNCHANGED <<hdr_index, hdr_pos, unsent, retries, unacked, requests, answer, again, out,
                   silence>>

\* http_err: the client resets the connection, or TCP gives it up.
HttpErr ==
    /\ conn \in {"open", "closing"} /\ at = "idle"
    /\ StateFree
    /\ conn' = "gone"
    /\ UNCHANGED <<at, hdr_index, hdr_pos, unsent, retries, unacked, requests, answer, again,
                   out, silence, broken_off>>

\* http_sent
HttpSent ==
    /\ conn = "open" /\ at = "idle" /\ unacked > 0
    /\ \E n \in 1 .. unacked : unacked' = unacked - n
    /\ retries' = 0 /\ silence' = 0
    /\ at' = "sending"
    /\ UNCHANGED <<conn, hdr_index, hdr_pos, handle, unsent, requests, answer, again, out, broken_off>>

\* Mutant: a connection that never asked for anything is not counted.
PollGivesUpAnswered ==
    /\ conn = "open" /\ at = "idle" /\ retries + 1 = MaxRetries /\ answer # "none"
    /\ retries' = MaxRetries /\ silence' = silence + 1
    /\ HttpCloseConn
    /\ UNCHANGED <<hdr_index, hdr_pos, unsent, unacked, requests, answer, again, out, broken_off>>

\* http_poll: when it has counted enough the connection is given up, ...
PollGivesUp ==
    /\ conn = "open" /\ at = "idle" /\ retries + 1 = MaxRetries
    /\ retries' = MaxRetries /\ silence' = silence + 1
    /\ HttpCloseConn
    /\ UNCHANGED <<hdr_index, hdr_pos, unsent, unacked, requests, answer, again, out, broken_off>>

\* ... or, with a file open, more of it is sent,
PollSends ==
    /\ conn = "open" /\ at = "idle" /\ retries + 1 # MaxRetries
    /\ retries' = retries + 1 /\ silence' = silence + 1
    /\ at' = IF handle THEN "sending" ELSE "idle"
    /\ UNCHANGED <<conn, hdr_index, hdr_pos, handle, unsent, unacked, requests, answer, again,
                   out, broken_off>>

\* ... or tcp_close is tried again, and may fail again.
PollCloses ==
    /\ conn = "closing"
    /\ conn' \in {"closed", "closing"}
    /\ UNCHANGED <<at, hdr_index, hdr_pos, handle, unsent, retries, unacked, requests, answer,
                   again, out, silence, broken_off>>

-----------------------------------------------------------------------------
\* http_send_data, the loop over the header strings: what TCP takes of the string moves
\* hdr_pos, and hdr_index at the string's end.
HdrLen(i) == HdrAt[i + 1] - HdrAt[i]

\* Mutant: what was taken is forgotten when it was not the whole string.
HeaderAllOrNothing ==
    LET rest == HdrLen(hdr_index) - hdr_pos
    IN  /\ at = "sending" /\ hdr_index <= NumHdrs /\ tcp_sndbuf > 0
        /\ \E n \in Taken(Smaller(tcp_sndbuf, rest)) :
              /\ TcpTakes(HdrAt[hdr_index] + hdr_pos, n)
              /\ IF n = rest THEN hdr_index' = hdr_index + 1 /\ hdr_pos' = 0
                             ELSE UNCHANGED <<hdr_index, hdr_pos>>
              /\ at' = IF n = 0 THEN "idle" ELSE at
        /\ UNCHANGED <<conn, handle, unsent, retries, requests, answer, again, silence,
                       broken_off>>

SendHeader ==
    LET rest == HdrLen(hdr_index) - hdr_pos
    IN  /\ at = "sending" /\ hdr_index <= NumHdrs /\ tcp_sndbuf > 0
        /\ \E n \in Taken(Smaller(tcp_sndbuf, rest)) :
              /\ TcpTakes(HdrAt[hdr_index] + hdr_pos, n)
              /\ IF n = rest THEN hdr_index' = hdr_index + 1 /\ hdr_pos' = 0
                             ELSE hdr_index' = hdr_index /\ hdr_pos' = hdr_pos + n
              /\ at' = IF n = 0 THEN "idle"
                       ELSE IF n = rest /\ hdr_index = NumHdrs /\ ~handle THEN "idle"
                       ELSE at
        /\ UNCHANGED <<conn, handle, unsent, retries, requests, answer, again, silence,
                       broken_off>>

\* The send buffer is full before the last string.
HeadersBlocked ==
    /\ at = "sending" /\ hdr_index <= NumHdrs /\ tcp_sndbuf = 0
    /\ at' = "idle"
    /\ UNCHANGED <<conn, hdr_index, hdr_pos, handle, unsent, retries, unacked, requests, answer,
                   again, out, silence, broken_off>>

\* There are no headers left and no file: the answer is complete.
SendEnd ==
    /\ at = "sending" /\ hdr_index > NumHdrs /\ ~handle
    /\ HttpCloseConn
    /\ UNCHANGED <<hdr_index, hdr_pos, unsent, retries, unacked, requests, answer, again, out,
                   silence, broken_off>>

\* Mutant: the connection is closed as soon as the rest of the file has been tried.
CloseWhenTried ==
    LET len == Smaller(Smaller(tcp_sndbuf, unsent), 2 * Mss)
    IN  /\ at = "sending" /\ hdr_index > NumHdrs /\ handle
        /\ \E n \in Taken(len) :
              /\ TcpTakes(PageLen - unsent + 1, n)
              /\ unsent' = unsent - n
              /\ IF len = unsent THEN HttpCloseConn
                 ELSE at' = "idle" /\ UNCHANGED <<conn, handle>>
        /\ UNCHANGED <<hdr_index, hdr_pos, retries, requests, answer, again, silence, broken_off>>

\* A part of the file, at most two segments; with the last one the connection is closed.
SendFile ==
    LET len == Smaller(Smaller(tcp_sndbuf, unsent), 2 * Mss)
    IN  /\ at = "sending" /\ hdr_index > NumHdrs /\ handle
        /\ \E n \in Taken(len) :
              /\ TcpTakes(PageLen - unsent + 1, n)
              /\ unsent' = unsent - n
              /\ IF n = unsent THEN HttpCloseConn
                 ELSE at' = "idle" /\ UNCHANGED <<conn, handle>>
        /\ UNCHANGED <<hdr_index, hdr_pos, retries, requests, answer, again, silence, broken_off>>

-----------------------------------------------------------------------------
Recv == RecvIgnored \/ RecvPage \/ RecvMissing \/ RecvBad \/ RecvClose
HttpPoll == PollGivesUp \/ PollSends \/ PollCloses
HttpSendData == SendHeader \/ HeadersBlocked \/ SendEnd \/ SendFile

HttpNext == Recv \/ HttpErr \/ HttpSent \/ HttpPoll \/ HttpSendData

\* lwIP's timer polls the connection, a call of http_send_data runs to its end, tcp_close
\* does not fail for ever. The client need not do anything.
HttpSpec ==
    /\ HttpInit /\ [][HttpNext]_httpVars
    /\ WF_httpVars(HttpPoll) /\ WF_httpVars(HttpSendData)

-----------------------------------------------------------------------------
AnswerLen == IF answer = "page" THEN PageLen ELSE HdrAt[NumHdrs + 1] - 1

\* TCP is given the answer in order, every unit once, however its parts are cut, refused
\* and tried again; unless another request came while a 404 was being sent.
InOrderOnce == again \/ (Len(out) <= AnswerLen /\ out = Numbers(1, Len(out)))

\* The server closes the connection when it has given TCP the whole answer, or after
\* MaxRetries polls without an acknowledgement, never earlier.
ClosedComplete ==
    conn \in {"closing", "closed"} /\ ~broken_off /\ ~again =>
        (answer # "none" /\ Len(out) = AnswerLen) \/ silence >= MaxRetries

\* A connection does not stay open for ever, even if the client is never heard of again.
ConnectionEnds == <>(conn \in {"closed", "gone"})
=============================================================================
