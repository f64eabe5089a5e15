--------------------------- MODULE HttpSend_proofs ---------------------------
(***************************************************************************)
(* Theorems about the answer to a GET, for every length of the page and of *)
(* the header strings, every send buffer and segment size.                 *)
(*                                                                         *)
(* The argument is that hdr_index, hdr_pos and left say exactly how much   *)
(* of the answer TCP has been given (SentInv), and that nothing is begun   *)
(* without an answer to give (CallInv).                                    *)
(***************************************************************************)
EXTENDS HttpSend, SequenceTheorems, TLAPS

\* How much of the answer has been given to TCP, by the server's own counters.
Given ==
    IF answer = "page" THEN PageLen - unsent
    ELSE IF answer = "missing" THEN HdrAt[hdr_index] - 1 + hdr_pos
    ELSE 0

SentInv ==
    /\ hdr_index <= NumHdrs => hdr_pos < HdrLen(hdr_index)
    /\ hdr_index = NumHdrs + 1 => hdr_pos = 0
    /\ out = Numbers(1, Len(out)) \/ again
    /\ ~again => Len(out) = Given

CallInv ==
    /\ at = "sending" => conn = "open"
    /\ answer # "missing" /\ ~again => hdr_index = NumHdrs + 1
    /\ answer = "missing" /\ ~again => ~handle
    /\ conn = "open" /\ answer = "page" /\ ~again => handle
    /\ answer = "none" => at = "idle" /\ unacked = 0 /\ ~handle
    /\ retries <= silence
    /\ conn = "open" => retries < MaxRetries
    /\ ClosedComplete

Inv == HttpTypeOK /\ SentInv /\ CallInv

-----------------------------------------------------------------------------
LEMMA Bounds ==
    /\ NumHdrs \in Nat /\ PageLen \in Nat \ {0} /\ SndBuf \in Nat \ {0} /\ Mss \in Nat \ {0}
    /\ MaxRetries \in Nat \ {0} /\ MaxRequests \in Nat
    /\ 1 \in 1 .. NumHdrs + 1 /\ NumHdrs + 1 \in 1 .. NumHdrs + 1
BY HttpAssumption

\* The numbers of the header strings.
LEMMA Headers ==
    /\ NumHdrs \in Nat /\ PageLen \in Nat /\ SndBuf \in Nat /\ HdrAt[1] = 1
    /\ \A i \in 1 .. NumHdrs + 1 : HdrAt[i] \in Nat /\ HdrAt[i] >= 1 /\ HdrAt[i] <= HdrAt[NumHdrs + 1]
    /\ \A i \in 1 .. NumHdrs : /\ i + 1 \in 1 .. NumHdrs + 1 /\ HdrLen(i) \in Nat /\ HdrLen(i) > 0
                               /\ HdrAt[i + 1] = HdrAt[i] + HdrLen(i)
<1>1. NumHdrs \in Nat /\ PageLen \in Nat /\ SndBuf \in Nat /\ HdrAt[1] = 1
    BY HttpAssumption
<1>2. ASSUME NEW i \in 1 .. NumHdrs + 1
      PROVE  HdrAt[i] \in Nat /\ HdrAt[i] >= 1 /\ HdrAt[i] <= HdrAt[NumHdrs + 1]
    <2>1. 1 \in 1 .. NumHdrs + 1 /\ NumHdrs + 1 \in 1 .. NumHdrs + 1
        BY <1>1
    <2>2. HdrAt[i] \in Nat /\ HdrAt[NumHdrs + 1] \in Nat
        BY <2>1, HttpAssumption
    <2>3. i = 1 \/ HdrAt[1] < HdrAt[i]
        BY <1>1, <2>1, HttpAssumption
    <2>4. i = NumHdrs + 1 \/ HdrAt[i] < HdrAt[NumHdrs + 1]
        BY <1>1, <2>1, HttpAssumption
    <2> QED BY <1>1, <2>2, <2>3, <2>4
<1>3. ASSUME NEW i \in 1 .. NumHdrs
      PROVE  /\ i + 1 \in 1 .. NumHdrs + 1 /\ HdrLen(i) \in Nat /\ HdrLen(i) > 0
             /\ HdrAt[i + 1] = HdrAt[i] + HdrLen(i)
    <2>1. i \in 1 .. NumHdrs + 1 /\ i + 1 \in 1 .. NumHdrs + 1 /\ i < i + 1
        BY <1>1
    <2>2. HdrAt[i] < HdrAt[i + 1]
        BY <2>1, HttpAssumption
    <2>3. HdrAt[i] \in Nat /\ HdrAt[i + 1] \in Nat
        BY <1>2, <2>1
    <2> QED BY <2>1, <2>2, <2>3 DEF HdrLen
<1> QED BY <1>1, <1>2, <1>3

\* What TCP takes of len units, in their order.
LEMMA TakenBound ==
    ASSUME NEW len \in Nat, NEW n \in Taken(len)
    PROVE  n \in Nat /\ n <= len
BY DEF Taken

LEMMA NumbersJoin ==
    ASSUME NEW s \in Seq(Nat), NEW n \in Nat
    PROVE  LET t == s \o Numbers(Len(s) + 1, n)
           IN  /\ t \in Seq(Nat) /\ Len(t) = Len(s) + n
               /\ s = Numbers(1, Len(s)) => t = Numbers(1, Len(t))
<1> DEFINE r == Numbers(Len(s) + 1, n)
<1> DEFINE t == s \o r
<1>1. Len(s) \in Nat
    OBVIOUS
<1>2. r \in Seq(Nat) /\ Len(r) = n
    <2>1. \A i \in 1 .. n : Len(s) + 1 + i - 1 \in Nat
        BY <1>1
    <2> QED BY <2>1 DEF Numbers
<1>3. \A i \in 1 .. n : r[i] = Len(s) + i
    BY <1>1 DEF Numbers
<1> HIDE DEF r
<1>4. t \in Seq(Nat) /\ Len(t) = Len(s) + n
    BY <1>1, <1>2
<1>5. ASSUME s = Numbers(1, Len(s)) PROVE t = Numbers(1, Len(t))
    <2>1. \A i \in 1 .. Len(t) : t[i] = i
        <3> TAKE i \in 1 .. Len(t)
        <3>1. CASE i <= Len(s)
            <4>1. t[i] = s[i] /\ i \in 1 .. Len(s)
                BY <1>1, <1>2, <1>4, <3>1
            <4> QED BY <1>1, <1>5, <4>1 DEF Numbers
        <3>2. CASE i > Len(s)
            <4>1. t[i] = r[i - Len(s)] /\ i - Len(s) \in 1 .. n
                BY <1>1, <1>2, <1>4, <3>2
            <4> QED BY <1>1, <1>3, <4>1
        <3> QED BY <1>1, <1>4, <3>1, <3>2
    <2> DEFINE u == Numbers(1, Len(t))
    <2>2. Len(t) \in Nat
        BY <1>4
    <2>3. u \in Seq(Nat) /\ Len(u) = Len(t)
        BY <2>2 DEF Numbers
    <2>4. \A i \in 1 .. Len(t) : u[i] = i
        BY <2>2 DEF Numbers
    <2> HIDE DEF t, u
    <2>5. t = u
        BY <1>4, <2>1, <2>3, <2>4, SeqEqual
    <2> QED BY <2>5 DEF u
<1> QED BY <1>4, <1>5 DEF r, t

-----------------------------------------------------------------------------
\* The answer so far is not touched.
LEMMA AnswerKept ==
    ASSUME SentInv, UNCHANGED <<hdr_index, hdr_pos, unsent, answer, again, out>>
    PROVE  SentInv'
BY DEF SentInv, Given

LEMMA InvInit == HttpInit => Inv
<1> SUFFICES ASSUME HttpInit PROVE Inv
    OBVIOUS
<1>1. HttpTypeOK
    <2>1. /\ hdr_index \in 1 .. NumHdrs + 1 /\ hdr_pos \in Nat /\ unsent \in 0 .. PageLen
          /\ retries \in 0 .. MaxRetries
        BY Bounds DEF HttpInit
    <2>2. unacked \in 0 .. SndBuf /\ requests \in 0 .. MaxRequests /\ silence \in Nat
        BY Bounds DEF HttpInit
    <2>3. out \in Seq(Nat)
        BY DEF HttpInit
    <2> QED BY <2>1, <2>2, <2>3 DEF HttpInit, HttpTypeOK
<1>2. SentInv
    <2>1. Numbers(1, 0) = <<>> /\ Len(out) = 0
        BY DEF HttpInit, Numbers
    <2> QED BY <2>1, Headers DEF HttpInit, SentInv, Given
<1>3. CallInv
    BY Bounds DEF HttpInit, CallInv, ClosedComplete
<1> QED BY <1>1, <1>2, <1>3 DEF Inv

\* The callbacks of lwIP, which do not send by themselves.
LEMMA RecvStep == ASSUME Inv, Recv PROVE Inv'
<1>0. HttpTypeOK /\ SentInv /\ CallInv
    BY DEF Inv
<1>1. CASE RecvIgnored
    <2>1. HttpTypeOK'
        BY <1>0, <1>1, Bounds DEF RecvIgnored, HttpTypeOK
    <2>2. SentInv'
        BY <1>0, <1>1, AnswerKept DEF RecvIgnored
    <2>3. CallInv'
        BY <1>0, <1>1 DEF RecvIgnored, CallInv, ClosedComplete, AnswerLen
    <2> QED BY <2>1, <2>2, <2>3 DEF Inv
<1>2. CASE RecvPage
    <2>1. HttpTypeOK'
        BY <1>0, <1>2, Bounds DEF RecvPage, HttpTypeOK
    <2>6. ~again' => ~again /\ answer = "none"
        BY <1>0, <1>2 DEF RecvPage, HttpTypeOK
    <2>2. CallInv'
        BY <1>0, <1>2, <2>6, Bounds DEF RecvPage, CallInv, ClosedComplete, HttpTypeOK
    <2>3. ~again' => Given = 0 /\ Given' = 0 /\ ~again
        BY <1>0, <1>2, <2>6, Headers, Bounds DEF RecvPage, Given, HttpTypeOK
    <2>4. SentInv'
        BY <1>0, <1>2, <2>3 DEF RecvPage, SentInv, HttpTypeOK
    <2> QED BY <2>1, <2>2, <2>4 DEF Inv
<1>3. CASE RecvMissing
    <2>1. HttpTypeOK'
        BY <1>0, <1>3, Bounds DEF RecvMissing, HttpTypeOK
    <2>6. ~again' => ~again /\ answer = "none"
        BY <1>0, <1>3 DEF RecvMissing, HttpTypeOK
    <2>2. CallInv'
        BY <1>0, <1>3, <2>6, Bounds DEF RecvMissing, CallInv, ClosedComplete, HttpTypeOK
    <2>3. ~again' => Given = 0 /\ Given' = 0 /\ ~again
        BY <1>0, <1>3, <2>6, Headers, Bounds DEF RecvMissing, Given, HttpTypeOK
    <2>4. 1 <= NumHdrs => 0 < HdrLen(1)
        BY Headers
    <2>5. SentInv'
        BY <1>0, <1>3, <2>3, <2>4 DEF RecvMissing, SentInv, HttpTypeOK
    <2> QED BY <2>1, <2>2, <2>5 DEF Inv
<1>4. CASE RecvBad \/ RecvClose
    <2>1. HttpTypeOK'
        <3>1. requests' \in 0 .. MaxRequests
            BY <1>0, <1>4, Bounds DEF RecvBad, RecvClose, HttpTypeOK
        <3> QED BY <1>0, <1>4, <3>1 DEF RecvBad, RecvClose, HttpCloseConn, StateFree, HttpTypeOK
    <2>2. SentInv'
        BY <1>0, <1>4, AnswerKept DEF RecvBad, RecvClose
    <2>3. CallInv'
        BY <1>0, <1>4 DEF RecvBad, RecvClose, HttpCloseConn, StateFree, CallInv, ClosedComplete
    <2> QED BY <2>1, <2>2, <2>3 DEF Inv
<1> QED BY <1>1, <1>2, <1>3, <1>4 DEF Recv

LEMMA TimerStep == ASSUME Inv, HttpErr \/ HttpSent \/ HttpPoll PROVE Inv'
<1>0. HttpTypeOK /\ SentInv /\ CallInv
    BY DEF Inv
<1>1. CASE HttpErr
    <2>1. HttpTypeOK'
        BY <1>0, <1>1 DEF HttpErr, StateFree, HttpTypeOK
    <2>2. SentInv'
        BY <1>0, <1>1, AnswerKept DEF HttpErr
    <2>3. CallInv'
        BY <1>0, <1>1 DEF HttpErr, StateFree, CallInv, ClosedComplete
    <2> QED BY <2>1, <2>2, <2>3 DEF Inv
<1>2. CASE HttpSent
    <2>1. HttpTypeOK'
        BY <1>0, <1>2, Bounds DEF HttpSent, HttpTypeOK
    <2>2. SentInv'
        BY <1>0, <1>2, AnswerKept DEF HttpSent
    <2>3. CallInv'
        BY <1>0, <1>2, Bounds DEF HttpSent, CallInv, ClosedComplete, HttpTypeOK, AnswerLen
    <2> QED BY <2>1, <2>2, <2>3 DEF Inv
<1>3. CASE PollGivesUp
    <2>1. HttpTypeOK'
        <3>1. retries' \in 0 .. MaxRetries /\ silence' \in Nat
            BY <1>0, <1>3, Bounds DEF PollGivesUp, HttpTypeOK
        <3> QED BY <1>0, <1>3, <3>1 DEF PollGivesUp, HttpCloseConn, StateFree, HttpTypeOK
    <2>2. SentInv'
        BY <1>0, <1>3, AnswerKept DEF PollGivesUp
    <2>3. silence' >= MaxRetries /\ retries' <= silence'
        BY <1>0, <1>3, Bounds DEF PollGivesUp, CallInv, HttpTypeOK
    <2>4. CallInv'
        BY <1>0, <1>3, <2>3 DEF PollGivesUp, HttpCloseConn, StateFree, CallInv, ClosedComplete
    <2> QED BY <2>1, <2>2, <2>4 DEF Inv
<1>4. CASE PollSends
    <2>1. HttpTypeOK'
        <3>1. retries' \in 0 .. MaxRetries
            BY <1>0, <1>4, Bounds DEF PollSends, CallInv, HttpTypeOK
        <3> QED BY <1>0, <1>4, <3>1 DEF PollSends, HttpTypeOK
    <2>2. SentInv'
        BY <1>0, <1>4, AnswerKept DEF PollSends
    <2>3. retries' <= silence' /\ retries' < MaxRetries
        BY <1>0, <1>4, Bounds DEF PollSends, CallInv, HttpTypeOK
    <2>4. CallInv'
        BY <1>0, <1>4, <2>3 DEF PollSends, CallInv, ClosedComplete
    <2> QED BY <2>1, <2>2, <2>4 DEF Inv
<1>5. CASE PollCloses
    <2>1. HttpTypeOK'
        BY <1>0, <1>5 DEF PollCloses, HttpTypeOK
    <2>2. SentInv'
        BY <1>0, <1>5, AnswerKept DEF PollCloses
    <2>3. CallInv'
        BY <1>0, <1>5 DEF PollCloses, CallInv, ClosedComplete, AnswerLen
    <2> QED BY <2>1, <2>2, <2>3 DEF Inv
<1> QED BY <1>1, <1>2, <1>3, <1>4, <1>5 DEF HttpPoll

-----------------------------------------------------------------------------
\* Giving TCP the n units that follow on what it was given.
LEMMA TcpTakesNext ==
    ASSUME HttpTypeOK, NEW len \in Nat, len <= tcp_sndbuf, NEW n \in Taken(len), NEW from \in Nat,
           TcpTakes(from, n)
    PROVE  /\ unacked' \in 0 .. SndBuf /\ out' \in Seq(Nat)
           /\ from = Len(out) + 1 =>
                 /\ Len(out') = Len(out) + n
                 /\ out = Numbers(1, Len(out)) => out' = Numbers(1, Len(out'))
<1>1. n \in Nat /\ n <= len
    BY TakenBound
<1>2. unacked' \in 0 .. SndBuf
    BY <1>1, Bounds DEF TcpTakes, tcp_sndbuf, HttpTypeOK
<1>3. Numbers(from, n) \in Seq(Nat)
    <2>1. \A i \in 1 .. n : from + i - 1 \in Nat
        OBVIOUS
    <2> QED BY <1>1, <2>1 DEF Numbers
<1>4. out' \in Seq(Nat)
    <2>1. out \in Seq(Nat) /\ out' = out \o Numbers(from, n)
        BY DEF TcpTakes, HttpTypeOK
    <2> HIDE DEF Numbers
    <2> QED BY <1>3, <2>1
<1>5. ASSUME from = Len(out) + 1
      PROVE  /\ Len(out') = Len(out) + n
             /\ out = Numbers(1, Len(out)) => out' = Numbers(1, Len(out'))
    <2>1. out \in Seq(Nat) /\ out' = out \o Numbers(Len(out) + 1, n)
        BY <1>5 DEF TcpTakes, HttpTypeOK
    <2> QED BY <1>1, <2>1, NumbersJoin
<1> QED BY <1>2, <1>4, <1>5

LEMMA HeaderStep == ASSUME Inv, SendHeader PROVE Inv'
<1> DEFINE rest == HdrLen(hdr_index) - hdr_pos
<1> DEFINE from == HdrAt[hdr_index] + hdr_pos
<1>0. HttpTypeOK /\ SentInv /\ CallInv
    BY DEF Inv
<1>1. /\ at = "sending" /\ conn = "open" /\ hdr_index \in 1 .. NumHdrs /\ hdr_index \in Nat
      /\ tcp_sndbuf \in Nat
      /\ UNCHANGED <<conn, handle, unsent, retries, requests, answer, again, silence, broken_off>>
    BY <1>0, Bounds DEF SendHeader, CallInv, HttpTypeOK, tcp_sndbuf
<1>2. /\ rest \in Nat /\ from \in Nat /\ HdrAt[hdr_index] \in Nat /\ hdr_pos \in Nat
      /\ HdrLen(hdr_index) \in Nat /\ HdrAt[hdr_index + 1] = HdrAt[hdr_index] + HdrLen(hdr_index)
    <2>1. /\ HdrAt[hdr_index] \in Nat /\ HdrLen(hdr_index) \in Nat
          /\ HdrAt[hdr_index + 1] = HdrAt[hdr_index] + HdrLen(hdr_index)
        BY <1>1, Headers
    <2>2. hdr_pos \in Nat /\ hdr_pos < HdrLen(hdr_index)
        BY <1>0, <1>1 DEF SentInv, HttpTypeOK
    <2> QED BY <2>1, <2>2
<1>3. PICK n \in Taken(Smaller(tcp_sndbuf, rest)) :
          /\ TcpTakes(from, n)
          /\ IF n = rest THEN hdr_index' = hdr_index + 1 /\ hdr_pos' = 0
                         ELSE hdr_index' = hdr_index /\ hdr_pos' = hdr_pos + n
          /\ at' \in {"idle", at}
    BY DEF SendHeader
<1>4. /\ Smaller(tcp_sndbuf, rest) \in Nat /\ Smaller(tcp_sndbuf, rest) <= tcp_sndbuf
      /\ Smaller(tcp_sndbuf, rest) <= rest
    BY <1>1, <1>2 DEF Smaller
<1>5. n \in Nat /\ n <= rest
    <2> HIDE DEF rest
    <2> QED BY <1>2, <1>4, TakenBound
<1>6. /\ unacked' \in 0 .. SndBuf /\ out' \in Seq(Nat)
      /\ from = Len(out) + 1 =>
            /\ Len(out') = Len(out) + n
            /\ out = Numbers(1, Len(out)) => out' = Numbers(1, Len(out'))
    <2> HIDE DEF rest, from
    <2> QED BY <1>0, <1>2, <1>3, <1>4, TcpTakesNext
<1>7. hdr_index' \in 1 .. NumHdrs + 1 /\ hdr_pos' \in Nat
    BY <1>1, <1>2, <1>3, <1>5, Bounds
<1>8. HttpTypeOK'
    BY <1>0, <1>1, <1>3, <1>6, <1>7 DEF HttpTypeOK
<1>9. CallInv'
    <2>1. answer # "none"
        BY <1>0, <1>1 DEF CallInv
    <2>2. again \/ answer = "missing"
        BY <1>0, <1>1, Bounds DEF CallInv
    <2> QED BY <1>0, <1>1, <1>3, <2>1, <2>2 DEF CallInv, ClosedComplete
<1>10. SentInv'
    <2>1. (hdr_index' <= NumHdrs => hdr_pos' < HdrLen(hdr_index')) /\ (hdr_index' = NumHdrs + 1 => hdr_pos' = 0)
        <3>1. CASE n = rest
            <4>1. hdr_index' <= NumHdrs => HdrLen(hdr_index') > 0
                BY <1>1, <1>7, Headers, Bounds
            <4> QED BY <1>1, <1>3, <3>1, <4>1
        <3>2. CASE n # rest
            BY <1>1, <1>2, <1>3, <1>5, <3>2, Bounds
        <3> QED BY <3>1, <3>2
    <2>2. CASE again
        BY <1>1, <2>1, <2>2 DEF SentInv
    <2>3. CASE ~again
        <3>1. answer = "missing" /\ Given = HdrAt[hdr_index] - 1 + hdr_pos /\ Len(out) = Given
            BY <1>0, <1>1, <2>3, Bounds DEF CallInv, SentInv, Given
        <3>2. from = Len(out) + 1
            BY <1>2, <3>1
        <3>3. Given' = Given + n
            <4>1. Given' = HdrAt[hdr_index'] - 1 + hdr_pos'
                BY <1>1, <3>1 DEF Given
            <4>2. CASE n = rest
                <5>1. hdr_index' = hdr_index + 1 /\ hdr_pos' = 0
                    BY <1>3, <4>2
                <5>2. Given' = HdrAt[hdr_index + 1] - 1 + 0
                    BY <4>1, <5>1
                <5>3. n = HdrLen(hdr_index) - hdr_pos
                    BY <4>2
                <5> HIDE DEF rest, from
                <5> QED BY <1>2, <3>1, <5>2, <5>3
            <4>3. CASE n # rest
                <5>1. hdr_index' = hdr_index /\ hdr_pos' = hdr_pos + n
                    BY <1>3, <4>3
                <5>2. Given' = HdrAt[hdr_index] - 1 + (hdr_pos + n)
                    BY <4>1, <5>1
                <5>3. n \in Int /\ hdr_pos \in Int /\ HdrAt[hdr_index] \in Int
                    BY <1>0, <1>2, <1>5, Bounds
                <5> HIDE DEF rest, from
                <5> QED BY <3>1, <5>2, <5>3
            <4> QED BY <4>2, <4>3
        <3> QED BY <1>0, <1>1, <1>6, <2>1, <2>3, <3>1, <3>2, <3>3 DEF SentInv
    <2> QED BY <2>2, <2>3
<1> QED BY <1>8, <1>9, <1>10 DEF Inv

LEMMA FileStep == ASSUME Inv, SendFile PROVE Inv'
<1> DEFINE len == Smaller(Smaller(tcp_sndbuf, unsent), 2 * Mss)
<1> DEFINE from == PageLen - unsent + 1
<1>0. HttpTypeOK /\ SentInv /\ CallInv
    BY DEF Inv
<1>1. /\ at = "sending" /\ conn = "open" /\ hdr_index > NumHdrs /\ hdr_index = NumHdrs + 1 /\ handle
      /\ UNCHANGED <<hdr_index, hdr_pos, retries, requests, answer, again, silence, broken_off>>
    BY <1>0, Bounds DEF SendFile, CallInv, HttpTypeOK
<1>2. unsent \in Nat /\ unsent <= PageLen /\ PageLen \in Nat /\ from \in Nat /\ tcp_sndbuf \in Nat
    BY <1>0, Bounds DEF HttpTypeOK, tcp_sndbuf
<1>3. PICK n \in Taken(len) :
          /\ TcpTakes(from, n)
          /\ unsent' = unsent - n
          /\ IF n = unsent THEN HttpCloseConn ELSE at' = "idle" /\ UNCHANGED <<conn, handle>>
    BY DEF SendFile
<1>4. len \in Nat /\ len <= tcp_sndbuf /\ len <= unsent
    BY <1>2, Bounds DEF Smaller
<1> HIDE DEF len
<1>5. n \in Nat /\ n <= unsent
    BY <1>2, <1>4, TakenBound
<1>6. /\ unacked' \in 0 .. SndBuf /\ out' \in Seq(Nat)
      /\ from = Len(out) + 1 =>
            /\ Len(out') = Len(out) + n
            /\ out = Numbers(1, Len(out)) => out' = Numbers(1, Len(out'))
    <2> HIDE DEF from
    <2> QED BY <1>0, <1>2, <1>3, <1>4, TcpTakesNext
<1>13. \/ n = unsent /\ HttpCloseConn
       \/ n # unsent /\ at' = "idle" /\ conn' = conn /\ handle' = handle
    BY <1>3
<1>14. unsent' \in 0 .. PageLen
    BY <1>2, <1>3, <1>5
<1>7. unsent' \in 0 .. PageLen /\ at' = "idle" /\ handle' \in BOOLEAN
      /\ conn' \in {"open", "closing", "closed"}
    BY <1>1, <1>13, <1>14 DEF HttpCloseConn, StateFree
<1>8. HttpTypeOK'
    BY <1>0, <1>1, <1>6, <1>7 DEF HttpTypeOK
<1>9. ~again => answer = "page" /\ Len(out) = PageLen - unsent /\ out = Numbers(1, Len(out))
    BY <1>0, <1>1 DEF CallInv, SentInv, Given, HttpTypeOK
<1>10. ~again => Len(out') = PageLen - unsent' /\ out' = Numbers(1, Len(out'))
    BY <1>2, <1>3, <1>5, <1>6, <1>9
<1>11. SentInv'
    BY <1>0, <1>1, <1>9, <1>10 DEF SentInv, Given
<1>12. CallInv'
    <2>1. answer # "none"
        BY <1>0, <1>1 DEF CallInv
    <2>2. conn' # "open" => unsent' = 0
        <3>1. n = unsent => unsent - n = 0
            BY <1>2
        <3> QED BY <1>1, <1>3, <1>13, <3>1
    <2>3. ClosedComplete'
        BY <1>1, <1>2, <1>7, <1>9, <1>10, <2>2 DEF ClosedComplete, AnswerLen
    <2>4. conn' = "open" => handle'
        BY <1>1, <1>13 DEF HttpCloseConn
    <2> QED BY <1>0, <1>1, <1>7, <1>9, <2>1, <2>3, <2>4 DEF CallInv
<1> QED BY <1>8, <1>11, <1>12 DEF Inv

LEMMA EndStep == ASSUME Inv, HeadersBlocked \/ SendEnd PROVE Inv'
<1>0. HttpTypeOK /\ SentInv /\ CallInv
    BY DEF Inv
<1>1. HttpTypeOK'
    BY <1>0 DEF HeadersBlocked, SendEnd, HttpCloseConn, StateFree, HttpTypeOK
<1>2. SentInv'
    BY <1>0, AnswerKept DEF HeadersBlocked, SendEnd
<1>3. CASE HeadersBlocked
    BY <1>0, <1>1, <1>2, <1>3 DEF HeadersBlocked, Inv, CallInv, ClosedComplete, AnswerLen
<1>4. CASE SendEnd
    <2>1. /\ at = "sending" /\ conn = "open" /\ hdr_index = NumHdrs + 1 /\ ~handle
          /\ answer # "none" /\ (~again => answer = "missing")
        BY <1>0, <1>4, Bounds DEF SendEnd, CallInv, HttpTypeOK
    <2>2. ~again => Len(out) = HdrAt[NumHdrs + 1] - 1
        <3>1. HdrAt[NumHdrs + 1] \in Nat
            BY Bounds, Headers
        <3> QED BY <1>0, <2>1, <3>1 DEF SentInv, Given
    <2>3. ClosedComplete'
        BY <1>4, <2>1, <2>2 DEF SendEnd, ClosedComplete, AnswerLen
    <2>4. CallInv'
        BY <1>0, <1>4, <2>1, <2>3 DEF SendEnd, HttpCloseConn, StateFree, CallInv
    <2> QED BY <1>1, <1>2, <2>4 DEF Inv
<1> QED BY <1>3, <1>4

LEMMA InvNext == Inv /\ [HttpNext]_httpVars => Inv'
<1> SUFFICES ASSUME Inv, [HttpNext]_httpVars PROVE Inv'
    OBVIOUS
<1>1. CASE UNCHANGED httpVars
    <2>1. HttpTypeOK'
        BY <1>1 DEF Inv, httpVars, HttpTypeOK
    <2>2. SentInv'
        BY <1>1, AnswerKept DEF Inv, httpVars
    <2>3. CallInv'
        BY <1>1 DEF Inv, httpVars, CallInv, ClosedComplete, AnswerLen
    <2> QED BY <2>1, <2>2, <2>3 DEF Inv
<1> QED BY <1>1, RecvStep, TimerStep, HeaderStep, FileStep, EndStep DEF HttpNext, HttpSendData

-----------------------------------------------------------------------------
\* THEOREM: the counters of a connection's state stay in range, what TCP has not been
\* acknowledged stays within its send buffer.
THEOREM TypeCorrect == HttpSpec => []HttpTypeOK
<1>1. Inv => HttpTypeOK
    BY DEF Inv
<1> QED BY <1>1, InvInit, InvNext, PTL DEF HttpSpec

\* THEOREM: however TCP cuts or refuses what http_send_data offers it, it is given the
\* answer in order, each unit once, and nothing more.
THEOREM AnswerInOrder == HttpSpec => []InOrderOnce
<1>1. Inv => InOrderOnce
    <2> SUFFICES ASSUME Inv, ~again PROVE Len(out) <= AnswerLen /\ out = Numbers(1, Len(out))
        BY DEF InOrderOnce
    <2>1. out = Numbers(1, Len(out)) /\ Len(out) = Given
        BY DEF Inv, SentInv
    <2>2. answer # "page" /\ answer # "missing" => Len(out) = 0
        BY <2>1 DEF Given
    <2>3. CASE answer = "page"
        BY <2>1, <2>3, Bounds DEF Given, AnswerLen, Inv, HttpTypeOK
    <2>4. CASE answer # "page"
        <3>1. /\ HdrAt[NumHdrs + 1] \in Nat /\ HdrAt[NumHdrs + 1] >= 1
              /\ HdrAt[hdr_index] \in Nat /\ HdrAt[hdr_index] <= HdrAt[NumHdrs + 1]
              /\ hdr_pos \in Nat /\ hdr_index \in Nat
            BY Bounds, Headers DEF Inv, HttpTypeOK
        <3>2. CASE answer = "missing" /\ hdr_index <= NumHdrs
            <4>1. /\ HdrLen(hdr_index) \in Nat /\ hdr_pos < HdrLen(hdr_index)
                  /\ HdrAt[hdr_index + 1] = HdrAt[hdr_index] + HdrLen(hdr_index)
                  /\ HdrAt[hdr_index + 1] <= HdrAt[NumHdrs + 1]
                BY <3>2, Bounds, Headers DEF Inv, SentInv, HttpTypeOK
            <4> QED BY <2>1, <3>1, <3>2, <4>1 DEF Given, AnswerLen
        <3>3. CASE answer = "missing" /\ hdr_index > NumHdrs
            <4>1. hdr_index = NumHdrs + 1 /\ hdr_pos = 0
                BY <3>3, Bounds DEF Inv, SentInv, HttpTypeOK
            <4> QED BY <2>1, <3>1, <3>3, <4>1 DEF Given, AnswerLen
        <3>4. CASE answer # "missing"
            BY <2>1, <2>2, <2>4, <3>1, <3>4 DEF AnswerLen
        <3>5. hdr_index <= NumHdrs \/ hdr_index > NumHdrs
            BY <3>1, Bounds
        <3> QED BY <3>2, <3>3, <3>4, <3>5
    <2> QED BY <2>1, <2>3, <2>4
<1> QED BY <1>1, InvInit, InvNext, PTL DEF HttpSpec

\* THEOREM: the server closes a connection only when TCP has the whole answer, or after
\* HTTPD_MAX_RETRIES polls without an acknowledgement (http_poll, http_send_data).
THEOREM ClosesWhenDone == HttpSpec => []ClosedComplete
<1>1. Inv => ClosedComplete
    BY DEF Inv, CallInv
<1> QED BY <1>1, InvInit, InvNext, PTL DEF HttpSpec
=============================================================================
