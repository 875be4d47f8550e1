------------------------------- MODULE Telnet -------------------------------
(***************************************************************************)
(* The telnet layer below the control connection (ftp/telnet.go), with the *)
(* replies that go through it and its exchange when AUTH TLS succeeds      *)
(* (ftp/conn.go).  The goroutine of serve reads, byte by byte; serve and   *)
(* the goroutines of transfers write replies under c.mu; both sides meet   *)
(* in the options that were asked for and are not answered yet.            *)
(***************************************************************************)
EXTENDS Naturals, Sequences, FiniteSets

CONSTANTS
    Chunks,     \* bound: what the client sends at a time, sequences of bytes
    MaxChunks,  \* bound: how often it sends
    Jobs,       \* bound: goroutines, each of which writes one reply
    MaxLines,   \* bound: lines of a reply
    Nobody

\* The bytes that are told apart; every other one stands for itself.
Newline == "LF"
Iac  == "IAC"
Sb   == "SB"
Se   == "SE"
Will == "WILL"
Do   == "DO"
Refusals == {"WONT", "DONT"}

Bytes == UNION {{chunk[i] : i \in DOMAIN chunk} : chunk \in Chunks}

Writers == Jobs \union {"serve"}

ASSUME TelnetAssumption ==
    /\ Chunks \subseteq Seq(STRING) /\ MaxChunks \in Nat
    /\ MaxLines \in Nat \ {0}
    /\ Jobs \intersect ({"serve"} \union Refusals) = {} /\ Nobody \notin Writers

VARIABLES
    chunks,     \* how often the client has sent something
    closed,     \* the client sends no more
    input,      \* auxiliary: all that was sent, since TLS if there is TLS
    wire,       \* sent and not received
    ahead,      \* c.r: received, not read
    mode,       \* where Read is
    buf,        \* what this call of Read has found
    text,       \* what earlier calls have returned
    srv,        \* the goroutine of serve
    willopt, doopt,     \* options to be refused
    cmu,        \* who holds c.mu
    pc,         \* where each writer is
    left,       \* the lines of its reply that are not written
    w,          \* c.w: written, not flushed
    out,        \* flushed
    broken      \* the error that c.w has met, and keeps

inVars  == << chunks, closed, input, wire >>
rdVars  == << ahead, mode, buf, text, srv >>
optVars == << willopt, doopt >>
wrVars  == << cmu, pc, left, w, out, broken >>
vars    == << inVars, rdVars, optVars, wrVars >>

-----------------------------------------------------------------------------
Modes == {"data", "iac", "will", "do", "refusal", "sb", "sbdata", "sbiac"}
Pcs   == {"idle", "write", "reset", "put", "flush", "freset", "send", "end"}

TypeOK ==
    /\ chunks \in 0 .. MaxChunks /\ closed \in BOOLEAN /\ broken \in BOOLEAN
    /\ mode \in Modes
    /\ srv \in {"read", "exec", "reply", "auth", "handshake", "over"}
    /\ cmu \in Writers \union {Nobody}
    /\ pc \in [Writers -> Pcs]
    /\ left \in [Writers -> 0 .. MaxLines]
    /\ \A x \in Writers : left[x] > 0 => cmu = x
    /\ Newline \notin {buf[i] : i \in 1 .. Len(buf)}

Init ==
    /\ chunks = 0 /\ closed = FALSE
    /\ input = << >> /\ wire = << >> /\ ahead = << >>
    /\ mode = "data" /\ buf = << >> /\ text = << >> /\ srv = "read"
    /\ willopt = << >> /\ doopt = << >>
    /\ cmu = Nobody
    /\ pc = [x \in Writers |-> "idle"] /\ left = [x \in Writers |-> 0]
    /\ w = << >> /\ out = << >> /\ broken = FALSE

-----------------------------------------------------------------------------
(* The client *)

Send(chunk) ==
    /\ ~closed /\ chunks < MaxChunks
    /\ chunks' = chunks + 1
    /\ input' = input \o chunk
    /\ wire'  = wire \o chunk
    /\ UNCHANGED << closed, rdVars, optVars, wrVars >>

HangUp ==
    /\ ~closed
    /\ closed' = TRUE
    /\ UNCHANGED << chunks, input, wire, rdVars, optVars, wrVars >>

-----------------------------------------------------------------------------
(* Read *)

\* ReadByte: b comes from the buffer, which takes all there is when it is empty.
ReadByte(b) ==
    /\ srv = "read"
    /\ IF ahead # << >>
         THEN b = Head(ahead) /\ ahead' = Tail(ahead) /\ UNCHANGED wire
         ELSE wire # << >> /\ b = Head(wire) /\ ahead' = Tail(wire) /\ wire' = << >>
    /\ UNCHANGED << chunks, closed, input, wrVars >>

\* Faulty variant: Read goes on behind the end of a line.
KeepOn(b) == buf' = Append(buf, b) /\ UNCHANGED << text, srv >>

\* A byte of the text.  Read returns at the end of a line, and Scan has a line
\* then.  (That it also returns when the scanner's buffer is full makes no
\* difference: Scan calls it again.)
Keep(b) ==
    IF b = Newline
      THEN text' = text \o Append(buf, b) /\ buf' = << >> /\ srv' = "exec"
      ELSE buf' = Append(buf, b) /\ UNCHANGED << text, srv >>

ReadData(b) ==
    /\ mode = "data" /\ ReadByte(b)
    /\ IF b = Iac THEN mode' = "iac" /\ UNCHANGED << buf, text, srv >>
                  ELSE Keep(b) /\ UNCHANGED mode
    /\ UNCHANGED optVars

\* The byte after IAC.
ReadCode(b) ==
    /\ mode = "iac" /\ ReadByte(b)
    /\ mode' = IF b = Sb THEN "sb" ELSE IF b = Will THEN "will"
               ELSE IF b = Do THEN "do" ELSE IF b \in Refusals THEN "refusal" ELSE "data"
    /\ buf' = IF b = Iac THEN Append(buf, b) ELSE buf
    /\ UNCHANGED << text, srv, optVars >>

\* c.mu of the telnet layer: a writer holds it from its copy of the options
\* until it has reset them.
Locked == \E x \in Writers : pc[x] \in {"reset", "freset"}

\* Faulty variant: the options are appended without the lock.
ReadOptionUnlocked(b) ==
    /\ mode \in {"will", "do"} /\ ReadByte(b)
    /\ willopt' = IF mode = "will" THEN Append(willopt, b) ELSE willopt
    /\ doopt'   = IF mode = "do"   THEN Append(doopt, b)   ELSE doopt
    /\ mode' = "data"
    /\ UNCHANGED << buf, text, srv >>

\* readWillOption and readDoOption.
ReadOption(b) ==
    /\ mode \in {"will", "do"} /\ ReadByte(b)
    /\ ~Locked
    /\ willopt' = IF mode = "will" THEN Append(willopt, b) ELSE willopt
    /\ doopt'   = IF mode = "do"   THEN Append(doopt, b)   ELSE doopt
    /\ mode' = "data"
    /\ UNCHANGED << buf, text, srv >>

ReadRefusal(b) ==
    /\ mode = "refusal" /\ ReadByte(b)
    /\ mode' = "data"
    /\ UNCHANGED << buf, text, srv, optVars >>

\* ignoreSubnegotiation; the byte after IAC resets foundIac in any case.
ReadSubnegotiation(b) ==
    /\ mode \in {"sb", "sbdata", "sbiac"} /\ ReadByte(b)
    /\ mode' = IF mode = "sbdata" /\ b = Iac     THEN "sbiac"
               ELSE IF mode = "sbiac" /\ b = Se THEN "data" ELSE "sbdata"
    /\ UNCHANGED << buf, text, srv, optVars >>

\* The connection ends.  What was read of the last line is its text, and Scan
\* takes it for a line; it is lost if the end comes right after IAC, or with
\* another error.
ReadEnd ==
    /\ srv = "read" /\ ahead = << >>
    /\ (closed /\ wire = << >>) \/ broken
    /\ \/ /\ mode # "iac" /\ text' = text \o buf /\ buf' = << >>
          /\ srv' = IF buf = << >> THEN "over" ELSE "exec"
       \/ (mode = "iac" \/ broken) /\ srv' = "over" /\ UNCHANGED << text, buf >>
    /\ UNCHANGED << inVars, ahead, mode, optVars, wrVars >>

-----------------------------------------------------------------------------
(* Replies *)

Goto(x, from, to) == pc[x] = from /\ pc' = [pc EXCEPT ![x] = to]

\* Faulty variant: nobody waits for c.mu.
ReplyUnlocked(x, n) ==
    /\ Goto(x, "idle", "write")
    /\ cmu' = x
    /\ left' = [left EXCEPT ![x] = n]
    /\ UNCHANGED << inVars, optVars, w, out, broken >>

\* WriteReply with n lines.
Reply(x, n) ==
    /\ Goto(x, "idle", "write")
    /\ cmu = Nobody /\ cmu' = x
    /\ left' = [left EXCEPT ![x] = n]
    /\ UNCHANGED << inVars, optVars, w, out, broken >>

JobReply(j, n) == Reply(j, n) /\ UNCHANGED rdVars

\* A job writes one reply; serve reads on.
Over(x) == IF x = "serve" THEN "idle" ELSE "end"

\* The reply ends.
Release(x) ==
    /\ pc'   = [pc EXCEPT ![x] = Over(x)]
    /\ left' = [left EXCEPT ![x] = 0]
    /\ cmu'  = Nobody
    /\ UNCHANGED << inVars, rdVars, optVars >>

\* writeOption, at the beginning of Write and Flush: the refusals go out ...
Answers == [i \in 1 .. Len(willopt) |-> << "WONT", willopt[i] >>]
           \o [i \in 1 .. Len(doopt) |-> << "DONT", doopt[i] >>]

WriteOption(x) ==
    /\ pc[x] \in {"write", "flush"}
    /\ IF broken /\ Answers # << >>
         THEN Release(x) /\ UNCHANGED << w, out, broken >>
         ELSE /\ pc' = [pc EXCEPT ![x] = IF @ = "write" THEN "reset" ELSE "freset"]
              /\ w' = w \o Answers
              /\ UNCHANGED << inVars, rdVars, optVars, cmu, left, out, broken >>

\* ... and the options are forgotten.
ResetOption(x) ==
    /\ Goto(x, "reset", "put") \/ Goto(x, "freset", "send")
    /\ willopt' = << >> /\ doopt' = << >>
    /\ UNCHANGED << inVars, rdVars, cmu, left, w, out, broken >>

\* A line of the reply; the last one has 0 behind it.
PutLine(x) ==
    /\ pc[x] = "put"
    /\ IF broken THEN Release(x) /\ UNCHANGED << w, out, broken >>
       ELSE /\ w' = Append(w, << x, left[x] - 1 >>)
            /\ left' = [left EXCEPT ![x] = @ - 1]
            /\ pc' = [pc EXCEPT ![x] = IF left[x] = 1 THEN "flush" ELSE "write"]
            /\ UNCHANGED << inVars, rdVars, optVars, cmu, out, broken >>

Flush(x) ==
    /\ pc[x] = "send"
    /\ Release(x)
    /\ \/ ~broken /\ out' = out \o w /\ w' = << >> /\ UNCHANGED broken
       \/ broken' = TRUE /\ UNCHANGED << out, w >>

-----------------------------------------------------------------------------
(* serve *)

SrvGoto(from, to) == srv = from /\ srv' = to

\* A command and its reply; that of AUTH TLS has one line.
Exec(n) ==
    /\ srv = "exec"
    /\ srv' = "reply" \/ (n = 1 /\ srv' = "auth")
    /\ Reply("serve", n)
    /\ UNCHANGED << ahead, mode, buf, text >>

\* After its reply serve reads the next line ...
NextLine ==
    /\ SrvGoto("reply", "read") /\ pc["serve"] = "idle"
    /\ UNCHANGED << inVars, ahead, mode, buf, text, optVars, wrVars >>

\* ... or upgrades the connection, with c.mu until the handshake is over.
Handshake ==
    /\ SrvGoto("auth", "handshake") /\ pc["serve"] = "idle"
    /\ cmu = Nobody /\ cmu' = "serve"
    /\ UNCHANGED << inVars, ahead, mode, buf, text, optVars, pc, left, w, out, broken >>

\* Faulty variant: what was read ahead in the clear is kept.
NewReaderKeeps == UNCHANGED ahead

\* newDumbTelnetConn and NewScanner begin with empty buffers.
NewReader == ahead' = << >>

\* Anything in the clear that is still to be received breaks the handshake.
HandshakeOk ==
    /\ SrvGoto("handshake", "read")
    /\ wire = << >> /\ ~closed /\ ~broken
    /\ NewReader
    /\ input' = << >> /\ text' = << >> /\ buf' = << >> /\ mode' = "data"
    /\ willopt' = << >> /\ doopt' = << >> /\ w' = << >> /\ out' = << >>
    /\ cmu' = Nobody
    /\ UNCHANGED << chunks, closed, wire, pc, left, broken >>

\* A handshake that fails has taken something from the connection, and serve
\* goes on as before.
HandshakeFails ==
    /\ SrvGoto("handshake", "read")
    /\ \E n \in 0 .. Len(wire) :
          /\ wire'  = SubSeq(wire, n + 1, Len(wire))
          /\ input' = SubSeq(input, 1, Len(input) - Len(wire)) \o wire'
    /\ cmu' = Nobody
    /\ UNCHANGED << chunks, closed, ahead, mode, buf, text, optVars, pc, left, w, out, broken >>

-----------------------------------------------------------------------------
Read(b) == ReadData(b) \/ ReadCode(b) \/ ReadOption(b) \/ ReadRefusal(b) \/ ReadSubnegotiation(b)

Serve == \/ \E n \in 1 .. MaxLines : Exec(n)
         \/ NextLine \/ Handshake \/ HandshakeOk \/ HandshakeFails

Write(x) == WriteOption(x) \/ ResetOption(x) \/ PutLine(x) \/ Flush(x)

Terminated ==
    /\ srv = "over" /\ closed /\ \A j \in Jobs : pc[j] = "end"
    /\ UNCHANGED vars

Next ==
    \/ \E chunk \in Chunks : Send(chunk)
    \/ HangUp
    \/ \E b \in Bytes : Read(b)
    \/ ReadEnd
    \/ Serve
    \/ \E x \in Writers : Write(x)
    \/ \E j \in Jobs, n \in 1 .. MaxLines : JobReply(j, n)
    \/ Terminated

Spec == Init /\ [][Next]_vars

-----------------------------------------------------------------------------
(* What a stream of bytes means (RFC 854, RFC 855) *)

\* Whether the positions from a to e hold IACs, and all of them that end at e
\* and begin at i or later.
Run(s, i, a, e) ==
    /\ \A k \in a .. e : s[k] = Iac
    /\ a = i \/ s[a - 1] # Iac

OddRun(s, i, e) == \E n \in 0 .. Len(s) : e - 2 * n >= i /\ Run(s, i, e - 2 * n, e)

\* Where a subnegotiation with data from i on ends: after the first SE that
\* follows an odd number of IACs, the others being pairs.
Ends(s, i) == {e \in i .. Len(s) - 1 : s[e + 1] = Se /\ OddRun(s, i, e)}

BehindSub(s, i) ==
    IF Ends(s, i) = {} THEN Len(s) + 1
    ELSE 2 + (CHOOSE e \in Ends(s, i) : \A f \in Ends(s, i) : e <= f)

\* The position behind the item that starts at i.
Behind(s, i) ==
    IF s[i] # Iac \/ i = Len(s)              THEN i + 1
    ELSE IF s[i + 1] \in {Will, Do} \union Refusals THEN i + 3
    ELSE IF s[i + 1] = Sb                    THEN BehindSub(s, i + 3)
    ELSE                                          i + 2

\* The item that starts at i, if it is of this kind and means something: a
\* byte of the text, or an option that is asked for.
ItemAt(s, i, kind) ==
    IF s[i] # Iac
      THEN IF kind = "text" THEN << s[i] >> ELSE << >>
    ELSE IF i < Len(s) /\ s[i + 1] = Iac
      THEN IF kind = "text" THEN << Iac >> ELSE << >>
    ELSE IF i + 1 < Len(s) /\ s[i + 1] \in {Will, Do} /\ s[i + 1] = kind
      THEN << s[i + 2] >>
    ELSE << >>

\* All of them, in their order: the text of s, or what it asks for.
ItemsFrom(s, kind) ==
    LET from[i \in Nat \ {0}] ==
          IF i > Len(s) THEN << >>
          ELSE ItemAt(s, i, kind) \o from[Behind(s, i)]
    IN  from

Items(s, kind) == ItemsFrom(s, kind)[1]

\* The entries of a sequence of pairs whose first half is one of kinds.
SelectedUpTo(items, kinds) ==
    LET upto[i \in 0 .. Len(items)] ==
          IF i = 0 THEN << >>
          ELSE IF items[i][1] \in kinds THEN Append(upto[i - 1], items[i])
          ELSE upto[i - 1]
    IN  upto

Select(items, kinds) == SelectedUpTo(items, kinds)[Len(items)]

\* The options in the refusals of this kind.
Refused(items, kind) ==
    LET those == Select(items, {kind})
    IN  [i \in 1 .. Len(those) |-> those[i][2]]

-----------------------------------------------------------------------------
(* Properties *)

Seen == SubSeq(input, 1, Len(input) - Len(ahead) - Len(wire))

\* The scanner gets the text of what was read, and of nothing else: commands of
\* the telnet protocol leave no trace in it, wherever they are and however the
\* stream is cut, and after AUTH TLS there is nothing in it that was sent in
\* the clear.
Decoded ==
    /\ input = Seen \o ahead \o wire
    /\ text \o buf = Items(Seen, "text")

\* The options that no refusal stands for yet: while c.mu of the telnet layer is
\* held, they have been written and not been reset.
Pending(opts) == IF Locked THEN << >> ELSE opts

\* Each request is refused once, in the order of the requests, although one
\* goroutine notes them and others answer: in what was written, and what is
\* still to be, there are as many refusals as there were requests.  (WILL is
\* answered with WONT and DO with DONT, the other way round than in RFC 854.)
Answered ==
    /\ Refused(out \o w, "WONT") \o Pending(willopt) = Items(Seen, Will)
    /\ Refused(out \o w, "DONT") \o Pending(doopt)   = Items(Seen, Do)

\* The lines of a reply stay together: after a line that is not the last one
\* of its reply comes the next one of the same reply, but for refusals.
RepliesWhole ==
    LET lines == Select(out \o w, Writers)
    IN  \A i \in 1 .. Len(lines) - 1 :
           lines[i][2] > 0 => lines[i + 1] = << lines[i][1], lines[i][2] - 1 >>
=============================================================================
