------------------------------ MODULE SocketIO ------------------------------
(***************************************************************************)
(* The socket calls of fastdfs/common/sockopt.c, made one after the other  *)
(* on a connection to a peer that sends Stream, closes or resets it when   *)
(* it likes.  A unit of the stream stands for one read of a character in   *)
(* tcpgets and for eight bytes elsewhere: the length field at the end of a *)
(* file of unknown size is one unit.  A system call may fail; errno is     *)
(* reduced to what the callers tell apart.                                 *)
(***************************************************************************)
EXTENDS Integers, SequencesExt

CONSTANTS Stream,      \* what the peer sends
          FileData,    \* the file that tcpsendfile_ex sends
          Sizes,       \* lengths the caller asks for
          BuffSize,    \* FDFS_WRITE_BUFF_SIZE
          None,
          MaxCalls     \* bound: calls in a history

CR == 13
LF == 10
Length(n) == 100 + n       \* a length field, as long2buff writes it
Infinite  == 1000          \* INFINITE_FILE_SIZE, more than ever arrives

SocketAssumption == /\ Sizes \subseteq 1..Infinite - 1 /\ BuffSize \in Nat \ {0}
                    /\ Len(Stream) < Infinite

VARIABLES peer, coming, in,   \* the peer: open, closed or reset; unsent; unread
          out,                \* what this side has sent
          sock,               \* none, listening, created, connected, accepted
          nonblock,           \* O_NONBLOCK of the connection
          disk,               \* the received file, or None
          fds,                \* open descriptors
          leaked,             \* descriptors that no variable holds any more
          call, calls

link == <<peer, coming>>
vars == <<link, in, out, sock, nonblock, disk, fds, leaked, call, calls>>

Idle == [op |-> "none", at |-> "done", nb |-> FALSE, size |-> 0, left |-> 0,
         buf |-> <<>>, data |-> <<>>, code |-> "ok", from |-> 0, was |-> FALSE,
         stuck |-> FALSE, held |-> 0]

Init ==
    /\ peer = "open" /\ coming = Stream /\ in = <<>> /\ out = <<>>
    /\ sock = "none" /\ nonblock \in BOOLEAN
    /\ disk = None /\ fds = 0 /\ leaked = 0
    /\ call = Idle /\ calls = 0

Connected == sock \in {"connected", "accepted"}

Consumed == Len(Stream) - Len(coming) - Len(in)

Arrive == /\ peer = "open" /\ Connected /\ coming # <<>>
          /\ in' = Append(in, Head(coming)) /\ coming' = Tail(coming)
          /\ UNCHANGED <<peer, out, sock, nonblock, disk, fds, leaked, call, calls>>

PeerEnds == /\ peer = "open" /\ Connected
            /\ peer' \in {"closed", "reset"}
            /\ UNCHANGED <<coming, in, out, sock, nonblock, disk, fds, leaked, call,
                           calls>>

-----------------------------------------------------------------------------
Begin(op, size) ==
    /\ call.at = "done" /\ calls < MaxCalls
    /\ calls' = calls + 1
    /\ call' = [Idle EXCEPT !.op = op, !.at = "start", !.size = size, !.left = size,
                            !.nb = nonblock, !.from = Consumed,
                            !.was = nonblock, !.held = Len(out)]
    /\ UNCHANGED <<link, in, out, sock, nonblock, disk, fds, leaked>>

Done(c, code) == [c EXCEPT !.at = "done", !.code = code]
Returns(code) == call' = Done(call, code)

(* The mode of the socket is put back, by an fcntl that may fail: nobody    *)
(* looks at that, and the mode stays as the call has set it (stuck).        *)
RestoreMode(c) ==
    \/ nonblock' = call.was /\ call' = c
    \/ nonblock # call.was /\ UNCHANGED nonblock /\ call' = [c EXCEPT !.stuck = TRUE]

(* socketServer: socket, setsockopt, socketBind and listen, each of which   *)
(* may fail and closes the socket.                                          *)
socketServer ==
    /\ call.op = "server" /\ call.at = "start"
    /\ \/ Returns("ok") /\ sock' = "listening" /\ fds' = fds + 1
       \/ Returns("EINVAL") /\ UNCHANGED <<sock, fds>>
    /\ UNCHANGED <<link, in, out, nonblock, disk, leaked, calls>>

(* nbaccept, on a server socket that stays open. *)
nbaccept ==
    /\ call.op = "accept" /\ call.at = "start"
    /\ \/ Returns("ok") /\ sock' = "accepted" /\ fds' = fds + 1
       \/ \E code \in {"ETIMEDOUT", "EINTR"} : Returns(code) /\ UNCHANGED <<sock, fds>>
    /\ UNCHANGED <<link, in, out, nonblock, disk, leaked, calls>>

(* connectserverbyip_nb_ex and connectserverbyunxdomain_nb_ex with          *)
(* auto_detect: O_NONBLOCK is set for the time of the call ...              *)
ConnectStart ==
    /\ call.op = "connect" /\ call.at = "start"
    /\ \/ Returns("EACCES") /\ UNCHANGED nonblock        \* or EINVAL
       \/ /\ nonblock' = TRUE
          /\ call' = [call EXCEPT !.at = "connect"]
    /\ UNCHANGED <<link, in, out, sock, disk, fds, leaked, calls>>

\* Mutant: an error returns at once.
ConnectEndsEarly ==
    /\ call.op = "connect" /\ call.at = "connect"
    /\ \/ Returns("ok") /\ sock' = "connected" /\ nonblock' = call.was
       \/ \E code \in {"ETIMEDOUT", "EINTR"} : Returns(code) /\ UNCHANGED <<sock, nonblock>>
    /\ UNCHANGED <<link, in, out, disk, fds, leaked, calls>>

(* ... and put back whether connect, poll or SO_ERROR failed or not. *)
ConnectEnds ==
    /\ call.op = "connect" /\ call.at = "connect"
    /\ \/ RestoreMode(Done(call, "ok")) /\ sock' = "connected"
       \/ \E code \in {"ETIMEDOUT", "EINTR"} :
             RestoreMode(Done(call, code)) /\ UNCHANGED sock
    /\ UNCHANGED <<link, in, out, disk, fds, leaked, calls>>

-----------------------------------------------------------------------------
(* The loop of tcprecvdata_ex, which polls first, and tcprecvdata_nb_ex,    *)
(* which reads first: some units ...                                        *)
Smaller(i, j) == IF i < j THEN i ELSE j

RecvSome ==
    /\ call.at = "recv" /\ call.left > 0
    /\ peer # "reset" \/ call.nb
    /\ \E n \in 1..Smaller(call.left, Len(in)) :
          /\ call' = [call EXCEPT !.buf = @ \o SubSeq(in, 1, n), !.left = @ - n]
          /\ in' = SubSeq(in, n + 1, Len(in))
    /\ UNCHANGED <<link, out, sock, nonblock, disk, fds, leaked, calls>>

(* ... until the size is reached, the time is over, the peer has closed (the *)
(* polling loop gives up unread units when it sees POLLHUP) or a call fails. *)
RecvCodes ==
    {"EINTR"}
    \cup (IF call.left = 0 THEN {"ok"} ELSE {})
    \cup (IF in = <<>> /\ peer = "open" THEN {"ETIMEDOUT"} ELSE {})
    \cup (IF (peer # "open" /\ in = <<>>) \/ (peer = "reset" /\ ~call.nb)
          THEN {"ENOTCONN"} ELSE {})

RecvEnds ==
    /\ call.at = "recv"
    /\ \E code \in IF call.left = 0 THEN {"ok"} ELSE RecvCodes \ {"ok"} :
          call' = [call EXCEPT !.at = "received", !.code = code]
    /\ UNCHANGED <<link, in, out, sock, nonblock, disk, fds, leaked, calls>>

Ask(c, n) == [c EXCEPT !.at = "recv", !.buf = <<>>, !.left = n]

(* tcprecvdata_ex and tcprecvdata_nb_ex: data and *count. *)
RecvStart == /\ call.op = "recv" /\ call.at = "start"
             /\ call' = Ask(call, call.size)
             /\ UNCHANGED <<link, in, out, sock, nonblock, disk, fds, leaked, calls>>

RecvReturns == /\ call.op = "recv" /\ call.at = "received"
               /\ call' = [call EXCEPT !.at = "done", !.data = call.buf]
               /\ UNCHANGED <<link, in, out, sock, nonblock, disk, fds, leaked, calls>>

(* tcpdiscard: by chunks; *total_recv_bytes counts also what a failing      *)
(* chunk has read.                                                          *)
DiscardChunk ==
    LET done == [call EXCEPT !.data = @ \o call.buf] IN
    /\ call.op = "discard" /\ call.at \in {"start", "received"}
    /\ call' = IF call.code # "ok" \/ Len(done.data) = call.size
               THEN [done EXCEPT !.at = "done"]
               ELSE Ask(done, Smaller(call.size - Len(done.data), BuffSize))
    /\ UNCHANGED <<link, in, out, sock, nonblock, disk, fds, leaked, calls>>

(* tcpgets: character by character, no CR, up to and with the first LF, at  *)
(* most size - 1 of them; when a read fails the text so far stays.          *)
\* Mutant: the place for the final 0 is not kept.
GetsFullLate(text) == Len(text) >= call.size
GetsFull(text) == Len(text) >= call.size - 1

GetsChar ==
    LET text == IF call.buf = <<CR>> THEN call.data ELSE call.data \o call.buf IN
    /\ call.op = "gets" /\ call.at \in {"start", "received"}
    /\ call' = IF call.code # "ok" THEN [call EXCEPT !.at = "done"]
               ELSE IF call.buf = <<LF>> \/ GetsFull(text)
               THEN [call EXCEPT !.at = "done", !.data = text]
               ELSE Ask([call EXCEPT !.data = text], 1)
    /\ UNCHANGED <<link, in, out, sock, nonblock, disk, fds, leaked, calls>>

-----------------------------------------------------------------------------
(* tcprecvfile and, for a known size, tcprecvfile_ex. *)
FileOpen ==
    /\ call.op = "file" /\ call.at = "start"
    /\ \/ Returns("EACCES") /\ UNCHANGED <<disk, fds>>
       \/ /\ disk' = <<>> /\ fds' = fds + 1
          /\ call' = Ask(call, Smaller(call.size, BuffSize))
    /\ UNCHANGED <<link, in, out, sock, nonblock, leaked, calls>>

(* close(write_fd) and unlink(filename) *)
Discard(code) == /\ Returns(code)
                 /\ disk' = None
                 /\ fds' = fds - 1

(* A chunk is written, unless the read has failed and the size is known; a  *)
(* failing write or fsync removes the file.                                 *)
FileChunk ==
    LET all == disk \o call.buf IN
    /\ call.op = "file" /\ call.at = "received"
    /\ \/ call.code # "ok" /\ call.size # Infinite /\ Discard(call.code)
       \/ (call.code = "ok" \/ call.size = Infinite) /\ call.buf # <<>> /\ Discard("EIO")
       \/ /\ call.code = "ok" \/ call.size = Infinite
          /\ disk' = all
          /\ \/ /\ call.code # "ok"
                /\ call' = [call EXCEPT !.at = "trailer"]
                /\ UNCHANGED fds
             \/ /\ call.code = "ok" /\ Len(all) < call.size
                /\ call' = Ask(call, Smaller(call.size - Len(all), BuffSize))
                /\ UNCHANGED fds
             \/ /\ call.code = "ok" /\ Len(all) = call.size
                /\ Returns("ok") /\ fds' = fds - 1
    /\ UNCHANGED <<link, in, out, sock, nonblock, leaked, calls>>

\* Mutant: the length field counts itself.
TrailerMatchesWhole == Last(disk) = Length(Len(disk))
TrailerMatches == Last(disk) = Length(Len(disk) - 1)

(* The sender has stopped: the last eight bytes say how long the file is.   *)
(* When the file cannot be opened again it stays, and so does write_fd.     *)
FileTrailer ==
    /\ call.op = "file" /\ call.at = "trailer"
    /\ \/ disk = <<>> /\ Discard(call.code) /\ UNCHANGED leaked
       \/ disk # <<>> /\ Returns("EACCES") /\ leaked' = leaked + 1 /\ UNCHANGED <<disk, fds>>
       \/ disk # <<>> /\ Discard("EIO") /\ UNCHANGED leaked
       \/ disk # <<>> /\ ~TrailerMatches /\ Discard("EINVAL") /\ UNCHANGED leaked
       \/ /\ disk # <<>> /\ TrailerMatches
          /\ disk' = Front(disk) /\ fds' = fds - 1 /\ Returns("ok")
          /\ UNCHANGED leaked
    /\ UNCHANGED <<link, in, out, sock, nonblock, calls>>

-----------------------------------------------------------------------------
(* The loop of tcpsenddata and tcpsenddata_nb. *)
SendSome ==
    /\ call.at = "send" /\ call.left > 0 /\ peer # "reset"
    /\ \E n \in 1..Smaller(call.left, Len(call.buf)) :
          /\ out' = out \o SubSeq(call.buf, 1, n)
          /\ call' = [call EXCEPT !.buf = SubSeq(@, n + 1, Len(@)), !.left = @ - n]
    /\ UNCHANGED <<link, in, sock, nonblock, disk, fds, leaked, calls>>

SendStart == /\ call.op = "send" /\ call.at = "start"
             /\ call' = [call EXCEPT !.at = "send", !.buf = FileData,
                                     !.left = Smaller(call.size, Len(FileData)),
                                     !.size = Smaller(call.size, Len(FileData))]
             /\ UNCHANGED <<link, in, out, sock, nonblock, disk, fds, leaked, calls>>

SendEnds == /\ call.op = "send" /\ call.at = "send"
            /\ \E code \in IF call.left = 0 THEN {"ok"}
                           ELSE {"EINTR", "ETIMEDOUT", "ENOTCONN"} : Returns(code)
            /\ UNCHANGED <<link, in, out, sock, nonblock, disk, fds, leaked, calls>>

(* tcpsendfile_ex, as it is built without OS_LINUX: the file is opened and  *)
(* the socket set to block; when fcntl fails the file stays open ...        *)
SendfileStart ==
    /\ call.op = "sendfile" /\ call.at = "start"
    /\ \/ Returns("EACCES") /\ UNCHANGED <<nonblock, fds, leaked>>
       \/ Returns("EACCES") /\ fds' = fds + 1 /\ leaked' = leaked + 1 /\ UNCHANGED nonblock
       \/ /\ nonblock' = FALSE /\ fds' = fds + 1
          /\ call' = [call EXCEPT !.at = "restore"]
          /\ UNCHANGED leaked
    /\ UNCHANGED <<link, in, out, sock, disk, calls>>

(* ... and at once to what it was ... *)
SendfileRestore ==
    /\ call.op = "sendfile" /\ call.at = "restore"
    /\ RestoreMode([call EXCEPT !.at = "chunk"])
    /\ UNCHANGED <<link, in, out, sock, disk, fds, leaked, calls>>

(* ... and a chunk after the other is read, unless lseek or read fails or   *)
(* the file is shorter than that, and sent.                                 *)
SendfileChunk ==
    LET n     == Smaller(call.size - Len(call.data), BuffSize)
        chunk == SubSeq(FileData, Len(call.data) + 1, Smaller(Len(call.data) + n, Len(FileData)))
    IN
    /\ call.op = "sendfile" /\ call.at = "chunk"
    /\ \/ n = 0 /\ Returns("ok") /\ fds' = fds - 1
       \/ n > 0 /\ Returns("EIO") /\ fds' = fds - 1
       \/ /\ n > 0 /\ Len(chunk) = n
          /\ call' = [call EXCEPT !.at = "send", !.buf = chunk, !.left = n]
          /\ UNCHANGED fds
    /\ UNCHANGED <<link, in, out, sock, nonblock, disk, leaked, calls>>

(* *total_send_bytes, the length of data, counts the chunks that were sent  *)
(* to their end.                                                            *)
SendfileSent ==
    /\ call.op = "sendfile" /\ call.at = "send"
    /\ \/ /\ call.left = 0
          /\ call' = [call EXCEPT !.at = "chunk", !.data = SubSeq(out, call.held + 1, Len(out))]
          /\ UNCHANGED fds
       \/ /\ call.left > 0
          /\ \E code \in {"EINTR", "ETIMEDOUT", "ENOTCONN"} : Returns(code)
          /\ fds' = fds - 1
    /\ UNCHANGED <<link, in, out, sock, nonblock, disk, leaked, calls>>

-----------------------------------------------------------------------------
(* A client creates its socket, a server gets one from accept. *)
Create == /\ call.at = "done" /\ sock = "none"
          /\ sock' = "created" /\ fds' = fds + 1
          /\ UNCHANGED <<link, in, out, nonblock, disk, leaked, call, calls>>

BeginAny ==
    \/ sock = "none" /\ Begin("server", 0)
    \/ sock = "listening" /\ Begin("accept", 0)
    \/ sock = "created" /\ Begin("connect", 0)
    \/ Connected /\ \E size \in Sizes : \E op \in {"recv", "gets", "discard",
                                   "file", "send", "sendfile"} : Begin(op, size)
    \/ Connected /\ Begin("file", Infinite)

Next ==
    \/ Arrive \/ PeerEnds \/ Create \/ BeginAny
    \/ socketServer \/ nbaccept \/ ConnectStart \/ ConnectEnds
    \/ RecvSome \/ RecvEnds \/ RecvStart \/ RecvReturns \/ DiscardChunk \/ GetsChar
    \/ FileOpen \/ FileChunk \/ FileTrailer
    \/ SendSome \/ SendStart \/ SendEnds
    \/ SendfileStart \/ SendfileRestore \/ SendfileChunk \/ SendfileSent

Spec == Init /\ [][Next]_vars

-----------------------------------------------------------------------------
Over(op) == call.at = "done" /\ call.op = op
Taken    == SubSeq(Stream, call.from + 1, Consumed)

(* A receiving call takes from the stream exactly what it reports, also     *)
(* when it fails half way, so that the next call goes on behind it; with    *)
(* code 0 it has all it asked for.  A line fits its array with the final 0, *)
(* and what precedes a failing read of it is left there.                    *)
CountExact ==
    /\ (Over("recv") \/ Over("discard")) =>
           /\ call.data = Taken
           /\ call.code = "ok" <=> Len(call.data) = call.size
    /\ Over("gets") =>
           /\ Len(call.data) < call.size
           /\ call.data = SelectSeq(Taken, LAMBDA ch : ch # CR)
           /\ call.code = "ok" => \/ call.data # <<>> /\ Last(call.data) = LF
                                 \/ Len(call.data) = call.size - 1

(* tcprecvfile leaves a whole file and code 0, or no file (unless the file  *)
(* could not be opened): a known size is reached, an unknown one agrees     *)
(* with the length that the sender put behind the file, which is cut off.   *)
FileWhole ==
    Over("file") =>
        IF call.code = "ok"
        THEN IF call.size = Infinite THEN Taken = Append(disk, Length(Len(disk)))
             ELSE disk = Taken /\ Len(disk) = call.size
        ELSE disk = None \/ call.code = "EACCES"

(* When a call is over the connection blocks, or not, as it did before,     *)
(* unless putting that back has failed; a sender has sent a prefix (all of  *)
(* it with code 0), and tcpsendfile_ex reports no more than that; and the   *)
(* descriptors in use are the sockets and those that early returns forgot   *)
(* to close.                                                                *)
SocketRestored ==
    call.at = "done" =>
        /\ nonblock = call.was \/ call.op = "none" \/ call.stuck
        /\ call.op \in {"send", "sendfile"} =>
              /\ out = SubSeq(out, 1, call.held)
                         \o SubSeq(FileData, 1, Len(out) - call.held)
              /\ Len(call.data) <= Len(out) - call.held
              /\ call.code = "ok" => Len(out) - call.held = call.size
        /\ fds = leaked + (CASE sock = "none" -> 0 [] sock = "accepted" -> 2
                             [] OTHER -> 1)
=============================================================================
