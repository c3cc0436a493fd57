------------------------------ MODULE FdPassing ------------------------------
(* send_err, send_fd and recv_fd: text, a zero byte and a code byte, with a   *)
(* descriptor attached when the code is zero, over a stream socket that keeps *)
(* no boundaries between the writes except after a descriptor.                *)
EXTENDS Integers, FiniteSets, Sequences

CONSTANTS Fds, NoFd,
          BufLen,   \* MAXLINE
          Bytes,    \* how many values a byte has
          MaxText,  \* bound: longest text written at once
          MaxUnread,\* bound: bytes in the socket
          MaxSent   \* bound: messages sent

ASSUME FdAssumption ==
  /\ NoFd \notin Fds \cup Int /\ \A fd \in Fds : fd \notin Int
  /\ BufLen \in Nat \ {0} /\ Bytes \in Nat \ {0, 1}
  /\ MaxText \in Nat /\ MaxUnread \in Nat /\ MaxSent \in Nat

VARIABLES
  wire,   \* bytes written and not read
  code,   \* what send_err has still to send after its text; 0 for nothing
  closed, \* the sending end is closed
  rx,     \* the receiver: idle, in recv_fd, exited, or dead after err_dump
  sent,   \* history: the answers sent: descriptors and negative codes
  got,    \* history: what recv_fd returned, with the number of its message
  lost,   \* history: messages whose answer went with a failure of userfunc
  risky   \* history: something was written that recv_fd may abort on

fdVars == <<wire, code, closed, rx, sent, got, lost, risky>>

\* message numbers the zero bytes that were sent before a code; it is 0 for other bytes.
Byte(val, fd, message) == [val |-> val, fd |-> fd, message |-> message]
Text(n) == [i \in 1..n |-> Byte(1, NoFd, 0)]

FdInit ==
  /\ wire = <<>> /\ code = 0 /\ closed = FALSE /\ rx = "idle"
  /\ sent = <<>> /\ got = <<>> /\ lost = {} /\ risky = FALSE

-----------------------------------------------------------------------------
(* The sender *)

\* A read can join what is written now with an error message before it.
Joinable == \E i \in DOMAIN wire : wire[i].message > 0 /\ wire[i + 1].fd = NoFd

\* The text at the end of the socket leaves room in recv_fd's buffer for one byte more.
FillsButOne ==
  Cardinality({i \in DOMAIN wire : \A j \in i..Len(wire) : wire[j].val # 0}) % BufLen = BufLen - 1

\* sendmsg of two bytes.
SendTwo(answer, val, fd) ==
  /\ Len(sent) < MaxSent
  /\ wire' = wire \o <<Byte(0, NoFd, Len(sent) + 1), Byte(val, fd, 0)>>
  /\ sent' = Append(sent, answer)
  /\ risky' = (risky \/ Joinable \/ FillsButOne \/ (val = 0 /\ fd = NoFd))

CanSend == ~closed /\ code = 0

\* send_err, first part: write the text, if there is any.
WriteText ==
  /\ CanSend
  /\ \E n \in 0..MaxText, err \in -(Bytes + 1)..0 :
       /\ Len(wire) + n <= MaxUnread
       /\ wire' = wire \o Text(n)
       /\ code' = IF err = 0 THEN -1 ELSE err
       /\ risky' = (risky \/ (n > 0 /\ Joinable))
  /\ UNCHANGED <<closed, rx, sent, got, lost>>

\* The code in one char: buf[1] = -sending_fd; the fault takes it as it is.
WideCode(err) == -err
CodeByte(err) == (-err) % Bytes
SendCode ==
  /\ code # 0
  /\ SendTwo(code, CodeByte(code), NoFd)
  /\ code' = 0
  /\ UNCHANGED <<closed, rx, got, lost>>

\* send_fd of a descriptor.
SendFd ==
  /\ CanSend
  /\ \E fd \in Fds : SendTwo(fd, 0, fd)
  /\ UNCHANGED <<code, closed, rx, got, lost>>

\* write or sendmsg fails: the text stays without a code.
SendFails == code # 0 /\ code' = 0 /\ UNCHANGED <<wire, closed, rx, sent, got, lost, risky>>

Close == closed' = TRUE /\ UNCHANGED <<wire, code, rx, sent, got, lost, risky>>

-----------------------------------------------------------------------------
(* The receiver *)

CallRecv ==
  /\ rx = "idle" /\ rx' = "recv"
  /\ UNCHANGED <<wire, code, closed, sent, got, lost, risky>>

\* recvmsg fills max bytes with what there is, and stops behind a descriptor; the fault
\* has a buffer one byte shorter.
ChunkIn(max) ==
  CHOOSE n \in 1..Len(wire) :
    /\ n = max \/ n = Len(wire) \/ wire[n].fd # NoFd
    /\ n <= max
    /\ \A i \in 1..n - 1 : wire[i].fd = NoFd
ShortChunkLen == ChunkIn(BufLen - 1)
ChunkLen == ChunkIn(BufLen)

\* Whether the zero byte at z of n bytes has one byte behind it; the fault takes any.
HasSomeCode(z, n) == z < n
HasCode(z, n) == z = n - 1

\* One round of recv_fd: the bytes before the zero go to userfunc, again for each of
\* them, then what is behind it decides.
Receive ==
  LET n == ChunkLen
      chunk == SubSeq(wire, 1, n)
      zeros == {i \in 1..n : chunk[i].val = 0}
      z == CHOOSE i \in zeros : \A j \in zeros : i <= j
      answer == IF chunk[z + 1].val = 0 THEN chunk[z + 1].fd ELSE -chunk[z + 1].val
      wellFormed == IF HasCode(z, n) THEN answer # NoFd ELSE FALSE
      abandoned == {chunk[i].message : i \in 1..n} \ {0}
  IN
  /\ rx = "recv" /\ wire # <<>>
  /\ wire' = SubSeq(wire, n + 1, Len(wire))
  /\ \/ \* userfunc fails: recv_fd returns -1
        /\ chunk[1].val # 0
        /\ rx' = "idle" /\ lost' = lost \cup abandoned /\ UNCHANGED got
     \/ \* no zero byte: read on
        zeros = {} /\ UNCHANGED <<rx, lost, got>>
     \/ \* message format violation, or code zero without a descriptor
        /\ zeros # {} /\ ~wellFormed
        /\ rx' = "dead" /\ UNCHANGED <<lost, got>>
     \/ \* the descriptor or the negative code is returned
        /\ zeros # {} /\ wellFormed
        /\ got' = Append(got, [message |-> chunk[z].message, answer |-> answer])
        /\ rx' = "idle" /\ UNCHANGED lost
  /\ UNCHANGED <<code, closed, sent, risky>>

\* malloc fails, or recvmsg, which ends the process.
RecvFails ==
  /\ rx = "recv" /\ rx' \in {"idle", "exited"}
  /\ UNCHANGED <<wire, code, closed, sent, got, lost, risky>>

\* recvmsg returns 0.
EndOfFile ==
  /\ rx = "recv" /\ wire = <<>> /\ closed
  /\ rx' = "idle"
  /\ UNCHANGED <<wire, code, closed, sent, got, lost, risky>>

FdNext ==
  \/ WriteText \/ SendCode \/ SendFd \/ SendFails \/ Close
  \/ CallRecv \/ Receive \/ RecvFails \/ EndOfFile

FdSpec == FdInit /\ [][FdNext]_fdVars

-----------------------------------------------------------------------------
(* What must hold. *)

\* Type invariant.
FdTypeOK ==
  /\ \A i \in DOMAIN wire :
       wire[i].val \in 0..Bytes - 1 /\ wire[i].fd \in Fds \cup {NoFd} /\ wire[i].message \in 0..MaxSent
  /\ code \in -(Bytes + 1)..0 /\ closed \in BOOLEAN /\ risky \in BOOLEAN
  /\ rx \in {"idle", "recv", "dead", "exited"}
  /\ lost \subseteq 1..Len(sent)

\* With codes from -255 to -1 recv_fd returns the descriptors and codes in the order they
\* were sent, each once, and when all is read it has left none out but those whose
\* userfunc failed, however the stream is cut.
AnswersAsSent ==
  (\A m \in DOMAIN sent : sent[m] \in Fds \/ sent[m] > -Bytes) =>
    LET Upto(k) == IF k = 0 THEN 0 ELSE got[k].message IN
    /\ \A k \in DOMAIN got :
         /\ got[k].message > Upto(k - 1) /\ got[k].answer = sent[got[k].message]
         /\ Upto(k - 1) + 1..got[k].message - 1 \subseteq lost
    /\ wire = <<>> /\ rx = "idle" => Upto(Len(got)) + 1..Len(sent) \subseteq lost

\* recv_fd aborts only when messages were written behind an unread error, when text
\* filled its buffer but for one byte, or for a code that is no byte.
AbortsOnlyIfRisky == rx = "dead" => risky
=============================================================================
