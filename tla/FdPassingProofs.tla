--------------------------- MODULE FdPassingProofs ---------------------------
(* That recv_fd returns what send_err and send_fd sent, and aborts for no     *)
(* other reasons than the risky writes, however the stream is cut.            *)
EXTENDS FdPassing, SequenceTheorems, FiniteSetTheorems, WellFoundedInduction, TLAPS

SentByte == [val : 0..Bytes - 1, fd : Fds \cup {NoFd}, message : Nat]
Answers == Fds \cup Int

Typed ==
  /\ wire \in Seq(SentByte)
  /\ sent \in Seq(Answers) /\ Len(sent) <= MaxSent
  /\ got \in Seq([message : Nat, answer : Answers])
  /\ lost \subseteq 1..Len(sent)
  /\ code \in -(Bytes + 1)..0 /\ closed \in BOOLEAN /\ risky \in BOOLEAN
  /\ rx \in {"idle", "recv", "dead", "exited"}

\* The code byte that goes with an answer.
Carries(byte, answer) ==
  \/ answer \in Fds /\ byte.fd = answer /\ byte.val = 0
  \/ answer \in Int /\ answer < 0 /\ byte.fd = NoFd /\ byte.val = CodeByte(answer)

\* A numbered zero byte has its code byte behind it, and a descriptor comes with no other
\* byte; only the first byte of the socket may have lost the byte before it.
Paired(w, s) ==
  \A i \in 1..Len(w) :
    /\ w[i].message > 0 =>
         /\ w[i].val = 0 /\ w[i].fd = NoFd /\ w[i].message <= Len(s)
         /\ i < Len(w) /\ w[i + 1].message = 0 /\ Carries(w[i + 1], s[w[i].message])
    /\ w[i].fd # NoFd => w[i].val = 0 /\ (i > 1 => w[i - 1].message > 0)

\* Messages are in the socket in the order they were sent.
InOrder(w) ==
  \A i, j \in 1..Len(w) :
    i < j /\ w[i].message > 0 /\ w[j].message > 0 => w[i].message < w[j].message

\* A zero byte is the first of a message or comes with a descriptor.
ZerosMean(w) == \A i \in 1..Len(w) : w[i].val = 0 => w[i].message > 0 \/ w[i].fd # NoFd

-----------------------------------------------------------------------------
(* What recv_fd has returned, when the codes are those a byte can hold. *)

CodesFit(s) == \A m \in DOMAIN s : s[m] \in Fds \/ s[m] > -Bytes

Upto(g, k) == IF k = 0 THEN 0 ELSE g[k].message

\* What was returned was sent, in this order, and what was left out is lost.
Answered(g, s, l) ==
  \A k \in 1..Len(g) :
    /\ g[k].message > Upto(g, k - 1) /\ g[k].message <= Len(s)
    /\ g[k].answer = s[g[k].message]
    /\ Upto(g, k - 1) + 1..g[k].message - 1 \subseteq l

\* What is in the socket is newer than what was returned.
Ahead(w, g) == \A i \in 1..Len(w) : w[i].message > 0 => w[i].message > Upto(g, Len(g))

\* What is newer than what was returned is in the socket or lost.
Accounted(w, g, s, l) ==
  \A m \in Upto(g, Len(g)) + 1..Len(s) : m \in l \/ \E i \in 1..Len(w) : w[i].message = m

InTurn ==
  /\ ZerosMean(wire) /\ Answered(got, sent, lost) /\ Ahead(wire, got)
  /\ rx # "dead" => Accounted(wire, got, sent, lost)

-----------------------------------------------------------------------------
(* The socket as long as no risky write was made. *)

\* A descriptor still has its zero byte, and only the last message may have none.
Whole(w) ==
  \A i \in 1..Len(w) :
    /\ w[i].fd # NoFd => i > 1
    /\ w[i].message > 0 => w[i + 1].fd # NoFd \/ i + 1 = Len(w)

\* The text before a message, from the start of a read on, leaves room for its two bytes.
RoomLeft(w) ==
  \A i \in 1..Len(w), j \in 0..Len(w) :
    /\ w[i].message > 0 /\ j < i
    /\ j = 0 \/ w[j].fd # NoFd
    /\ \A k \in j + 1..i - 1 : w[k].val # 0
    => (i - 1 - j) % BufLen # BufLen - 1

Unrisked == rx # "dead" /\ ZerosMean(wire) /\ Whole(wire) /\ RoomLeft(wire)

FdIInv ==
  /\ Typed /\ Paired(wire, sent) /\ InOrder(wire)
  /\ CodesFit(sent) => InTurn
  /\ ~risky => Unrisked

-----------------------------------------------------------------------------
(* Arithmetic. *)

\* A byte holds the remainder of a code, and a small code as it is.
LEMMA CodeByteFits ==
  /\ \A err \in -(Bytes + 1)..-1 : CodeByte(err) \in 0..Bytes - 1
  /\ \A err \in -(Bytes - 1)..-1 : CodeByte(err) = -err /\ CodeByte(err) # 0
<1>1. \A a \in Nat : a % Bytes \in 0..Bytes - 1
  BY FdAssumption
<1>2. \A a \in 1..Bytes - 1 : a % Bytes = a
  BY FdAssumption
<1>3. \A err \in -(Bytes + 1)..-1 : -err \in Nat
  BY FdAssumption
<1>4. \A err \in -(Bytes - 1)..-1 : -err \in 1..Bytes - 1
  BY FdAssumption
<1> QED BY <1>1, <1>2, <1>3, <1>4, FdAssumption DEF CodeByte

\* A buffer more does not change what is left over.
LEMMA BufferMore == \A a \in Nat : (a + BufLen) % BufLen = a % BufLen
<1> SUFFICES ASSUME NEW a \in Nat
             PROVE  (a + BufLen) % BufLen = a % BufLen
  OBVIOUS
<1> USE FdAssumption
<1>1. a = (BufLen * (a \div BufLen)) + (a % BufLen)
  OBVIOUS
<1>2. a + BufLen = (BufLen * ((a + BufLen) \div BufLen)) + ((a + BufLen) % BufLen)
  OBVIOUS
<1>3. (a + BufLen) \div BufLen = (a \div BufLen) + 1 /\ a \div BufLen \in Nat
  OBVIOUS
<1>4. BufLen * ((a \div BufLen) + 1) = (BufLen * (a \div BufLen)) + BufLen
  BY <1>3
<1>5. a % BufLen \in Nat /\ (a + BufLen) % BufLen \in Nat /\ BufLen * (a \div BufLen) \in Nat
  BY <1>3
<1> QED BY <1>1, <1>2, <1>3, <1>4, <1>5

\* A buffer that is full but for one byte.
LEMMA FullButOne == (BufLen - 1) % BufLen = BufLen - 1
BY FdAssumption

\* A set of numbers has a least one.
LEMMA Least ==
  ASSUME NEW S \in SUBSET Nat, S # {}
  PROVE  \E n \in S : \A m \in S : n <= m
<1>1. IsWellFoundedOn(OpToRel(<, Nat), Nat)
  BY NatLessThanWellFounded
<1>2. PICK n \in S : \A m \in Nat : <<m, n>> \in OpToRel(<, Nat) => m \notin S
  BY <1>1, WFMin
<1>3. \A m \in Nat : m < n => m \notin S
  BY <1>2 DEF OpToRel
<1> QED BY <1>3

-----------------------------------------------------------------------------
(* One round of recv_fd. *)

\* What recvmsg returns: n bytes.
Cut(n) ==
  /\ n \in 1..Len(wire) /\ n <= BufLen
  /\ n = BufLen \/ n = Len(wire) \/ wire[n].fd # NoFd
  /\ \A i \in 1..n - 1 : wire[i].fd = NoFd

FirstZero(z, n) == z \in 1..n /\ wire[z].val = 0 /\ \A i \in 1..z - 1 : wire[i].val # 0

Answer(z) == IF wire[z + 1].val = 0 THEN wire[z + 1].fd ELSE -wire[z + 1].val

UserfuncFails(n) ==
  /\ wire[1].val # 0 /\ rx' = "idle" /\ got' = got
  /\ lost' = lost \cup ({wire[i].message : i \in 1..n} \ {0})
ReadsOn(n) == (\A i \in 1..n : wire[i].val # 0) /\ UNCHANGED <<rx, lost, got>>
Aborts(z, n) ==
  /\ FirstZero(z, n) /\ (z = n - 1 => Answer(z) = NoFd)
  /\ rx' = "dead" /\ UNCHANGED <<lost, got>>
Returns(z, n) ==
  /\ FirstZero(z, n) /\ z = n - 1 /\ Answer(z) # NoFd
  /\ got' = Append(got, [message |-> wire[z].message, answer |-> Answer(z)])
  /\ rx' = "idle" /\ lost' = lost

\* recvmsg finds an end for its chunk.
LEMMA ChunkIsCut ==
  ASSUME wire \in Seq(SentByte), wire # <<>>
  PROVE  Cut(ChunkLen)
<1>1. Len(wire) \in Nat \ {0}
  BY EmptySeq
<1> DEFINE stops == {n \in 1..Len(wire) : n = BufLen \/ n = Len(wire) \/ wire[n].fd # NoFd}
<1>2. stops \in SUBSET Nat /\ Len(wire) \in stops
  BY <1>1
<1>3. PICK n \in stops : \A m \in stops : n <= m
  <2> HIDE DEF stops
  <2> QED BY <1>2, Least
<1>4. n <= BufLen
  BY <1>1, <1>3, FdAssumption
<1>5. \A i \in 1..n - 1 : wire[i].fd = NoFd
  BY <1>1, <1>3
<1>6. n \in 1..Len(wire) /\ (n = BufLen \/ n = Len(wire) \/ wire[n].fd # NoFd)
  BY <1>3
<1> HIDE DEF stops
<1> QED BY <1>4, <1>5, <1>6 DEF ChunkLen, ChunkIn, Cut

\* What is left after n bytes, byte by byte.
LEMMA RestFacts ==
  ASSUME NEW w \in Seq(SentByte), NEW n \in 1..Len(w)
  PROVE  /\ SubSeq(w, n + 1, Len(w)) \in Seq(SentByte)
         /\ Len(SubSeq(w, n + 1, Len(w))) = Len(w) - n
         /\ \A i \in 1..Len(w) - n : SubSeq(w, n + 1, Len(w))[i] = w[i + n]
<1>1. Len(w) \in Nat /\ n \in Nat
  BY LenProperties
<1>2. \A i \in n + 1..Len(w) : w[i] \in SentByte
  BY <1>1, ElementOfSeq
<1>3. /\ SubSeq(w, n + 1, Len(w)) \in Seq(SentByte)
      /\ Len(SubSeq(w, n + 1, Len(w))) = IF n + 1 <= Len(w) THEN Len(w) - (n + 1) + 1 ELSE 0
      /\ \A i \in 1..Len(w) - (n + 1) + 1 : SubSeq(w, n + 1, Len(w))[i] = w[n + 1 + i - 1]
  BY <1>1, <1>2, SubSeqProperties
<1> QED BY <1>1, <1>3

\* A round of recv_fd takes a chunk and ends in one of four ways.
LEMMA ReceiveFacts ==
  ASSUME Typed, Receive
  PROVE  \E n \in 1..Len(wire) :
           /\ rx = "recv" /\ Cut(n) /\ wire' = SubSeq(wire, n + 1, Len(wire))
           /\ UNCHANGED <<code, closed, sent, risky>>
           /\ \/ UserfuncFails(n)
              \/ ReadsOn(n)
              \/ \E z \in 1..n : Aborts(z, n) \/ Returns(z, n)
<1> DEFINE n == ChunkLen
           chunk == SubSeq(wire, 1, n)
           zeros == {i \in 1..n : chunk[i].val = 0}
           z == CHOOSE i \in zeros : \A j \in zeros : i <= j
           answer == IF chunk[z + 1].val = 0 THEN chunk[z + 1].fd ELSE -chunk[z + 1].val
           wellFormed == IF HasCode(z, n) THEN answer # NoFd ELSE FALSE
           abandoned == {chunk[i].message : i \in 1..n} \ {0}
<1>1. /\ rx = "recv" /\ wire # <<>>
      /\ wire' = SubSeq(wire, n + 1, Len(wire))
      /\ UNCHANGED <<code, closed, sent, risky>>
      /\ \/ /\ chunk[1].val # 0
            /\ rx' = "idle" /\ lost' = lost \cup abandoned /\ UNCHANGED got
         \/ zeros = {} /\ UNCHANGED <<rx, lost, got>>
         \/ /\ zeros # {} /\ ~wellFormed
            /\ rx' = "dead" /\ UNCHANGED <<lost, got>>
         \/ /\ zeros # {} /\ wellFormed
            /\ got' = Append(got, [message |-> chunk[z].message, answer |-> answer])
            /\ rx' = "idle" /\ UNCHANGED lost
  BY DEF Receive
<1>2. Cut(n)
  BY <1>1, ChunkIsCut DEF Typed
<1>3. n \in 1..Len(wire) /\ n \in Nat
  BY <1>2, LenProperties DEF Cut, Typed
<1> HIDE DEF n
<1>4. \A i \in 1..n : chunk[i] = wire[i]
  <2>1. \A i \in 1..n : wire[i] \in SentByte
    BY <1>3, ElementOfSeq, LenProperties DEF Typed
  <2>2. \A i \in 1..n - 1 + 1 : chunk[i] = wire[1 + i - 1]
    BY <1>3, <2>1, SubSeqProperties
  <2> QED BY <1>3, <2>2
<1> HIDE DEF chunk
<1>5. CASE chunk[1].val # 0 /\ rx' = "idle" /\ lost' = lost \cup abandoned /\ UNCHANGED got
  <2>1. abandoned = {wire[i].message : i \in 1..n} \ {0}
    BY <1>4
  <2>2. UserfuncFails(n)
    BY <1>3, <1>4, <1>5, <2>1 DEF UserfuncFails
  <2> QED BY <1>1, <1>2, <1>3, <2>2
<1>6. CASE zeros = {} /\ UNCHANGED <<rx, lost, got>>
  <2>1. ReadsOn(n)
    BY <1>4, <1>6 DEF ReadsOn
  <2> QED BY <1>1, <1>2, <1>3, <2>1
<1>7. ASSUME zeros # {}
      PROVE  z \in 1..n /\ FirstZero(z, n) /\ chunk[z] = wire[z]
  <2>1. zeros \in SUBSET Nat
    OBVIOUS
  <2>2. \E i \in zeros : \A j \in zeros : i <= j
    <3> HIDE DEF zeros
    <3> QED BY <1>7, <2>1, Least
  <2>3. z \in zeros /\ \A j \in zeros : z <= j
    <3> HIDE DEF zeros
    <3> QED BY <2>2
  <2> HIDE DEF z
  <2> QED BY <1>3, <1>4, <2>3 DEF FirstZero
<1> HIDE DEF z
<1>8. ASSUME z \in 1..n, z = n - 1
      PROVE  answer = Answer(z)
  BY <1>3, <1>4, <1>8 DEF Answer
<1>9. CASE zeros # {} /\ ~wellFormed /\ rx' = "dead" /\ UNCHANGED <<lost, got>>
  <2>1. Aborts(z, n)
    BY <1>7, <1>8, <1>9 DEF Aborts, HasCode
  <2> QED BY <1>1, <1>2, <1>3, <1>7, <1>9, <2>1
<1>10. CASE /\ zeros # {} /\ wellFormed
            /\ got' = Append(got, [message |-> chunk[z].message, answer |-> answer])
            /\ rx' = "idle" /\ UNCHANGED lost
  <2>1. Returns(z, n)
    BY <1>7, <1>8, <1>10 DEF Returns, HasCode
  <2> QED BY <1>1, <1>2, <1>3, <1>7, <1>10, <2>1
<1> QED BY <1>1, <1>5, <1>6, <1>9, <1>10

\* What is left after a chunk keeps its pairs and its order.
LEMMA RestKeeps ==
  ASSUME NEW w \in Seq(SentByte), NEW n \in 1..Len(w), NEW s, NEW r,
         r = SubSeq(w, n + 1, Len(w))
  PROVE  /\ Paired(w, s) => Paired(r, s)
         /\ InOrder(w) => InOrder(r)
         /\ ZerosMean(w) => ZerosMean(r)
         /\ \A g : Ahead(w, g) => Ahead(r, g)
<1>1. /\ r \in Seq(SentByte) /\ Len(r) = Len(w) - n
      /\ \A i \in 1..Len(r) : r[i] = w[i + n]
  BY RestFacts
<1>2. Len(w) \in Nat /\ n \in Nat /\ Len(r) \in Nat
  BY <1>1, LenProperties
<1>3. \A i \in 1..Len(r) : i + n \in 1..Len(w) /\ (i < Len(r) <=> i + n < Len(w))
  <2> DEFINE l == Len(w)
             k == Len(r)
  <2>1. l \in Nat /\ k \in Nat /\ n \in Nat /\ k = l - n
    BY <1>1, <1>2
  <2> HIDE DEF l, k
  <2>2. \A i \in 1..k : i + n \in 1..l /\ (i < k <=> i + n < l)
    BY <2>1
  <2> QED BY <2>2 DEF l, k
<1>4. \A i \in 1..Len(r) : i < Len(r) => r[i + 1] = w[(i + n) + 1]
  <2>1. \A i \in 1..Len(r) : i < Len(r) => i + 1 \in 1..Len(r) /\ (i + 1) + n = (i + n) + 1
    BY <1>2
  <2> QED BY <1>1, <2>1
<1>5. \A i \in 1..Len(r) : i > 1 => r[i - 1] = w[(i + n) - 1] /\ i + n > 1
  <2>1. \A i \in 1..Len(r) :
          i > 1 => i - 1 \in 1..Len(r) /\ (i - 1) + n = (i + n) - 1 /\ i + n > 1
    BY <1>2
  <2> QED BY <1>1, <2>1
<1>6. ASSUME Paired(w, s)
      PROVE  Paired(r, s)
  <2>1. ASSUME NEW i \in 1..Len(r), r[i].message > 0
        PROVE  /\ r[i].val = 0 /\ r[i].fd = NoFd /\ r[i].message <= Len(s)
               /\ i < Len(r) /\ r[i + 1].message = 0 /\ Carries(r[i + 1], s[r[i].message])
    <3>1. r[i] = w[i + n] /\ i + n \in 1..Len(w)
      BY <1>1, <1>3
    <3>2. i + n < Len(w)
      BY <1>6, <2>1, <3>1 DEF Paired
    <3>3. i < Len(r) /\ r[i + 1] = w[(i + n) + 1]
      BY <1>3, <1>4, <3>2
    <3> QED BY <1>6, <2>1, <3>1, <3>3 DEF Paired
  <2>2. ASSUME NEW i \in 1..Len(r), r[i].fd # NoFd
        PROVE  r[i].val = 0 /\ (i > 1 => r[i - 1].message > 0)
    <3>1. r[i] = w[i + n] /\ i + n \in 1..Len(w)
      BY <1>1, <1>3
    <3> QED BY <1>5, <1>6, <2>2, <3>1 DEF Paired
  <2> QED BY <2>1, <2>2 DEF Paired
<1>7. InOrder(w) => InOrder(r)
  <2> SUFFICES ASSUME InOrder(w), NEW i \in 1..Len(r), NEW j \in 1..Len(r), i < j,
                      r[i].message > 0, r[j].message > 0
               PROVE  r[i].message < r[j].message
    BY DEF InOrder
  <2>1. i + n < j + n
    BY <1>2
  <2> QED BY <1>1, <1>3, <2>1 DEF InOrder
<1>8. ZerosMean(w) => ZerosMean(r)
  BY <1>1, <1>3 DEF ZerosMean
<1>9. \A g : Ahead(w, g) => Ahead(r, g)
  BY <1>1, <1>3 DEF Ahead
<1> QED BY <1>6, <1>7, <1>8, <1>9

\* The answer that recv_fd returns is that of the message at the zero byte.
LEMMA AnswerCarried ==
  ASSUME Typed, Paired(wire, sent), ZerosMean(wire), CodesFit(sent),
         NEW n, Cut(n), NEW z \in 1..n, FirstZero(z, n), z = n - 1
  PROVE  /\ wire[z].message \in 1..Len(sent)
         /\ wire[z + 1].message = 0
         /\ Answer(z) = sent[wire[z].message]
<1>1. n \in 1..Len(wire) /\ Len(wire) \in Nat /\ z \in 1..Len(wire) /\ z \in 1..n - 1
  BY LenProperties DEF Cut, Typed
<1>2. wire[z] \in SentByte /\ wire[z + 1] \in SentByte
  BY <1>1, ElementOfSeq DEF Typed
<1>3. wire[z].fd = NoFd /\ wire[z].val = 0
  BY <1>1 DEF Cut, FirstZero
<1>4. wire[z].message > 0
  BY <1>1, <1>3 DEF ZerosMean
<1>5. /\ wire[z].message <= Len(sent) /\ wire[z + 1].message = 0
      /\ Carries(wire[z + 1], sent[wire[z].message])
  BY <1>1, <1>4 DEF Paired
<1>6. wire[z].message \in 1..Len(sent)
  BY <1>2, <1>4, <1>5, LenProperties DEF SentByte, Typed
<1> DEFINE answer == sent[wire[z].message]
<1>7. answer \in Fds \/ answer > -Bytes
  BY <1>6, LenProperties DEF CodesFit, Typed
<1> HIDE DEF answer
<1>8. CASE answer \in Fds /\ wire[z + 1].fd = answer /\ wire[z + 1].val = 0
  BY <1>5, <1>6, <1>8 DEF Answer, answer
<1>9. CASE answer \in Int /\ answer < 0 /\ wire[z + 1].val = CodeByte(answer)
  <2>1. answer \in -(Bytes - 1)..-1
    BY <1>7, <1>9, FdAssumption
  <2>2. CodeByte(answer) = -answer /\ CodeByte(answer) # 0
    BY <2>1, CodeByteFits
  <2>3. -(-answer) = answer
    BY <1>9
  <2>4. Answer(z) = answer
    BY <1>9, <2>2, <2>3 DEF Answer
  <2> QED BY <1>5, <1>6, <2>4 DEF answer
<1> QED BY <1>5, <1>8, <1>9 DEF Carries, answer

\* What was not in the chunk is still there.
LEMMA RestHas ==
  ASSUME NEW w \in Seq(SentByte), NEW n \in 1..Len(w), NEW i \in 1..Len(w), i > n
  PROVE  \E j \in 1..Len(SubSeq(w, n + 1, Len(w))) : SubSeq(w, n + 1, Len(w))[j] = w[i]
<1>1. Len(w) \in Nat /\ n \in Nat /\ i \in Nat
  BY LenProperties
<1>2. i - n \in 1..Len(w) - n /\ (i - n) + n = i
  BY <1>1
<1> DEFINE r == SubSeq(w, n + 1, Len(w))
<1>3. Len(r) = Len(w) - n /\ \A j \in 1..Len(w) - n : r[j] = w[j + n]
  BY RestFacts
<1> HIDE DEF r
<1>4. i - n \in 1..Len(r) /\ r[i - n] = w[i]
  BY <1>2, <1>3
<1>5. \E j \in 1..Len(r) : r[j] = w[i]
  BY <1>4
<1> QED BY <1>5 DEF r

\* The numbers up to which recv_fd has come are natural numbers.
LEMMA UptoTyped ==
  ASSUME NEW g \in Seq([message : Nat, answer : Answers])
  PROVE  \A k \in 0..Len(g) : Upto(g, k) \in Nat
<1>1. Len(g) \in Nat /\ \A k \in 1..Len(g) : g[k].message \in Nat
  <2>1. \A k \in 1..Len(g) : g[k] \in [message : Nat, answer : Answers]
    BY ElementOfSeq
  <2> QED BY <2>1, LenProperties
<1> QED BY <1>1 DEF Upto

\* An answer that recv_fd returns comes next: everything between it and the one before
\* was lost.
LEMMA ReturnedNext ==
  ASSUME Typed, InOrder(wire), Paired(wire, sent), CodesFit(sent), InTurn, rx = "recv",
         NEW n, Cut(n), NEW z \in 1..n, FirstZero(z, n), z = n - 1
  PROVE  /\ wire[z].message > Upto(got, Len(got))
         /\ Upto(got, Len(got)) + 1..wire[z].message - 1 \subseteq lost
<1>1. n \in 1..Len(wire) /\ Len(wire) \in Nat /\ z \in 1..Len(wire)
  BY LenProperties DEF Cut, Typed
<1>2. wire[z].message \in 1..Len(sent)
  BY AnswerCarried DEF InTurn
<1>3. wire[z].message > Upto(got, Len(got))
  BY <1>1, <1>2, LenProperties DEF InTurn, Ahead, Typed
<1>4. Upto(got, Len(got)) \in Nat /\ Len(sent) \in Nat
  <2>1. Len(got) \in Nat /\ Len(sent) \in Nat /\ Len(got) \in 0..Len(got)
    BY LenProperties DEF Typed
  <2> QED BY <2>1, UptoTyped DEF Typed
<1>5. ASSUME NEW m \in Upto(got, Len(got)) + 1..wire[z].message - 1
      PROVE  m \in lost
  <2>1. m \in Upto(got, Len(got)) + 1..Len(sent) /\ m > 0 /\ m < wire[z].message
    BY <1>2, <1>4
  <2>2. ASSUME NEW i \in 1..Len(wire), wire[i].message = m
        PROVE  FALSE
    <3>1. wire[i].val = 0
      BY <2>1, <2>2 DEF Paired
    <3>2. ~(i < z)
      BY <1>1, <3>1 DEF FirstZero
    <3>3. ~(z < i)
      BY <1>1, <1>2, <1>4, <2>1, <2>2 DEF InOrder
    <3> QED BY <1>1, <2>1, <2>2, <3>2, <3>3
  <2>3. Accounted(wire, got, sent, lost)
    BY DEF InTurn
  <2> QED BY <2>1, <2>2, <2>3 DEF Accounted
<1> QED BY <1>3, <1>5

\* What recv_fd returned so far stays answered when more is lost.
LEMMA MoreLost ==
  ASSUME NEW g, NEW s, NEW l, NEW m, Answered(g, s, l), l \subseteq m
  PROVE  Answered(g, s, m)
BY DEF Answered

\* One answer more.
LEMMA OneMore ==
  ASSUME NEW g \in Seq([message : Nat, answer : Answers]), NEW s, NEW l, Answered(g, s, l),
         NEW e \in [message : Nat, answer : Answers],
         e.message > Upto(g, Len(g)), e.message <= Len(s), e.answer = s[e.message],
         Upto(g, Len(g)) + 1..e.message - 1 \subseteq l
  PROVE  /\ Answered(Append(g, e), s, l)
         /\ Upto(Append(g, e), Len(Append(g, e))) = e.message
<1> DEFINE h == Append(g, e)
<1>1. Len(g) \in Nat
  BY LenProperties
<1>2. Len(h) = Len(g) + 1 /\ h[Len(g) + 1] = e /\ \A k \in 1..Len(g) : h[k] = g[k]
  OBVIOUS
<1> HIDE DEF h
<1>3. \A k \in 0..Len(g) : Upto(h, k) = Upto(g, k)
  BY <1>1, <1>2 DEF Upto
<1>4. ASSUME NEW k \in 1..Len(g)
      PROVE  /\ h[k].message > Upto(h, k - 1) /\ h[k].message <= Len(s)
             /\ h[k].answer = s[h[k].message]
             /\ Upto(h, k - 1) + 1..h[k].message - 1 \subseteq l
  <2>1. k - 1 \in 0..Len(g)
    BY <1>1
  <2> QED BY <1>2, <1>3, <2>1 DEF Answered
<1>5. /\ h[Len(h)].message > Upto(h, Len(h) - 1) /\ h[Len(h)].message <= Len(s)
      /\ h[Len(h)].answer = s[h[Len(h)].message]
      /\ Upto(h, Len(h) - 1) + 1..h[Len(h)].message - 1 \subseteq l
  <2>1. Len(h) - 1 = Len(g) /\ Len(g) \in 0..Len(g)
    BY <1>1, <1>2
  <2> QED BY <1>2, <1>3, <2>1
<1>6. \A k \in 1..Len(h) : k \in 1..Len(g) \/ k = Len(h)
  BY <1>1, <1>2
<1>7. Answered(h, s, l)
  BY <1>4, <1>5, <1>6 DEF Answered
<1>8. Upto(h, Len(h)) = e.message
  BY <1>1, <1>2 DEF Upto
<1> QED BY <1>7, <1>8 DEF h

\* A round of recv_fd leaves nothing out and takes nothing for another, when the codes
\* fit into a byte.
LEMMA ReceiveInTurn ==
  ASSUME Typed, InOrder(wire), Paired(wire, sent), CodesFit(sent), InTurn, Receive
  PROVE  InTurn'
<1>1. PICK n \in 1..Len(wire) :
        /\ rx = "recv" /\ Cut(n) /\ wire' = SubSeq(wire, n + 1, Len(wire))
        /\ UNCHANGED <<code, closed, sent, risky>>
        /\ \/ UserfuncFails(n)
           \/ ReadsOn(n)
           \/ \E z \in 1..n : Aborts(z, n) \/ Returns(z, n)
  BY ReceiveFacts
<1>2. wire \in Seq(SentByte) /\ got \in Seq([message : Nat, answer : Answers])
  BY DEF Typed
<1>3. /\ ZerosMean(wire') /\ Ahead(wire', got)
      /\ Accounted(wire, got, sent, lost) /\ Answered(got, sent, lost)
  BY <1>1, <1>2, RestKeeps DEF InTurn
<1>4. Len(wire) \in Nat /\ Len(sent) \in Nat /\ Upto(got, Len(got)) \in Nat
  <2>1. Len(got) \in Nat /\ Len(got) \in 0..Len(got)
    BY <1>2, LenProperties
  <2> QED BY <1>2, <2>1, UptoTyped, LenProperties DEF Typed
<1>5. ASSUME NEW i \in 1..Len(wire), i > n
      PROVE  \E j \in 1..Len(wire') : wire'[j] = wire[i]
  <2>1. wire' = SubSeq(wire, n + 1, Len(wire))
    BY <1>1
  <2>2. wire \in Seq(SentByte) /\ n \in 1..Len(wire) /\ i \in 1..Len(wire) /\ i > n
    BY <1>2, <1>5
  <2>3. \E j \in 1..Len(SubSeq(wire, n + 1, Len(wire))) :
          SubSeq(wire, n + 1, Len(wire))[j] = wire[i]
    BY ONLY <2>2, RestHas
  <2> QED BY ONLY <2>1, <2>3
<1>6. CASE UserfuncFails(n)
  <2>1. Answered(got, sent, lost')
    BY <1>3, <1>6, MoreLost DEF UserfuncFails
  <2>2. Accounted(wire', got, sent, lost')
    <3> SUFFICES ASSUME NEW m \in Upto(got, Len(got)) + 1..Len(sent), m \notin lost
                 PROVE  m \in lost' \/ \E j \in 1..Len(wire') : wire'[j].message = m
      BY <1>6 DEF Accounted, UserfuncFails
    <3>1. PICK i \in 1..Len(wire) : wire[i].message = m
      BY <1>3 DEF Accounted
    <3>2. CASE i > n
      BY <1>5, <3>1, <3>2
    <3>3. CASE i \in 1..n
      BY <1>4, <1>6, <3>1, <3>3 DEF UserfuncFails
    <3>4. i > n \/ i \in 1..n
      BY <1>4
    <3> QED BY <3>2, <3>3, <3>4
  <2> QED BY <1>1, <1>3, <1>6, <2>1, <2>2 DEF InTurn, UserfuncFails
<1>7. CASE ReadsOn(n)
  <2>1. Accounted(wire', got, sent, lost)
    <3> SUFFICES ASSUME NEW m \in Upto(got, Len(got)) + 1..Len(sent), m \notin lost
                 PROVE  \E j \in 1..Len(wire') : wire'[j].message = m
      BY DEF Accounted
    <3>1. PICK i \in 1..Len(wire) : wire[i].message = m
      BY <1>3 DEF Accounted
    <3>2. wire[i].val = 0
      BY <1>4, <3>1 DEF Paired
    <3>3. i > n
      BY <1>1, <1>4, <1>7, <3>2 DEF ReadsOn
    <3> QED BY <1>5, <3>1, <3>3
  <2> QED BY <1>1, <1>3, <1>7, <2>1 DEF InTurn, ReadsOn
<1>8. ASSUME NEW z \in 1..n, Aborts(z, n)
      PROVE  InTurn'
  BY <1>1, <1>3, <1>8 DEF InTurn, Aborts
<1>9. ASSUME NEW z \in 1..n, Returns(z, n)
      PROVE  InTurn'
  <2>1. FirstZero(z, n) /\ z = n - 1 /\ lost' = lost /\ rx' = "idle"
    BY <1>9 DEF Returns
  <2> DEFINE e == [message |-> wire[z].message, answer |-> Answer(z)]
  <2>2. /\ wire[z].message \in 1..Len(sent) /\ wire[z + 1].message = 0
        /\ Answer(z) = sent[wire[z].message]
    BY <1>1, <2>1, AnswerCarried DEF InTurn
  <2>3. /\ wire[z].message > Upto(got, Len(got))
        /\ Upto(got, Len(got)) + 1..wire[z].message - 1 \subseteq lost
    BY <1>1, <2>1, ReturnedNext
  <2>4. e \in [message : Nat, answer : Answers]
    BY <1>4, <2>2, ElementOfSeq DEF Typed
  <2>5. got' = Append(got, e)
    BY <1>9 DEF Returns
  <2>6. e.message = wire[z].message /\ e.answer = Answer(z)
    OBVIOUS
  <2> HIDE DEF e
  <2>7. Answered(got', sent, lost) /\ Upto(got', Len(got')) = e.message
    <3>1. /\ e.message > Upto(got, Len(got)) /\ e.message <= Len(sent)
          /\ e.answer = sent[e.message]
          /\ Upto(got, Len(got)) + 1..e.message - 1 \subseteq lost
      BY <1>4, <2>2, <2>3, <2>6
    <3>2. Answered(got, sent, lost)
      BY <1>3
    <3>3. got \in Seq([message : Nat, answer : Answers])
      BY <1>2
    <3>4. /\ Answered(Append(got, e), sent, lost)
          /\ Upto(Append(got, e), Len(Append(got, e))) = e.message
      BY ONLY <2>4, <3>1, <3>2, <3>3, OneMore
    <3> QED BY ONLY <2>5, <3>4
  <2>8. ASSUME NEW i \in 1..Len(wire), i <= n, wire[i].message > 0
        PROVE  i = z
    <3>1. wire[i].val = 0
      BY <2>8 DEF Paired
    <3>2. i # z + 1 /\ ~(i < z)
      BY <1>4, <2>1, <2>2, <2>8, <3>1 DEF FirstZero
    <3> QED BY <1>1, <1>4, <2>1, <2>8, <3>2
  <2>9. Accounted(wire', got', sent, lost)
    <3> SUFFICES ASSUME NEW m \in e.message + 1..Len(sent), m \notin lost
                 PROVE  \E j \in 1..Len(wire') : wire'[j].message = m
      BY <2>7 DEF Accounted
    <3>1. m \in Upto(got, Len(got)) + 1..Len(sent) /\ m # e.message /\ m > 0
      BY <1>4, <2>2, <2>3, <2>6
    <3>2. PICK i \in 1..Len(wire) : wire[i].message = m
      BY <1>3, <3>1 DEF Accounted
    <3>3. i > n
      BY <1>1, <1>4, <2>6, <2>8, <3>1, <3>2
    <3> QED BY <1>5, <3>2, <3>3
  <2>10. Ahead(wire', got')
    <3> SUFFICES ASSUME NEW j \in 1..Len(wire'), wire'[j].message > 0
                 PROVE  wire'[j].message > e.message
      BY <2>7 DEF Ahead
    <3>1. j + n \in 1..Len(wire) /\ wire'[j] = wire[j + n] /\ z < j + n
      BY <1>1, <1>2, <1>4, RestFacts
    <3>2. z \in 1..Len(wire) /\ wire[z].message > 0 /\ wire[j + n].message > 0
      BY <1>4, <2>2, <3>1
    <3>3. wire[z].message < wire[j + n].message
      BY <3>1, <3>2 DEF InOrder
    <3> QED BY <1>4, <2>2, <2>6, <3>1, <3>3
  <2> QED BY <1>1, <1>3, <2>1, <2>7, <2>9, <2>10 DEF InTurn
<1> QED BY <1>1, <1>6, <1>7, <1>8, <1>9

-----------------------------------------------------------------------------
(* Without risky writes a chunk ends within text or behind a code byte. *)

\* Text that does not reach the first zero byte, or a whole message behind text.
WholeChunk(n) ==
  \/ (\A i \in 1..n : wire[i].val # 0) /\ (n = BufLen \/ n = Len(wire))
  \/ \E z \in 1..n :
       /\ FirstZero(z, n) /\ z = n - 1 /\ wire[z].message > 0 /\ Answer(z) # NoFd
       /\ wire[n].fd # NoFd \/ n = Len(wire)

\* The first zero byte of an unrisked chunk is that of a message, and its code byte is
\* the last of the chunk.
LEMMA MessageEndsChunk ==
  ASSUME Typed, Paired(wire, sent), Unrisked, NEW n, Cut(n), NEW z \in 1..n, FirstZero(z, n)
  PROVE  WholeChunk(n)
<1>1. /\ n \in 1..Len(wire) /\ Len(wire) \in Nat /\ z \in 1..Len(wire)
      /\ n \in Nat /\ z \in Nat /\ BufLen \in Nat \ {0}
  BY FdAssumption, LenProperties DEF Cut, Typed
<1>2. wire[z].val = 0
  BY DEF FirstZero
<1>3. wire[z].fd = NoFd
  <2> SUFFICES ASSUME wire[z].fd # NoFd
               PROVE  FALSE
    OBVIOUS
  <2>1. z > 1 /\ wire[z - 1].message > 0
    BY <1>1 DEF Unrisked, Whole, Paired
  <2>2. z - 1 \in 1..Len(wire) /\ z - 1 \in 1..z - 1
    BY <1>1, <2>1
  <2>3. wire[z - 1].val = 0
    BY <2>1, <2>2 DEF Paired
  <2> QED BY <2>2, <2>3 DEF FirstZero
<1>4. wire[z].message > 0
  BY <1>1, <1>2, <1>3 DEF Unrisked, ZerosMean
<1>5. z < Len(wire) /\ wire[z + 1].message = 0 /\ z + 1 \in 1..Len(wire)
  BY <1>1, <1>4 DEF Paired
<1>6. z # n
  <2> SUFFICES ASSUME z = n
               PROVE  FALSE
    OBVIOUS
  <2>1. n = BufLen
    BY <1>1, <1>3, <1>5 DEF Cut
  <2>2. \A k \in 0 + 1..z - 1 : wire[k].val # 0
    BY DEF FirstZero
  <2>3. (z - 1 - 0) % BufLen # BufLen - 1
    BY <1>1, <1>4, <2>2 DEF Unrisked, RoomLeft
  <2> QED BY <1>1, <2>1, <2>3, FullButOne
<1>7. wire[z + 1].fd # NoFd \/ z + 1 = Len(wire)
  BY <1>1, <1>4 DEF Unrisked, Whole
<1>8. z = n - 1
  <2>1. z + 1 <= n
    BY <1>1, <1>6
  <2>2. ~(z + 1 \in 1..n - 1)
    BY <1>1, <1>7 DEF Cut
  <2> QED BY <1>1, <2>1, <2>2
<1>9. Answer(z) # NoFd
  <2>1. wire[z + 1] \in SentByte
    BY <1>5, ElementOfSeq DEF Typed
  <2>2. CASE wire[z + 1].val = 0
    BY <1>5, <2>2 DEF Unrisked, ZerosMean, Answer
  <2>3. CASE wire[z + 1].val # 0
    <3>1. -wire[z + 1].val \in Int
      BY <2>1, FdAssumption DEF SentByte
    <3>2. Answer(z) \in Int
      BY <2>3, <3>1 DEF Answer
    <3> QED BY <3>2, FdAssumption
  <2> QED BY <2>2, <2>3
<1>10. wire[n].fd # NoFd \/ n = Len(wire)
  BY <1>1, <1>7, <1>8
<1> QED BY <1>4, <1>8, <1>9, <1>10 DEF WholeChunk

\* Every unrisked chunk is a whole one.
LEMMA ChunkWhole ==
  ASSUME Typed, Paired(wire, sent), Unrisked, NEW n, Cut(n)
  PROVE  WholeChunk(n)
<1>1. /\ n \in 1..Len(wire) /\ Len(wire) \in Nat /\ n \in Nat
  BY LenProperties DEF Cut, Typed
<1>2. CASE \A i \in 1..n : wire[i].val # 0
  <2>1. n \in 1..n
    BY <1>1
  <2>2. wire[n].fd = NoFd
    BY <1>1, <1>2, <2>1 DEF Paired
  <2> QED BY <1>2, <2>2 DEF Cut, WholeChunk
<1>3. CASE \E i \in 1..n : wire[i].val = 0
  <2> DEFINE zeros == {i \in 1..n : wire[i].val = 0}
  <2>1. zeros \in SUBSET Nat /\ zeros # {}
    BY <1>3
  <2>2. PICK z \in zeros : \A i \in zeros : z <= i
    <3> HIDE DEF zeros
    <3> QED BY <2>1, Least
  <2>3. z \in 1..n /\ FirstZero(z, n)
    BY <1>1, <2>2 DEF FirstZero
  <2> QED BY <2>3, MessageEndsChunk
<1> QED BY <1>2, <1>3

\* What is left behind a whole chunk leaves the same room for its messages.
LEMMA RestWhole ==
  ASSUME Typed, Paired(wire, sent), Unrisked, NEW n, Cut(n)
  PROVE  /\ Whole(SubSeq(wire, n + 1, Len(wire)))
         /\ RoomLeft(SubSeq(wire, n + 1, Len(wire)))
<1> DEFINE r == SubSeq(wire, n + 1, Len(wire))
<1>1. n \in 1..Len(wire) /\ Len(wire) \in Nat /\ n \in Nat /\ BufLen \in Nat \ {0}
  BY FdAssumption, LenProperties DEF Cut, Typed
<1>2. Len(r) = Len(wire) - n /\ \A i \in 1..Len(wire) - n : r[i] = wire[i + n]
  BY <1>1, RestFacts DEF Typed
<1> HIDE DEF r
<1> DEFINE k == Len(wire) - n
<1>3. Len(r) = k /\ k \in Nat /\ Len(wire) = k + n
  BY <1>1, <1>2
<1>4. \A i \in 1..k : r[i] = wire[i + n] /\ i + n \in 1..Len(wire)
  BY <1>1, <1>2
<1> HIDE DEF k
<1>5. WholeChunk(n)
  BY ChunkWhole
<1>6. wire[n].message = 0 \/ ~(wire[n].message > 0)
  <2>1. CASE \A i \in 1..n : wire[i].val # 0
    BY <1>1, <2>1 DEF Paired
  <2>2. ASSUME NEW z \in 1..n, z = n - 1, wire[z].message > 0
        PROVE  wire[n].message = 0
    <3>1. z \in 1..Len(wire) /\ z + 1 = n
      BY <1>1, <2>2
    <3> QED BY <2>2, <3>1 DEF Paired
  <2> QED BY <1>5, <2>1, <2>2 DEF WholeChunk
<1>7. Whole(r)
  <2> SUFFICES ASSUME NEW i \in 1..k
               PROVE  /\ r[i].fd # NoFd => i > 1
                      /\ r[i].message > 0 => r[i + 1].fd # NoFd \/ i + 1 = k
    BY <1>3 DEF Whole
  <2>1. ASSUME r[i].fd # NoFd, i = 1
        PROVE  FALSE
    <3>1. wire[1 + n].fd # NoFd /\ 1 + n \in 1..Len(wire) /\ 1 + n > 1 /\ (1 + n) - 1 = n
      BY <1>1, <1>4, <2>1
    <3>2. wire[n].message > 0
      BY <3>1 DEF Paired
    <3> QED BY <1>6, <3>2
  <2>2. ASSUME r[i].message > 0
        PROVE  r[i + 1].fd # NoFd \/ i + 1 = k
    <3>1. wire[i + n].message > 0 /\ i + n \in 1..Len(wire)
      BY <1>4, <2>2
    <3>2. i + n < Len(wire) /\ (wire[(i + n) + 1].fd # NoFd \/ (i + n) + 1 = Len(wire))
      BY <3>1 DEF Paired, Unrisked, Whole
    <3>3. i + 1 \in 1..k /\ (i + 1) + n = (i + n) + 1
      BY <1>1, <1>3, <3>2
    <3>4. r[i + 1] = wire[(i + n) + 1]
      BY <1>4, <3>3
    <3> QED BY <1>1, <1>3, <3>2, <3>4
  <2> QED BY <2>1, <2>2
<1>8. RoomLeft(r)
  <2> SUFFICES ASSUME NEW i \in 1..k, NEW j \in 0..k, r[i].message > 0, j < i,
                      j = 0 \/ r[j].fd # NoFd, \A q \in j + 1..i - 1 : r[q].val # 0
               PROVE  (i - 1 - j) % BufLen # BufLen - 1
    BY <1>3 DEF RoomLeft
  <2>1. i + n \in 1..Len(wire) /\ wire[i + n].message > 0
    BY <1>4
  <2>2. \A q \in (j + n) + 1..(i + n) - 1 : wire[q].val # 0
    <3> SUFFICES ASSUME NEW q \in (j + n) + 1..(i + n) - 1
                 PROVE  wire[q].val # 0
      OBVIOUS
    <3>1. q - n \in j + 1..i - 1 /\ q - n \in 1..k /\ (q - n) + n = q
      BY <1>1, <1>3
    <3>2. r[q - n] = wire[(q - n) + n]
      BY <1>4, <3>1
    <3> QED BY <3>1, <3>2
  <2>3. ASSUME NEW h \in 0..Len(wire), h < i + n, h = 0 \/ wire[h].fd # NoFd,
               \A q \in h + 1..(i + n) - 1 : wire[q].val # 0
        PROVE  ((i + n) - 1 - h) % BufLen # BufLen - 1
    BY <2>1, <2>3 DEF Unrisked, RoomLeft
  <2>4. CASE j # 0
    <3>1. j \in 1..k /\ j + n \in 0..Len(wire) /\ j + n < i + n
      BY <1>1, <1>3, <2>4
    <3>2. wire[j + n].fd # NoFd
      BY <1>4, <2>4, <3>1
    <3>3. ((i + n) - 1 - (j + n)) % BufLen # BufLen - 1
      BY <2>2, <2>3, <3>1, <3>2
    <3>4. (i + n) - 1 - (j + n) = i - 1 - j
      BY <1>1
    <3> QED BY <3>3, <3>4
  <2>5. CASE j = 0 /\ wire[n].fd # NoFd
    <3>1. n \in 0..Len(wire) /\ n < i + n
      BY <1>1
    <3>2. \A q \in n + 1..(i + n) - 1 : wire[q].val # 0
      BY <1>1, <2>2, <2>5
    <3>3. ((i + n) - 1 - n) % BufLen # BufLen - 1
      BY <2>3, <2>5, <3>1, <3>2
    <3>4. (i + n) - 1 - n = i - 1 - j
      BY <1>1, <2>5
    <3> QED BY <3>3, <3>4
  <2>6. CASE j = 0 /\ n = BufLen /\ \A q \in 1..n : wire[q].val # 0
    <3>1. 0 \in 0..Len(wire) /\ 0 < i + n
      BY <1>1
    <3>2. \A q \in 0 + 1..(i + n) - 1 : wire[q].val # 0
      <4> SUFFICES ASSUME NEW q \in 0 + 1..(i + n) - 1
                   PROVE  wire[q].val # 0
        OBVIOUS
      <4>1. q \in 1..n \/ q \in (0 + n) + 1..(i + n) - 1
        BY <1>1
      <4> QED BY <2>2, <2>6, <4>1
    <3>3. ((i + n) - 1 - 0) % BufLen # BufLen - 1
      BY <2>3, <3>1, <3>2
    <3>4. (i + n) - 1 - 0 = (i - 1) + BufLen /\ i - 1 - j = i - 1 /\ i - 1 \in Nat
      BY <1>1, <2>6
    <3> QED BY <3>3, <3>4, BufferMore
  <2>7. n # Len(wire)
    BY <1>1, <1>3
  <2> QED BY <1>5, <2>4, <2>5, <2>6, <2>7 DEF WholeChunk
<1> QED BY <1>7, <1>8 DEF r

\* Without risky writes a round of recv_fd does not abort, and leaves a socket that the
\* next one will not abort on.
LEMMA ReceiveUnrisked ==
  ASSUME Typed, Paired(wire, sent), Unrisked, Receive
  PROVE  Unrisked'
<1>1. PICK n \in 1..Len(wire) :
        /\ rx = "recv" /\ Cut(n) /\ wire' = SubSeq(wire, n + 1, Len(wire))
        /\ \/ UserfuncFails(n)
           \/ ReadsOn(n)
           \/ \E z \in 1..n : Aborts(z, n) \/ Returns(z, n)
  BY ReceiveFacts
<1>2. Whole(wire') /\ RoomLeft(wire')
  BY <1>1, RestWhole
<1>3. ZerosMean(wire')
  BY <1>1, RestKeeps DEF Unrisked, Typed
<1>4. ASSUME NEW z \in 1..n
      PROVE  ~Aborts(z, n)
  <2> SUFFICES ASSUME FirstZero(z, n), z = n - 1 => Answer(z) = NoFd
               PROVE  FALSE
    BY DEF Aborts
  <2>1. WholeChunk(n)
    BY <1>1, ChunkWhole
  <2>2. PICK y \in 1..n : FirstZero(y, n) /\ y = n - 1 /\ Answer(y) # NoFd
    BY <2>1 DEF WholeChunk, FirstZero
  <2>3. y = z
    BY <1>1, <2>2, LenProperties DEF FirstZero
  <2> QED BY <2>2, <2>3
<1>5. rx' # "dead"
  BY <1>1, <1>4 DEF UserfuncFails, ReadsOn, Returns
<1> QED BY <1>2, <1>3, <1>5 DEF Unrisked

\* A round of recv_fd keeps the types.
LEMMA ReceiveTyped ==
  ASSUME Typed, Paired(wire, sent), Receive
  PROVE  Typed'
<1>1. PICK n \in 1..Len(wire) :
        /\ rx = "recv" /\ Cut(n) /\ wire' = SubSeq(wire, n + 1, Len(wire))
        /\ UNCHANGED <<code, closed, sent, risky>>
        /\ \/ UserfuncFails(n)
           \/ ReadsOn(n)
           \/ \E z \in 1..n : Aborts(z, n) \/ Returns(z, n)
  BY ReceiveFacts
<1>2. Len(wire) \in Nat /\ Len(sent) \in Nat /\ \A i \in 1..Len(wire) : wire[i] \in SentByte
  BY LenProperties, ElementOfSeq DEF Typed
<1>3. wire' \in Seq(SentByte)
  BY <1>1, RestFacts DEF Typed
<1>4. lost' \subseteq 1..Len(sent)
  <2>1. \A i \in 1..Len(wire) : wire[i].message \in Nat
    BY <1>2 DEF SentByte
  <2>2. \A i \in 1..n : wire[i].message # 0 => wire[i].message \in 1..Len(sent)
    BY <1>2, <2>1 DEF Paired
  <2>3. lost \subseteq 1..Len(sent)
    BY DEF Typed
  <2>4. CASE UserfuncFails(n)
    <3>1. {wire[i].message : i \in 1..n} \ {0} \subseteq 1..Len(sent)
      BY <1>2, <2>2
    <3> QED BY <2>3, <2>4, <3>1 DEF UserfuncFails
  <2>5. CASE lost' = lost
    BY <2>3, <2>5
  <2> QED BY <1>1, <2>4, <2>5 DEF ReadsOn, Aborts, Returns
<1>5. got' \in Seq([message : Nat, answer : Answers])
  <2>1. ASSUME NEW z \in 1..n, Returns(z, n)
        PROVE  got' \in Seq([message : Nat, answer : Answers])
    <3>1. z \in 1..Len(wire) /\ z + 1 \in 1..Len(wire)
      BY <1>2, <2>1 DEF Returns
    <3>2. /\ wire[z].message \in Nat /\ wire[z + 1].val \in Int
          /\ wire[z + 1].fd \in Fds \cup {NoFd}
      BY <1>2, <3>1, FdAssumption DEF SentByte
    <3>3. Answer(z) \in Answers
      BY <2>1, <3>2 DEF Answer, Answers, Returns
    <3> QED BY <2>1, <3>2, <3>3 DEF Typed, Returns
  <2> QED BY <1>1, <2>1 DEF Typed, UserfuncFails, ReadsOn, Aborts
<1> QED BY <1>1, <1>3, <1>4, <1>5
  DEF Typed, UserfuncFails, ReadsOn, Aborts, Returns

\* A round of recv_fd keeps the invariant.
LEMMA ReceiveKeeps ==
  ASSUME FdIInv, Receive
  PROVE  FdIInv'
<1>1. UNCHANGED <<sent, risky>>
  BY DEF Receive
<1>2. Typed'
  BY ReceiveTyped DEF FdIInv
<1>3. Paired(wire', sent) /\ InOrder(wire')
  BY ReceiveFacts, RestKeeps DEF FdIInv, Typed
<1>4. CodesFit(sent) => InTurn'
  BY ReceiveInTurn DEF FdIInv
<1>5. ~risky => Unrisked'
  BY ReceiveUnrisked DEF FdIInv
<1> QED BY <1>1, <1>2, <1>3, <1>4, <1>5 DEF FdIInv

-----------------------------------------------------------------------------
(* Writes. *)

\* The two bytes of a sendmsg behind what is in the socket.
LEMMA TwoMore ==
  ASSUME NEW w \in Seq(SentByte), NEW a \in SentByte, NEW b \in SentByte
  PROVE  /\ w \o <<a, b>> \in Seq(SentByte)
         /\ Len(w \o <<a, b>>) = Len(w) + 2
         /\ \A i \in 1..Len(w) : (w \o <<a, b>>)[i] = w[i]
         /\ (w \o <<a, b>>)[Len(w) + 1] = a /\ (w \o <<a, b>>)[Len(w) + 2] = b
<1>1. <<a, b>> \in Seq(SentByte) /\ Len(<<a, b>>) = 2 /\ <<a, b>>[1] = a /\ <<a, b>>[2] = b
  OBVIOUS
<1> DEFINE t == <<a, b>>
<1> HIDE DEF t
<1>2. Len(w) \in Nat
  BY LenProperties
<1>3. /\ w \o t \in Seq(SentByte) /\ Len(w \o t) = Len(w) + 2
      /\ \A i \in 1..Len(w) + 2 : (w \o t)[i] = IF i <= Len(w) THEN w[i] ELSE t[i - Len(w)]
  BY <1>1, ConcatProperties DEF t
<1>4. /\ \A i \in 1..Len(w) : (w \o t)[i] = w[i]
      /\ (w \o t)[Len(w) + 1] = t[1] /\ (w \o t)[Len(w) + 2] = t[2]
  BY <1>2, <1>3
<1> QED BY <1>1, <1>3, <1>4 DEF t

\* Text behind what is in the socket.
LEMMA TextMore ==
  ASSUME NEW w \in Seq(SentByte), NEW n \in Nat
  PROVE  /\ w \o Text(n) \in Seq(SentByte)
         /\ Len(w \o Text(n)) = Len(w) + n
         /\ \A i \in 1..Len(w) : (w \o Text(n))[i] = w[i]
         /\ \A i \in Len(w) + 1..Len(w) + n : (w \o Text(n))[i] = Byte(1, NoFd, 0)
<1> DEFINE t == Text(n)
<1>1. Byte(1, NoFd, 0) \in SentByte
  BY FdAssumption DEF Byte, SentByte
<1>2. t \in Seq(SentByte) /\ Len(t) = n /\ \A i \in 1..n : t[i] = Byte(1, NoFd, 0)
  <2>1. t \in [1..n -> SentByte]
    BY <1>1 DEF Text
  <2>2. t \in Seq(SentByte)
    BY <2>1, SeqDef
  <2>3. Len(t) = n
    BY <2>1, <2>2, LenProperties
  <2> QED BY <2>2, <2>3 DEF Text
<1> HIDE DEF t
<1>3. Len(w) \in Nat
  BY LenProperties
<1>4. /\ w \o t \in Seq(SentByte) /\ Len(w \o t) = Len(w) + n
      /\ \A i \in 1..Len(w) + n : (w \o t)[i] = IF i <= Len(w) THEN w[i] ELSE t[i - Len(w)]
  BY <1>2, ConcatProperties
<1>5. \A i \in 1..Len(w) : (w \o t)[i] = w[i]
  BY <1>3, <1>4
<1>6. \A i \in Len(w) + 1..Len(w) + n : (w \o t)[i] = Byte(1, NoFd, 0)
  BY <1>2, <1>3, <1>4
<1> QED BY <1>4, <1>5, <1>6 DEF t

\* Text keeps pairs and order; without a joinable message before it, it is no risk.
LEMMA TextKeeps ==
  ASSUME NEW w \in Seq(SentByte), NEW n \in Nat, NEW s, NEW r, r = w \o Text(n)
  PROVE  /\ Paired(w, s) => Paired(r, s)
         /\ InOrder(w) => InOrder(r)
         /\ ZerosMean(w) => ZerosMean(r)
         /\ \A g : Ahead(w, g) => Ahead(r, g)
         /\ \A g, l : Accounted(w, g, s, l) => Accounted(r, g, s, l)
         /\ \A i \in 1..Len(r) : r[i].message > 0 => i \in 1..Len(w)
<1> DEFINE k == Len(w)
<1>1. k \in Nat
  BY LenProperties
<1>2. /\ Len(r) = k + n /\ \A i \in 1..k : r[i] = w[i]
      /\ \A i \in k + 1..k + n : r[i] = Byte(1, NoFd, 0)
  BY TextMore
<1>3. \A i \in k + 1..k + n : r[i].val = 1 /\ r[i].fd = NoFd /\ r[i].message = 0
  BY <1>2 DEF Byte
<1>4. \A i \in 1..Len(r) : i \in 1..k \/ i \in k + 1..k + n
  BY <1>1, <1>2
<1>5. \A i \in 1..k : i \in 1..Len(r)
  BY <1>1, <1>2
<1>6. \A i \in 1..Len(r) : r[i].message > 0 => i \in 1..k
  BY <1>3, <1>4
<1>7. \A i \in 1..Len(r) : r[i].fd # NoFd => i \in 1..k
  BY <1>3, <1>4
<1>8. \A i \in 1..Len(r) : r[i].val = 0 => i \in 1..k
  BY <1>3, <1>4
<1>9. ASSUME Paired(w, s)
      PROVE  Paired(r, s)
  <2>1. ASSUME NEW i \in 1..k, r[i].message > 0
        PROVE  /\ r[i].val = 0 /\ r[i].fd = NoFd /\ r[i].message <= Len(s)
               /\ i < Len(r) /\ r[i + 1].message = 0 /\ Carries(r[i + 1], s[r[i].message])
    <3>1. w[i].message > 0
      BY <1>2, <2>1
    <3>2. i < k
      BY <1>9, <3>1 DEF Paired
    <3>3. i + 1 \in 1..k /\ i < Len(r)
      BY <1>1, <1>2, <3>2
    <3>4. r[i + 1] = w[i + 1] /\ r[i] = w[i]
      BY <1>2, <3>3
    <3> QED BY <1>9, <3>1, <3>3, <3>4 DEF Paired
  <2>2. ASSUME NEW i \in 1..k, r[i].fd # NoFd
        PROVE  r[i].val = 0 /\ (i > 1 => r[i - 1].message > 0)
    <3>1. i > 1 => i - 1 \in 1..k
      BY <1>1
    <3>2. r[i] = w[i] /\ (i > 1 => r[i - 1] = w[i - 1])
      BY <1>2, <3>1
    <3> QED BY <1>9, <2>2, <3>2 DEF Paired
  <2> QED BY <1>6, <1>7, <2>1, <2>2 DEF Paired
<1>10. InOrder(w) => InOrder(r)
  BY <1>2, <1>6 DEF InOrder
<1>11. ZerosMean(w) => ZerosMean(r)
  BY <1>2, <1>8 DEF ZerosMean
<1>12. \A g : Ahead(w, g) => Ahead(r, g)
  BY <1>2, <1>6 DEF Ahead
<1>13. \A g, l : Accounted(w, g, s, l) => Accounted(r, g, s, l)
  BY <1>2, <1>5 DEF Accounted
<1> QED BY <1>6, <1>9, <1>10, <1>11, <1>12, <1>13

\* Text that is not joined with a message before it leaves every chunk whole.
LEMMA TextWhole ==
  ASSUME Typed, Paired(wire, sent), Unrisked, NEW n \in Nat, n > 0 => ~Joinable
  PROVE  Whole(wire \o Text(n)) /\ RoomLeft(wire \o Text(n))
<1> DEFINE k == Len(wire)
           r == wire \o Text(n)
<1>1. k \in Nat
  BY LenProperties DEF Typed
<1>2. /\ Len(r) = k + n /\ \A i \in 1..k : r[i] = wire[i]
      /\ \A i \in k + 1..k + n : r[i] = Byte(1, NoFd, 0)
  BY TextMore DEF Typed
<1> HIDE DEF r
<1>3. \A i \in 1..Len(r) : r[i].fd # NoFd \/ r[i].message > 0 => i \in 1..k
  <2>1. \A i \in k + 1..k + n : r[i].fd = NoFd /\ r[i].message = 0
    BY <1>2 DEF Byte
  <2>2. \A i \in 1..Len(r) : i \in 1..k \/ i \in k + 1..k + n
    BY <1>1, <1>2
  <2> QED BY <2>1, <2>2
<1>4. Whole(r)
  <2>1. ASSUME NEW i \in 1..k, r[i].fd # NoFd
        PROVE  i > 1
    BY <1>2, <2>1 DEF Unrisked, Whole
  <2>2. ASSUME NEW i \in 1..k, r[i].message > 0
        PROVE  r[i + 1].fd # NoFd \/ i + 1 = Len(r)
    <3>1. wire[i].message > 0 /\ i < k
      BY <1>2, <2>2 DEF Paired
    <3>2. i + 1 \in 1..k /\ r[i + 1] = wire[i + 1]
      BY <1>1, <1>2, <3>1
    <3>3. CASE n = 0
      BY <1>1, <1>2, <3>1, <3>2, <3>3 DEF Unrisked, Whole
    <3>4. CASE n > 0
      <4>1. i \in DOMAIN wire
        BY LenProperties DEF Typed
      <4> QED BY <3>1, <3>2, <3>4, <4>1 DEF Joinable
    <3> QED BY <3>3, <3>4
  <2> QED BY <1>3, <2>1, <2>2 DEF Whole
<1>5. RoomLeft(r)
  <2> SUFFICES ASSUME NEW i \in 1..Len(r), NEW j \in 0..Len(r), r[i].message > 0, j < i,
                      j = 0 \/ r[j].fd # NoFd, \A q \in j + 1..i - 1 : r[q].val # 0
               PROVE  (i - 1 - j) % BufLen # BufLen - 1
    BY DEF RoomLeft
  <2>1. i \in 1..k /\ j \in 0..k
    BY <1>1, <1>3
  <2>2. wire[i].message > 0 /\ (j = 0 \/ wire[j].fd # NoFd)
    BY <1>2, <2>1
  <2>3. \A q \in j + 1..i - 1 : q \in 1..k
    BY <1>1, <2>1
  <2>4. \A q \in j + 1..i - 1 : wire[q].val # 0
    BY <1>2, <2>3
  <2> QED BY <2>1, <2>2, <2>4 DEF Unrisked, RoomLeft
<1> QED BY <1>4, <1>5 DEF r

\* How sendmsg changes the socket and the answers sent.
Sent(answer, val, fd) ==
  /\ wire' \in Seq(SentByte) /\ Len(wire') = Len(wire) + 2
  /\ \A i \in 1..Len(wire) : wire'[i] = wire[i]
  /\ wire'[Len(wire) + 1] = Byte(0, NoFd, Len(sent) + 1)
  /\ wire'[Len(wire) + 2] = Byte(val, fd, 0)
  /\ sent' \in Seq(Answers) /\ Len(sent') = Len(sent) + 1
  /\ \A m \in 1..Len(sent) : sent'[m] = sent[m]
  /\ sent'[Len(sent) + 1] = answer

\* What is known of the lengths and the bytes before and after a sendmsg.
LEMMA SentFacts ==
  ASSUME Typed, NEW answer \in Answers, NEW val \in 0..Bytes - 1,
         NEW fd \in Fds \cup {NoFd}, SendTwo(answer, val, fd)
  PROVE  /\ Sent(answer, val, fd)
         /\ Len(wire) \in Nat /\ Len(sent) \in Nat
         /\ \A i \in 1..Len(wire') :
              i \in 1..Len(wire) \/ i = Len(wire) + 1 \/ i = Len(wire) + 2
<1> DEFINE a == Byte(0, NoFd, Len(sent) + 1)
           b == Byte(val, fd, 0)
<1>1. Len(wire) \in Nat /\ Len(sent) \in Nat
  BY LenProperties DEF Typed
<1>2. a \in SentByte /\ b \in SentByte
  BY <1>1, FdAssumption DEF Byte, SentByte
<1>3. wire' = wire \o <<a, b>> /\ sent' = Append(sent, answer)
  BY DEF SendTwo
<1>4. wire \in Seq(SentByte) /\ sent \in Seq(Answers)
  BY DEF Typed
<1> HIDE DEF a, b
<1>5. /\ wire' \in Seq(SentByte) /\ Len(wire') = Len(wire) + 2
      /\ \A i \in 1..Len(wire) : wire'[i] = wire[i]
      /\ wire'[Len(wire) + 1] = a /\ wire'[Len(wire) + 2] = b
  <2>1. /\ wire \o <<a, b>> \in Seq(SentByte)
        /\ Len(wire \o <<a, b>>) = Len(wire) + 2
        /\ \A i \in 1..Len(wire) : (wire \o <<a, b>>)[i] = wire[i]
        /\ (wire \o <<a, b>>)[Len(wire) + 1] = a /\ (wire \o <<a, b>>)[Len(wire) + 2] = b
    BY <1>2, <1>4, TwoMore
  <2> QED BY <1>3, <2>1
<1>6. /\ sent' \in Seq(Answers) /\ Len(sent') = Len(sent) + 1
      /\ \A m \in 1..Len(sent) : sent'[m] = sent[m]
      /\ sent'[Len(sent) + 1] = answer
  BY <1>3, <1>4
<1>7. \A i \in 1..Len(wire') : i \in 1..Len(wire) \/ i = Len(wire) + 1 \/ i = Len(wire) + 2
  BY <1>1, <1>5
<1> QED BY <1>1, <1>5, <1>6, <1>7 DEF Sent, a, b

\* A sendmsg keeps the pairs and the order of the messages.
LEMMA SentPaired ==
  ASSUME Typed, Paired(wire, sent), InOrder(wire),
         NEW answer \in Answers, NEW val \in 0..Bytes - 1, NEW fd \in Fds \cup {NoFd},
         Carries(Byte(val, fd, 0), answer), SendTwo(answer, val, fd)
  PROVE  Paired(wire', sent') /\ InOrder(wire')
<1> DEFINE k == Len(wire)
           l == Len(sent)
<1>1. /\ k \in Nat /\ l \in Nat
      /\ \A i \in 1..Len(wire') : i \in 1..k \/ i = k + 1 \/ i = k + 2
      /\ Len(wire') = k + 2 /\ \A i \in 1..k : wire'[i] = wire[i]
      /\ wire'[k + 1] = Byte(0, NoFd, l + 1) /\ wire'[k + 2] = Byte(val, fd, 0)
      /\ Len(sent') = l + 1 /\ \A m \in 1..l : sent'[m] = sent[m]
      /\ sent'[l + 1] = answer
  BY SentFacts DEF Sent
<1>2. /\ wire'[k + 1].val = 0 /\ wire'[k + 1].fd = NoFd /\ wire'[k + 1].message = l + 1
      /\ wire'[k + 2].val = val /\ wire'[k + 2].fd = fd /\ wire'[k + 2].message = 0
      /\ Carries(wire'[k + 2], answer)
  BY <1>1 DEF Byte
<1>3. fd # NoFd => val = 0
  BY DEF Carries, Byte
<1>4. \A i \in 1..k : wire[i].message \in Nat
  <2>1. \A i \in 1..k : wire[i] \in SentByte
    BY ElementOfSeq DEF Typed
  <2> QED BY <2>1 DEF SentByte
<1>5. ASSUME NEW i \in 1..k, wire'[i].message > 0
      PROVE  /\ wire'[i].val = 0 /\ wire'[i].fd = NoFd /\ wire'[i].message <= l
             /\ i < Len(wire') /\ wire'[i + 1].message = 0
             /\ Carries(wire'[i + 1], sent'[wire'[i].message])
  <2>1. wire[i].message > 0 /\ wire'[i] = wire[i]
    BY <1>1, <1>5
  <2>2. /\ wire[i].val = 0 /\ wire[i].fd = NoFd /\ wire[i].message <= l
        /\ i < k /\ wire[i + 1].message = 0 /\ Carries(wire[i + 1], sent[wire[i].message])
    BY <2>1 DEF Paired
  <2>3. i + 1 \in 1..k /\ wire[i].message \in 1..l /\ i < Len(wire')
    BY <1>1, <1>4, <2>1, <2>2
  <2>4. wire'[i + 1] = wire[i + 1] /\ sent'[wire[i].message] = sent[wire[i].message]
    BY <1>1, <2>3
  <2> QED BY <2>1, <2>2, <2>3, <2>4
<1>6. ASSUME NEW i \in 1..k, wire'[i].fd # NoFd
      PROVE  wire'[i].val = 0 /\ (i > 1 => wire'[i - 1].message > 0)
  <2>1. i > 1 => i - 1 \in 1..k
    BY <1>1
  <2>2. wire'[i] = wire[i] /\ (i > 1 => wire'[i - 1] = wire[i - 1])
    BY <1>1, <2>1
  <2> QED BY <1>6, <2>2 DEF Paired
<1>7. Paired(wire', sent')
  <2> SUFFICES ASSUME NEW i \in 1..Len(wire')
               PROVE  /\ wire'[i].message > 0 =>
                           /\ wire'[i].val = 0 /\ wire'[i].fd = NoFd
                           /\ wire'[i].message <= Len(sent')
                           /\ i < Len(wire') /\ wire'[i + 1].message = 0
                           /\ Carries(wire'[i + 1], sent'[wire'[i].message])
                      /\ wire'[i].fd # NoFd =>
                           wire'[i].val = 0 /\ (i > 1 => wire'[i - 1].message > 0)
    BY DEF Paired
  <2>1. CASE i \in 1..k
    <3>1. wire'[i].message <= l => wire'[i].message <= Len(sent')
      BY <1>1, <1>4, <2>1
    <3> QED BY <1>5, <1>6, <2>1, <3>1
  <2>2. CASE i = k + 1
    <3>1. i < Len(wire') /\ i + 1 = k + 2 /\ l + 1 <= Len(sent')
      BY <1>1, <2>2
    <3> QED BY <1>1, <1>2, <2>2, <3>1
  <2>3. CASE i = k + 2
    <3>1. i - 1 = k + 1 /\ l + 1 > 0
      BY <1>1, <2>3
    <3>2. ~(0 > 0)
      OBVIOUS
    <3> QED BY <1>2, <1>3, <2>3, <3>1, <3>2
  <2> QED BY <1>1, <2>1, <2>2, <2>3
<1>8. InOrder(wire')
  <2> SUFFICES ASSUME NEW i \in 1..Len(wire'), NEW j \in 1..Len(wire'), i < j,
                      wire'[i].message > 0, wire'[j].message > 0
               PROVE  wire'[i].message < wire'[j].message
    BY DEF InOrder
  <2>1. i # k + 2 /\ j # k + 2
    BY <1>2
  <2>2. CASE j \in 1..k
    <3>1. i \in 1..k
      BY <1>1, <2>2
    <3> QED BY <1>1, <2>2, <3>1 DEF InOrder
  <2>3. CASE j = k + 1
    <3>1. i \in 1..k
      BY <1>1, <2>1, <2>3
    <3> QED BY <1>1, <1>2, <1>4, <1>5, <2>3, <3>1
  <2> QED BY <1>1, <2>1, <2>2, <2>3
<1> QED BY <1>7, <1>8

\* The numbers recv_fd has come up to are numbers of messages.
LEMMA UptoSent ==
  ASSUME Typed, Answered(got, sent, lost)
  PROVE  \A k \in 0..Len(got) : Upto(got, k) \in 0..Len(sent)
<1>1. Len(got) \in Nat /\ Len(sent) \in Nat
  BY LenProperties DEF Typed
<1>2. \A k \in 0..Len(got) : Upto(got, k) \in Nat
  BY UptoTyped DEF Typed
<1>3. \A k \in 1..Len(got) : Upto(got, k) <= Len(sent)
  BY <1>1 DEF Answered, Upto
<1> QED BY <1>1, <1>2, <1>3 DEF Upto

\* A sendmsg of a code that fits is the next message to be answered.
LEMMA SentInTurn ==
  ASSUME Typed, CodesFit(sent) => InTurn,
         NEW answer \in Answers, NEW val \in 0..Bytes - 1, NEW fd \in Fds \cup {NoFd},
         Carries(Byte(val, fd, 0), answer), SendTwo(answer, val, fd),
         UNCHANGED <<rx, got, lost>>, CodesFit(sent')
  PROVE  InTurn'
<1> DEFINE k == Len(wire)
           l == Len(sent)
<1>1. /\ k \in Nat /\ l \in Nat
      /\ \A i \in 1..Len(wire') : i \in 1..k \/ i = k + 1 \/ i = k + 2
      /\ Len(wire') = k + 2 /\ \A i \in 1..k : wire'[i] = wire[i]
      /\ wire'[k + 1] = Byte(0, NoFd, l + 1) /\ wire'[k + 2] = Byte(val, fd, 0)
      /\ sent' \in Seq(Answers)
      /\ Len(sent') = l + 1 /\ \A m \in 1..l : sent'[m] = sent[m]
      /\ sent'[l + 1] = answer
  BY SentFacts DEF Sent
<1>2. /\ wire'[k + 1].message = l + 1
      /\ wire'[k + 2].val = val /\ wire'[k + 2].fd = fd /\ wire'[k + 2].message = 0
  BY <1>1 DEF Byte
<1>3. \A m \in 1..l + 1 : sent'[m] \in Fds \/ sent'[m] > -Bytes
  BY <1>1, LenProperties DEF CodesFit
<1>4. CodesFit(sent)
  <2>1. \A m \in 1..l : m \in 1..l + 1
    BY <1>1
  <2>2. DOMAIN sent = 1..l
    BY LenProperties DEF Typed
  <2> QED BY <1>1, <1>3, <2>1, <2>2 DEF CodesFit
<1>5. InTurn
  BY <1>4
<1>6. val # 0 \/ fd # NoFd
  <2>1. answer \in Fds \/ answer > -Bytes
    BY <1>1, <1>3
  <2>2. CASE answer \in Fds /\ fd = answer
    BY <2>2, FdAssumption
  <2>3. CASE answer \in Int /\ answer < 0 /\ val = CodeByte(answer)
    <3>1. answer > -Bytes
      BY <2>1, <2>3, FdAssumption
    <3>2. answer \in -(Bytes - 1)..-1
      BY <2>3, <3>1, FdAssumption
    <3> QED BY <2>3, <3>2, CodeByteFits
  <2> QED BY <2>2, <2>3 DEF Carries, Byte
<1>7. ZerosMean(wire')
  <2> SUFFICES ASSUME NEW i \in 1..Len(wire'), wire'[i].val = 0
               PROVE  wire'[i].message > 0 \/ wire'[i].fd # NoFd
    BY DEF ZerosMean
  <2>1. CASE i \in 1..k
    BY <1>1, <1>5, <2>1 DEF InTurn, ZerosMean
  <2>2. CASE i = k + 1
    BY <1>1, <1>2, <2>2
  <2>3. CASE i = k + 2
    BY <1>2, <1>6, <2>3
  <2> QED BY <1>1, <2>1, <2>2, <2>3
<1>8. Answered(got, sent', lost)
  <2>1. \A j \in 1..Len(got) : got[j].message \in 1..l
    <3>1. \A j \in 1..Len(got) : j \in 0..Len(got) /\ j - 1 \in 0..Len(got) /\ j # 0
      BY LenProperties DEF Typed
    <3>2. \A j \in 1..Len(got) :
            Upto(got, j) \in 0..l /\ Upto(got, j - 1) \in 0..l /\ Upto(got, j) = got[j].message
      BY <1>5, <3>1, UptoSent DEF InTurn, Upto
    <3> QED BY <1>1, <1>5, <3>2 DEF InTurn, Answered
  <2>2. \A j \in 1..Len(got) :
          got[j].message <= Len(sent') /\ sent'[got[j].message] = sent[got[j].message]
    BY <1>1, <2>1
  <2> QED BY <1>5, <2>2 DEF InTurn, Answered
<1>9. Upto(got, Len(got)) \in 0..l
  <2>1. Len(got) \in 0..Len(got)
    BY LenProperties DEF Typed
  <2> QED BY <1>5, <2>1, UptoSent DEF InTurn
<1>10. Ahead(wire', got)
  <2> SUFFICES ASSUME NEW i \in 1..Len(wire'), wire'[i].message > 0
               PROVE  wire'[i].message > Upto(got, Len(got))
    BY DEF Ahead
  <2>1. CASE i \in 1..k
    BY <1>1, <1>5, <2>1 DEF InTurn, Ahead
  <2>2. CASE i = k + 1
    BY <1>1, <1>2, <1>9, <2>2
  <2>3. i # k + 2
    BY <1>2
  <2> QED BY <1>1, <2>1, <2>2, <2>3
<1>11. ASSUME rx # "dead"
       PROVE  Accounted(wire', got, sent', lost)
  <2> SUFFICES ASSUME NEW m \in Upto(got, Len(got)) + 1..l + 1, m \notin lost
               PROVE  \E i \in 1..Len(wire') : wire'[i].message = m
    BY <1>1 DEF Accounted
  <2>1. CASE m = l + 1
    <3>1. k + 1 \in 1..Len(wire')
      BY <1>1
    <3> QED BY <1>2, <2>1, <3>1
  <2>2. CASE m # l + 1
    <3>1. m \in Upto(got, Len(got)) + 1..l
      BY <1>1, <1>9, <2>2
    <3>2. PICK i \in 1..k : wire[i].message = m
      BY <1>5, <1>11, <3>1 DEF InTurn, Accounted
    <3>3. i \in 1..Len(wire') /\ wire'[i] = wire[i]
      BY <1>1, <3>2
    <3> QED BY <3>2, <3>3
  <2> QED BY <2>1, <2>2
<1> QED BY <1>7, <1>8, <1>10, <1>11 DEF InTurn

\* A sendmsg behind nothing that can be joined with it, and behind text that leaves room
\* for it, leaves every chunk whole.
LEMMA SentUnrisked ==
  ASSUME Typed, Paired(wire, sent), Unrisked,
         NEW answer \in Answers, NEW val \in 0..Bytes - 1, NEW fd \in Fds \cup {NoFd},
         SendTwo(answer, val, fd), ~risky', rx' = rx
  PROVE  Unrisked'
<1> DEFINE k == Len(wire)
<1>1. /\ k \in Nat /\ Len(sent) \in Nat
      /\ \A i \in 1..Len(wire') : i \in 1..k \/ i = k + 1 \/ i = k + 2
      /\ Len(wire') = k + 2 /\ \A i \in 1..k : wire'[i] = wire[i]
      /\ wire'[k + 1] = Byte(0, NoFd, Len(sent) + 1) /\ wire'[k + 2] = Byte(val, fd, 0)
  BY SentFacts DEF Sent
<1>2. /\ wire'[k + 1].fd = NoFd /\ wire'[k + 1].message = Len(sent) + 1
      /\ wire'[k + 2].val = val /\ wire'[k + 2].fd = fd /\ wire'[k + 2].message = 0
  BY <1>1 DEF Byte
<1>3. ~Joinable /\ ~FillsButOne /\ ~(val = 0 /\ fd = NoFd)
  BY DEF SendTwo
<1>4. DOMAIN wire = 1..k
  BY LenProperties DEF Typed
<1>5. ZerosMean(wire')
  <2> SUFFICES ASSUME NEW i \in 1..Len(wire'), wire'[i].val = 0
               PROVE  wire'[i].message > 0 \/ wire'[i].fd # NoFd
    BY DEF ZerosMean
  <2>1. CASE i \in 1..k
    BY <1>1, <2>1 DEF Unrisked, ZerosMean
  <2>2. CASE i = k + 1
    BY <1>1, <1>2, <2>2
  <2>3. CASE i = k + 2
    BY <1>2, <1>3, <2>3
  <2> QED BY <1>1, <2>1, <2>2, <2>3
<1>6. Whole(wire')
  <2> SUFFICES ASSUME NEW i \in 1..Len(wire')
               PROVE  /\ wire'[i].fd # NoFd => i > 1
                      /\ wire'[i].message > 0 => wire'[i + 1].fd # NoFd \/ i + 1 = Len(wire')
    BY DEF Whole
  <2>1. CASE i \in 1..k
    <3>1. wire'[i].fd # NoFd => i > 1
      BY <1>1, <2>1 DEF Unrisked, Whole
    <3>2. ASSUME wire'[i].message > 0
          PROVE  wire'[i + 1].fd # NoFd
      <4>1. wire[i].message > 0 /\ i < k
        BY <1>1, <2>1, <3>2 DEF Paired
      <4>2. wire[i + 1].fd # NoFd
        BY <1>3, <1>4, <2>1, <4>1 DEF Joinable
      <4>3. i + 1 \in 1..k
        BY <1>1, <2>1, <4>1
      <4> QED BY <1>1, <4>2, <4>3
    <3> QED BY <3>1, <3>2
  <2>2. CASE i = k + 1
    BY <1>1, <1>2, <2>2
  <2>3. CASE i = k + 2
    <3>1. i > 1
      BY <1>1, <2>3
    <3>2. ~(wire'[i].message > 0)
      BY <1>2, <2>3
    <3> QED BY <3>1, <3>2
  <2> QED BY <1>1, <2>1, <2>2, <2>3
<1>7. RoomLeft(wire')
  <2> SUFFICES ASSUME NEW i \in 1..Len(wire'), NEW j \in 0..Len(wire'),
                      wire'[i].message > 0, j < i, j = 0 \/ wire'[j].fd # NoFd,
                      \A q \in j + 1..i - 1 : wire'[q].val # 0
               PROVE  (i - 1 - j) % BufLen # BufLen - 1
    BY DEF RoomLeft
  <2>1. i \in 1..k \/ i = k + 1
    BY <1>1, <1>2
  <2>2. j \in 0..k
    BY <1>1, <2>1
  <2>3. j = 0 \/ wire[j].fd # NoFd
    BY <1>1, <2>2
  <2>4. \A q \in j + 1..i - 1 : q \in 1..k
    BY <1>1, <2>1, <2>2
  <2>5. \A q \in j + 1..i - 1 : wire[q].val # 0
    BY <1>1, <2>4
  <2>6. CASE i \in 1..k
    <3>1. wire[i].message > 0
      BY <1>1, <2>6
    <3> QED BY <2>2, <2>3, <2>5, <2>6, <3>1 DEF Unrisked, RoomLeft
  <2>7. CASE i = k + 1
    <3> DEFINE text == {q \in DOMAIN wire : \A p \in q..Len(wire) : wire[p].val # 0}
    <3>1. \A q \in j + 1..k : wire[q].val # 0
      <4>1. i - 1 = k
        BY <1>1, <2>7
      <4> QED BY <2>5, <4>1
    <3>2. j # 0 => j \in 1..k /\ wire[j].val = 0
      BY <1>1, <2>2, <2>3 DEF Paired
    <3>3. text = j + 1..k
      <4>1. ASSUME NEW q \in j + 1..k
            PROVE  q \in text
        <5>1. q \in 1..k /\ \A p \in q..k : p \in j + 1..k
          BY <1>1, <2>2
        <5> QED BY <1>4, <3>1, <5>1
      <4>2. ASSUME NEW q \in text
            PROVE  q \in j + 1..k
        <5>1. q \in 1..k /\ \A p \in q..k : wire[p].val # 0
          BY <1>4
        <5>2. j # 0 => ~(j \in q..k)
          BY <3>2, <5>1
        <5> QED BY <1>1, <2>2, <5>1, <5>2
      <4> QED BY <4>1, <4>2
    <3>4. Cardinality(j + 1..k) = k - j
      <4>1. Cardinality(j + 1..k) = IF j + 1 > k THEN 0 ELSE k - (j + 1) + 1
        <5>1. j + 1 \in Int /\ k \in Int
          BY <1>1, <2>2
        <5> HIDE DEF k
        <5> QED BY ONLY <5>1, FS_Interval
      <4> QED BY <1>1, <2>2, <4>1
    <3>5. Cardinality(text) % BufLen # BufLen - 1
      BY <1>3 DEF FillsButOne
    <3>6. i - 1 - j = k - j
      BY <1>1, <2>2, <2>7
    <3> HIDE DEF text
    <3> QED BY <3>3, <3>4, <3>5, <3>6
  <2> QED BY <2>1, <2>6, <2>7
<1> QED BY <1>5, <1>6, <1>7 DEF Unrisked

\* A sendmsg of an answer with its code byte keeps the invariant.
LEMMA SendTwoKeeps ==
  ASSUME FdIInv,
         NEW answer \in Answers, NEW val \in 0..Bytes - 1, NEW fd \in Fds \cup {NoFd},
         Carries(Byte(val, fd, 0), answer), SendTwo(answer, val, fd),
         code' \in -(Bytes + 1)..0, UNCHANGED <<closed, rx, got, lost>>
  PROVE  FdIInv'
<1>1. Typed /\ Paired(wire, sent) /\ InOrder(wire)
  BY DEF FdIInv
<1>2. Typed'
  <2>1. /\ wire' \in Seq(SentByte) /\ sent' \in Seq(Answers) /\ Len(sent') = Len(sent) + 1
        /\ Len(sent) \in Nat
    BY <1>1, SentFacts DEF Sent
  <2>2. Len(sent) < MaxSent /\ risky' \in BOOLEAN
    BY DEF SendTwo
  <2>3. Len(sent') <= MaxSent /\ 1..Len(sent) \subseteq 1..Len(sent')
    BY <2>1, <2>2, FdAssumption
  <2> QED BY <1>1, <2>1, <2>2, <2>3 DEF Typed
<1>3. Paired(wire', sent') /\ InOrder(wire')
  BY <1>1, SentPaired
<1>4. CodesFit(sent') => InTurn'
  BY <1>1, SentInTurn DEF FdIInv
<1>5. ~risky' => Unrisked'
  <2>1. ~risky' => ~risky
    BY DEF SendTwo
  <2> QED BY <1>1, <2>1, SentUnrisked DEF FdIInv
<1> QED BY <1>2, <1>3, <1>4, <1>5 DEF FdIInv

\* send_err's code keeps the invariant.
LEMMA SendCodeKeeps ==
  ASSUME FdIInv, SendCode
  PROVE  FdIInv'
<1>1. code \in -(Bytes + 1)..-1 /\ code \in Int /\ code < 0
  BY FdAssumption DEF FdIInv, Typed, SendCode
<1>2. CodeByte(code) \in 0..Bytes - 1
  BY <1>1, CodeByteFits
<1>3. code \in Answers /\ NoFd \in Fds \cup {NoFd} /\ code' \in -(Bytes + 1)..0
  BY <1>1, FdAssumption DEF Answers, SendCode
<1>4. Carries(Byte(CodeByte(code), NoFd, 0), code)
  BY <1>1 DEF Carries, Byte
<1>5. SendTwo(code, CodeByte(code), NoFd) /\ UNCHANGED <<closed, rx, got, lost>>
  BY DEF SendCode
<1> QED BY <1>2, <1>3, <1>4, <1>5, SendTwoKeeps

\* send_fd of a descriptor keeps the invariant.
LEMMA SendFdKeeps ==
  ASSUME FdIInv, SendFd
  PROVE  FdIInv'
<1>1. PICK fd \in Fds : SendTwo(fd, 0, fd)
  BY DEF SendFd
<1>2. 0 \in 0..Bytes - 1 /\ fd \in Answers /\ fd \in Fds \cup {NoFd}
  BY FdAssumption DEF Answers
<1>3. Carries(Byte(0, fd, 0), fd)
  BY DEF Carries, Byte
<1>4. code' \in -(Bytes + 1)..0 /\ UNCHANGED <<closed, rx, got, lost>>
  BY DEF SendFd, FdIInv, Typed
<1> QED BY <1>1, <1>2, <1>3, <1>4, SendTwoKeeps

\* send_err's text keeps the invariant.
LEMMA WriteTextKeeps ==
  ASSUME FdIInv, WriteText
  PROVE  FdIInv'
<1>1. PICK n \in 0..MaxText, err \in -(Bytes + 1)..0 :
        /\ wire' = wire \o Text(n)
        /\ code' = IF err = 0 THEN -1 ELSE err
        /\ risky' = (risky \/ (n > 0 /\ Joinable))
  BY DEF WriteText
<1>2. n \in Nat /\ UNCHANGED <<closed, rx, sent, got, lost>>
  BY FdAssumption DEF WriteText
<1>3. Typed /\ Paired(wire, sent) /\ InOrder(wire)
  BY DEF FdIInv
<1>4. Typed'
  <2>1. code' \in -(Bytes + 1)..0
    BY <1>1, FdAssumption
  <2>2. wire' \in Seq(SentByte)
    BY <1>1, <1>2, <1>3, TextMore DEF Typed
  <2>3. risky' \in BOOLEAN
    BY <1>1 DEF Joinable
  <2> QED BY <1>2, <1>3, <2>1, <2>2, <2>3 DEF Typed
<1>5. /\ Paired(wire', sent) /\ InOrder(wire')
      /\ ZerosMean(wire) => ZerosMean(wire')
      /\ Ahead(wire, got) => Ahead(wire', got)
      /\ Accounted(wire, got, sent, lost) => Accounted(wire', got, sent, lost)
  <2>1. wire \in Seq(SentByte)
    BY <1>3 DEF Typed
  <2> QED BY <1>1, <1>2, <1>3, <2>1, TextKeeps
<1>6. CodesFit(sent) => InTurn'
  BY <1>2, <1>5 DEF FdIInv, InTurn
<1>7. ~risky' => Unrisked'
  <2> SUFFICES ASSUME ~risky'
               PROVE  Unrisked'
    OBVIOUS
  <2>1. ~risky /\ (n > 0 => ~Joinable)
    BY <1>1
  <2>2. Unrisked
    BY <2>1 DEF FdIInv
  <2>3. Whole(wire') /\ RoomLeft(wire')
    BY <1>1, <1>2, <1>3, <2>1, <2>2, TextWhole
  <2> QED BY <1>2, <1>5, <2>2, <2>3 DEF Unrisked
<1> QED BY <1>2, <1>4, <1>5, <1>6, <1>7 DEF FdIInv

\* A step that touches neither the socket nor what was sent and returned.
LEMMA SocketUntouched ==
  ASSUME FdIInv, UNCHANGED <<wire, sent, got, lost, risky>>,
         code' \in -(Bytes + 1)..0, closed' \in BOOLEAN,
         rx' = rx \/ (rx # "dead" /\ rx' \in {"idle", "recv", "exited"})
  PROVE  FdIInv'
<1>1. Typed'
  BY DEF FdIInv, Typed
<1>2. CodesFit(sent) => InTurn'
  BY DEF FdIInv, InTurn
<1>3. ~risky => Unrisked'
  BY DEF FdIInv, Unrisked
<1> QED BY <1>1, <1>2, <1>3 DEF FdIInv

-----------------------------------------------------------------------------
(* Theorems. *)

\* An empty socket satisfies the invariant.
LEMMA FdInitInvariant == FdInit => FdIInv
<1> SUFFICES ASSUME FdInit
             PROVE  FdIInv
  OBVIOUS
<1>1. wire = <<>> /\ sent = <<>> /\ got = <<>> /\ lost = {} /\ code = 0
  BY DEF FdInit
<1>2. Typed
  <2>1. 0 \in -(Bytes + 1)..0 /\ 0 <= MaxSent
    BY FdAssumption
  <2>2. /\ wire \in Seq(SentByte) /\ sent \in Seq(Answers)
        /\ got \in Seq([message : Nat, answer : Answers]) /\ Len(sent) = 0
    BY <1>1, EmptySeq
  <2> QED BY <1>1, <2>1, <2>2 DEF FdInit, Typed
<1>3. Len(wire) = 0 /\ Len(sent) = 0 /\ Len(got) = 0
  BY <1>1
<1>4. 1..0 = {}
  OBVIOUS
<1>5. Paired(wire, sent) /\ InOrder(wire) /\ ZerosMean(wire) /\ Whole(wire) /\ RoomLeft(wire)
  BY <1>3, <1>4 DEF Paired, InOrder, ZerosMean, Whole, RoomLeft
<1>6. Answered(got, sent, lost) /\ Ahead(wire, got) /\ Accounted(wire, got, sent, lost)
  BY <1>3, <1>4 DEF Answered, Ahead, Accounted, Upto
<1> QED BY <1>2, <1>5, <1>6 DEF FdInit, FdIInv, InTurn, Unrisked

\* Every step keeps the invariant.
LEMMA FdNextInvariant == FdIInv /\ [FdNext]_fdVars => FdIInv'
<1> SUFFICES ASSUME FdIInv, [FdNext]_fdVars
             PROVE  FdIInv'
  OBVIOUS
<1>1. code \in -(Bytes + 1)..0 /\ 0 \in -(Bytes + 1)..0 /\ closed \in BOOLEAN
  BY FdAssumption DEF FdIInv, Typed
<1>2. CASE WriteText
  BY <1>2, WriteTextKeeps
<1>3. CASE SendCode
  BY <1>3, SendCodeKeeps
<1>4. CASE SendFd
  BY <1>4, SendFdKeeps
<1>5. CASE SendFails \/ Close
  BY <1>1, <1>5, SocketUntouched DEF SendFails, Close
<1>6. CASE CallRecv \/ RecvFails \/ EndOfFile
  BY <1>1, <1>6, SocketUntouched DEF CallRecv, RecvFails, EndOfFile
<1>7. CASE Receive
  BY <1>7, ReceiveKeeps
<1>8. CASE UNCHANGED fdVars
  BY <1>1, <1>8, SocketUntouched DEF fdVars
<1> QED BY <1>2, <1>3, <1>4, <1>5, <1>6, <1>7, <1>8 DEF FdNext

\* The invariant holds in every state of sender, socket and receiver.
THEOREM FdInvariantHolds == FdSpec => []FdIInv
<1> QED BY FdInitInvariant, FdNextInvariant, PTL DEF FdSpec

\* The types are part of the invariant.
LEMMA FdInvariantTyped == FdIInv => FdTypeOK
<1> SUFFICES ASSUME FdIInv
             PROVE  FdTypeOK
  OBVIOUS
<1>1. DOMAIN wire = 1..Len(wire) /\ Len(sent) \in Nat /\ Len(sent) <= MaxSent
  BY LenProperties DEF FdIInv, Typed
<1>2. ASSUME NEW i \in 1..Len(wire)
      PROVE  /\ wire[i].val \in 0..Bytes - 1 /\ wire[i].fd \in Fds \cup {NoFd}
             /\ wire[i].message \in 0..MaxSent
  <2>1. wire[i] \in SentByte
    BY ElementOfSeq DEF FdIInv, Typed
  <2>2. wire[i].message > 0 => wire[i].message <= Len(sent)
    BY DEF FdIInv, Paired
  <2> QED BY <1>1, <2>1, <2>2, FdAssumption DEF SentByte
<1> QED BY <1>1, <1>2 DEF FdIInv, Typed, FdTypeOK

\* Type correctness.
THEOREM FdTypeCorrect == FdSpec => []FdTypeOK
  BY FdInvariantHolds, FdInvariantTyped, PTL

\* With codes that fit into a byte, recv_fd returns what was sent, in order and once, and
\* leaves out only what went with a failure of userfunc: for any buffer, text and number
\* of messages, and wherever the reads cut the stream.
THEOREM AnswersComeAsSent == FdSpec => []AnswersAsSent
<1>1. FdIInv => AnswersAsSent
  <2> SUFFICES ASSUME FdIInv, CodesFit(sent)
               PROVE  /\ \A k \in DOMAIN got :
                           /\ got[k].message > Upto(got, k - 1)
                           /\ got[k].answer = sent[got[k].message]
                           /\ Upto(got, k - 1) + 1..got[k].message - 1 \subseteq lost
                      /\ wire = <<>> /\ rx = "idle" =>
                           Upto(got, Len(got)) + 1..Len(sent) \subseteq lost
    BY DEF AnswersAsSent, CodesFit, Upto
  <2>1. InTurn
    BY DEF FdIInv
  <2>2. DOMAIN got = 1..Len(got)
    BY LenProperties DEF FdIInv, Typed
  <2>3. ASSUME wire = <<>>, rx = "idle"
        PROVE  Upto(got, Len(got)) + 1..Len(sent) \subseteq lost
    <3>1. Len(wire) = 0 /\ 1..0 = {}
      BY <2>3
    <3> QED BY <2>1, <2>3, <3>1 DEF InTurn, Accounted
  <2> QED BY <2>1, <2>2, <2>3 DEF InTurn, Answered
<1> QED BY FdInvariantHolds, <1>1, PTL

\* recv_fd ends its process only after a risky write, for any buffer and any text.
THEOREM AbortsAreRisked == FdSpec => []AbortsOnlyIfRisky
<1>1. FdIInv => AbortsOnlyIfRisky
  BY DEF FdIInv, Unrisked, AbortsOnlyIfRisky
<1> QED BY FdInvariantHolds, <1>1, PTL
=============================================================================
