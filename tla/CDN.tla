-------------------------------- MODULE CDN ---------------------------------
(***************************************************************************)
(* app/CDN/src/main.cc: a server that reads 16-bit integers and appends    *)
(* the first byte, in memory, of each to a file.  One connection, whose    *)
(* bytes arrive in pieces; the program never shuts it down, so that it is  *)
(* connected() in every message callback.                                  *)
(***************************************************************************)
EXTENDS Buffer

CONSTANT MaxSent   \* bound: bytes the client sends

ASSUME CDNAssumption ==
  /\ MaxSent \in Nat
  /\ Base^0 = 1 /\ Base^1 = Base /\ Base^2 = Base * Base

VARIABLES
  sent,       \* what the client has sent
  arrived,    \* how much of it readFd() has read
  cdnInput,   \* the connection's input buffer
  left,       \* iterations of onMessage()'s loop still to come
  recvData    \* the file

cdnVars == <<sent, arrived, cdnInput, left, recvData>>

CDNInit ==
  /\ sent = <<>>
  /\ arrived = 0
  /\ cdnInput = NewBuffer(kInitialSize)
  /\ left = 0
  /\ recvData = <<>>

ClientSends(byte) ==
  /\ Len(sent) < MaxSent
  /\ sent' = Append(sent, byte)
  /\ UNCHANGED <<arrived, cdnInput, left, recvData>>

\* A bug: every message is taken to start with a whole integer.
ReceiveAfresh(n) ==
  /\ left = 0
  /\ LET b == ReadFd(NewBuffer(kInitialSize), SubSeq(sent, arrived + 1, arrived + n))
     IN  /\ cdnInput' = Forget(b)
         /\ left' = ReadableBytes(b) \div 2
  /\ arrived' = arrived + n
  /\ UNCHANGED <<sent, recvData>>

\* The connection reads n bytes and calls onMessage(), which counts the
\* integers before it reads the first.
Receive(n) ==
  /\ left = 0
  /\ LET b == ReadFd(cdnInput, SubSeq(sent, arrived + 1, arrived + n))
     IN  /\ cdnInput' = Forget(b)
         /\ left' = ReadableBytes(b) \div 2
  /\ arrived' = arrived + n
  /\ UNCHANGED <<sent, recvData>>

\* One iteration: readUint16(), and the byte at the address of the integer.
ReadUint16 ==
  /\ left > 0
  /\ LET c == PeekInt(cdnInput, FALSE, 2)
     IN  recvData' = Append(recvData, HostBytes(c, 2)[1])
  /\ cdnInput' = Forget(Retrieve(cdnInput, 2))
  /\ left' = left - 1
  /\ UNCHANGED <<sent, arrived>>

CDNNext ==
  \/ \E byte \in 0..(Base - 1) : ClientSends(byte)
  \/ \E n \in 1..MaxSent :
       n <= Len(sent) - arrived /\ n <= ReadLimit(cdnInput) /\ Receive(n)
  \/ ReadUint16

CDNSpec == CDNInit /\ [][CDNNext]_cdnVars

-----------------------------------------------------------------------------
\* However the network cuts the stream, also between the two bytes of an
\* integer, the file holds every second byte that arrived and at most one byte
\* waits in the buffer for its other half.
FileIndependentOfCuts ==
  left = 0 =>
    /\ recvData = [i \in 1..(arrived \div 2) |-> sent[2 * i]]
    /\ Content(cdnInput) = SubSeq(sent, arrived - (arrived % 2) + 1, arrived)
=============================================================================
