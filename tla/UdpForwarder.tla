--------------------------- MODULE UdpForwarder ----------------------------
(***************************************************************************)
(* The UDP service example/go2/typego_high_state_service.cpp: a detached   *)
(* thread waits for clients and makes the latest one the receiver of the   *)
(* robot's states; the DDS thread calls _HighStateHandler for each state,  *)
(* which throttles and sends to the client of the moment.                  *)
(*                                                                         *)
(* Clients are named by the order in which their datagrams arrive.  A      *)
(* sockaddr_in has two halves, written and read one after the other.       *)
(***************************************************************************)
EXTENDS Integers, FiniteSetsExt

CONSTANTS
  Throttle,   \* the 20 ms of _HighStateHandler
  MaxClients  \* bound: how many datagrams of clients arrive

VARIABLES
  receiver,       \* where the thread of WaitForNextClient is
  latest_client,
  client_addr,
  client_ready,
  client_mutex,   \* "free", "receiver" or "handler"
  heard,          \* how many clients have been received
  installed,      \* history: clients whose registration is complete
  handler,        \* where the DDS thread is
  since,          \* now - last_send_time, saturated at Throttle
  destination,    \* the address sendto has read so far
  floor,          \* history: installed when the handler was called
  sentTo,         \* history: the newest destination sent to
  credit          \* history: time that passed less Throttle per datagram sent

vars == <<receiver, latest_client, client_addr, client_ready, client_mutex, heard,
          installed, handler, since, destination, floor, sentTo, credit>>

receiverVars == <<receiver, latest_client, heard, installed>>
handlerVars == <<handler, destination, floor, sentTo>>

ZeroAddress == [ip |-> 0, port |-> 0]
AddressOf(k) == [ip |-> k, port |-> k]
Halves == {"ip", "port"}
OtherHalf(h) == IF h = "ip" THEN "port" ELSE "ip"

\* The sender of a datagram without a byte in it.
NoClient == AddressOf(-1)

\* credit saturates: a long silence does not allow more than two datagrams in
\* close succession.
CreditCap == 2 * Throttle

Copied(h) == IF h = "ip" THEN "ipCopied" ELSE "portCopied"
ReadOf(h) == IF h = "ip" THEN "ipRead" ELSE "portRead"

Init ==
  /\ receiver = "off"
  /\ latest_client = ZeroAddress
  /\ client_addr = ZeroAddress
  /\ client_ready = FALSE
  /\ client_mutex = "free"
  /\ heard = 0 /\ installed = 0
  /\ handler = "none"
  /\ since = 0
  /\ destination = ZeroAddress
  /\ floor = 0 /\ sentTo = 0
  /\ credit = 0

-----------------------------------------------------------------------------
(* WaitForNextClient.                                                      *)

\* InitUDPServer with a socket that can be bound.  After a failure main goes
\* on without a receiver, which is the state before this step.
InitUDPServer ==
  /\ receiver = "off"
  /\ handler = "none"
  /\ receiver' = "recvfrom"
  /\ UNCHANGED <<latest_client, client_addr, client_ready, client_mutex, heard,
                 installed, handlerVars, since, credit>>

\* Mutation of RecvEmpty: a datagram without a byte registers its sender.
RecvEmptyRegisters ==
  /\ receiver = "recvfrom"
  /\ latest_client' = NoClient
  /\ receiver' = "lock"
  /\ UNCHANGED <<client_addr, client_ready, client_mutex, heard, installed,
                 handlerVars, since, credit>>

\* n = 0: the loop goes round, latest_client is overwritten all the same.
RecvEmpty ==
  /\ receiver = "recvfrom"
  /\ latest_client' = NoClient
  /\ UNCHANGED <<receiver, client_addr, client_ready, client_mutex, heard, installed,
                 handlerVars, since, credit>>

RecvClient ==
  /\ receiver = "recvfrom"
  /\ heard < MaxClients
  /\ heard' = heard + 1
  /\ latest_client' = AddressOf(heard + 1)
  /\ receiver' = "lock"
  /\ UNCHANGED <<client_addr, client_ready, client_mutex, installed, handlerVars,
                 since, credit>>

ReceiverLock ==
  /\ receiver = "lock"
  /\ client_mutex = "free"
  /\ client_mutex' = "receiver"
  /\ receiver' = "copy"
  /\ UNCHANGED <<latest_client, client_addr, client_ready, heard, installed,
                 handlerVars, since, credit>>

\* memcpy, one half and then the other.
CopyHalf(h) ==
  /\ receiver = "copy"
  /\ client_addr' = [client_addr EXCEPT ![h] = latest_client[h]]
  /\ receiver' = Copied(h)
  /\ UNCHANGED <<latest_client, client_ready, client_mutex, heard, installed,
                 handlerVars, since, credit>>

CopyOtherHalf(h) ==
  /\ receiver = Copied(OtherHalf(h))
  /\ client_addr' = [client_addr EXCEPT ![h] = latest_client[h]]
  /\ receiver' = "unlock"
  /\ UNCHANGED <<latest_client, client_ready, client_mutex, heard, installed,
                 handlerVars, since, credit>>

\* The end of the lock_guard's block.
ReceiverUnlock ==
  /\ receiver = "unlock"
  /\ client_mutex' = "free"
  /\ receiver' = "ready"
  /\ UNCHANGED <<latest_client, client_addr, client_ready, heard, installed,
                 handlerVars, since, credit>>

\* Mutation of SetReady: the first client is never announced.
SetReadyForgotten ==
  /\ receiver = "ready"
  /\ installed' = heard
  /\ receiver' = "recvfrom"
  /\ UNCHANGED <<latest_client, client_addr, client_ready, client_mutex, heard,
                 handlerVars, since, credit>>

\* client_ready.exchange(true); what it returns only selects the log line.
SetReady ==
  /\ receiver = "ready"
  /\ client_ready' = TRUE
  /\ installed' = heard
  /\ receiver' = "recvfrom"
  /\ UNCHANGED <<latest_client, client_addr, client_mutex, heard, handlerVars,
                 since, credit>>

-----------------------------------------------------------------------------
(* _HighStateHandler, in the one thread that delivers the topic.           *)

\* The first message initialises last_send_time, and is dropped by the test.
FirstMessage ==
  /\ handler = "none"
  /\ handler' = "idle"
  /\ since' = 0 /\ credit' = 0
  /\ UNCHANGED <<receiverVars, client_addr, client_ready, client_mutex, destination,
                 floor, sentTo>>

\* Mutation of _HighStateHandler: last_send_time is not renewed.
HandlerKeepsTime ==
  /\ handler = "idle"
  /\ since >= Throttle
  /\ floor' = installed
  /\ handler' = "load"
  /\ UNCHANGED <<receiverVars, client_addr, client_ready, client_mutex, since,
                 destination, sentTo, credit>>

\* A message that comes late enough; the others are dropped.
_HighStateHandler ==
  /\ handler = "idle"
  /\ since >= Throttle
  /\ since' = 0
  /\ floor' = installed
  /\ handler' = "load"
  /\ UNCHANGED <<receiverVars, client_addr, client_ready, client_mutex, destination,
                 sentTo, credit>>

\* sendtoClient.
LoadReady ==
  /\ handler = "load"
  /\ handler' = IF client_ready THEN "lock" ELSE "idle"
  /\ UNCHANGED <<receiverVars, client_addr, client_ready, client_mutex, destination,
                 floor, sentTo, since, credit>>

\* Mutation of SenderLock: the address is read without the mutex.
SenderNoLock ==
  /\ handler = "lock"
  /\ handler' = "sendto"
  /\ UNCHANGED <<receiverVars, client_addr, client_ready, client_mutex, destination,
                 floor, sentTo, since, credit>>

SenderLock ==
  /\ handler = "lock"
  /\ client_mutex = "free"
  /\ client_mutex' = "handler"
  /\ handler' = "sendto"
  /\ UNCHANGED <<receiverVars, client_addr, client_ready, destination, floor, sentTo,
                 since, credit>>

\* sendto reads the address, in two halves.
ReadHalf(h) ==
  /\ handler = "sendto"
  /\ destination' = [destination EXCEPT ![h] = client_addr[h]]
  /\ handler' = ReadOf(h)
  /\ UNCHANGED <<receiverVars, client_addr, client_ready, client_mutex, floor, sentTo,
                 since, credit>>

\* Mutation of Send: an address that was sent to before is kept.
SendToFirst(h) ==
  /\ handler = ReadOf(OtherHalf(h))
  /\ destination' = IF sentTo = 0 THEN [destination EXCEPT ![h] = client_addr[h]]
                                  ELSE AddressOf(sentTo)
  /\ sentTo' = destination'.ip
  /\ credit' = credit - Throttle
  /\ handler' = "unlock"
  /\ UNCHANGED <<receiverVars, client_addr, client_ready, client_mutex, floor, since>>

\* ... and the datagram is on its way.
Send(h) ==
  /\ handler = ReadOf(OtherHalf(h))
  /\ destination' = [destination EXCEPT ![h] = client_addr[h]]
  /\ sentTo' = destination'.ip
  /\ credit' = credit - Throttle
  /\ handler' = "unlock"
  /\ UNCHANGED <<receiverVars, client_addr, client_ready, client_mutex, floor, since>>

SenderUnlock ==
  /\ handler = "unlock"
  /\ client_mutex' = "free"
  /\ handler' = "idle"
  /\ UNCHANGED <<receiverVars, client_addr, client_ready, destination, floor, sentTo,
                 since, credit>>

-----------------------------------------------------------------------------

\* The steady clock.
Tick ==
  /\ handler # "none"
  /\ since' = Min({since + 1, Throttle})
  /\ credit' = Min({credit + 1, CreditCap})
  /\ UNCHANGED <<receiverVars, client_addr, client_ready, client_mutex, handlerVars>>

Register ==
  \/ ReceiverLock
  \/ \E h \in Halves : CopyHalf(h) \/ CopyOtherHalf(h)
  \/ ReceiverUnlock
  \/ SetReady

Forward ==
  \/ _HighStateHandler
  \/ LoadReady
  \/ SenderLock
  \/ \E h \in Halves : ReadHalf(h) \/ Send(h)
  \/ SenderUnlock

Next ==
  \/ InitUDPServer \/ RecvEmpty \/ RecvClient \/ Register
  \/ FirstMessage \/ Forward
  \/ Tick

Spec == Init /\ [][Next]_vars

-----------------------------------------------------------------------------
(* Properties.                                                             *)

\* Every datagram goes to the whole address of a client that has registered
\* and that had not been replaced completely when the state arrived: never to
\* a mixture of two, to the zero address of before the first, or to the sender
\* of an empty datagram, whatever the receiver does meanwhile.
ToCurrentClient ==
  handler = "unlock" => \E k \in 1..heard : k >= floor /\ destination = AddressOf(k)

\* The datagrams are throttled: although the time is taken before the mutex
\* is, never more than two of them are closer than the rate allows.
RateKept == credit >= 0

\* A registered client receives states, or a later one does.
ClientServed ==
  \A k \in 1..MaxClients : (installed = k) ~> (sentTo >= k)

=============================================================================
