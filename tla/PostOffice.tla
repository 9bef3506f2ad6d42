----------------------------- MODULE PostOffice -----------------------------
(***************************************************************************)
(* The network of Nachos machines: the network devices (machine/network.cc)*)
(* that send a packet at a time, may lose it, and buffer one arrived       *)
(* packet; and the post office (network/post.cc) that delivers mail to     *)
(* mail boxes.  A mail box is a SynchList; its Append and RemoveFront are  *)
(* the Put and Get of module Channel, which SynchList implements.  The     *)
(* UNIX sockets between the machines keep order.                           *)
(*                                                                         *)
(* The clients on every machine are threads that send mail to a box of     *)
(* another machine, or wait for mail in a box of their own; what they send *)
(* is up to the module that uses this one (NetworkTest).  The model        *)
(* numbers the mail of a machine in the order in which it is sent.         *)
(***************************************************************************)
EXTENDS Naturals, Sequences, FiniteSets

CONSTANTS Host, Thread, Box,
          MaxMail,     \* bound on the mail that a machine sends
          NoMail

Mail == [from : Host, to : Host, box : Box, no : 1 .. MaxMail]

ASSUME PostOfficeAssumption ==
    /\ IsFiniteSet(Host) /\ IsFiniteSet(Thread)
    /\ MaxMail \in Nat
    /\ NoMail \notin Mail

VARIABLES sent,         \* the number of mails that a machine has sent
          wire,         \* wire[h]: the packets in the socket of h
          inHdr,        \* NetworkInput's buffer: a packet, or NoMail
          available,    \* the value of messageAvailable
          worker,       \* where the postal worker is: "P", "Receive", "Put"
          carrying,     \* the mail that it has in hand, or NoMail
          boxes,        \* boxes[h][b]: the mail in a box
          sendLock,     \* the value of sendLock
          messageSent,  \* the value of messageSent
          sendPending,  \* an interrupt NetworkSendInt is scheduled
          sendBusy,     \* NetworkOutput::sendBusy
          pc,           \* pc[h][t]: where a client is
          args,         \* the mail that it sends, or the box that it waits for
          got,          \* got[h][b]: the mail that clients of h have received
          reliable      \* no packet is lost: chanceToWork = 1, and a sendto
                        \* succeeds within the ten tries of SendToSocket

inVars == <<wire, inHdr, available, worker, carrying, boxes>>
outVars == <<sent, sendLock, messageSent, sendPending, sendBusy>>
postVars == <<inVars, outVars, pc, args, got, reliable>>

PostInit ==
    /\ sent = [h \in Host |-> 0]
    /\ wire = [h \in Host |-> << >>]
    /\ inHdr = [h \in Host |-> NoMail]
    /\ available = [h \in Host |-> 0]
    /\ worker = [h \in Host |-> "P"]
    /\ carrying = [h \in Host |-> NoMail]
    /\ boxes = [h \in Host |-> [b \in Box |-> << >>]]
    /\ sendLock = [h \in Host |-> 1]
    /\ messageSent = [h \in Host |-> 0]
    /\ sendPending = [h \in Host |-> FALSE]
    /\ sendBusy = [h \in Host |-> FALSE]
    /\ pc = [h \in Host |-> [t \in Thread |-> "idle"]]
    /\ args = [h \in Host |-> [t \in Thread |-> NoMail]]
    /\ got = [h \in Host |-> [b \in Box |-> << >>]]
    /\ reliable \in BOOLEAN

Go(h, t, to) == pc' = [pc EXCEPT ![h][t] = to]

At(h, S) == {t \in Thread : pc[h][t] \in S}
-----------------------------------------------------------------------------
(* A client calls PostOfficeOutput::Send, or PostOfficeInput::Receive.     *)
CallSend(h, t, to, b) ==
    /\ pc[h][t] = "idle"
    /\ sent[h] + Cardinality(At(h, {"Acquire", "Send"})) < MaxMail
    /\ args' = [args EXCEPT ![h][t] = [to |-> to, box |-> b]]
    /\ Go(h, t, "Acquire")
    /\ UNCHANGED <<inVars, outVars, got>>

CallReceive(h, t, b) ==
    /\ pc[h][t] = "idle"
    /\ args' = [args EXCEPT ![h][t] = b]
    /\ Go(h, t, "Receive")
    /\ UNCHANGED <<inVars, outVars, got>>

(* Definitions named Wrong... are plausible mistakes in the definition that *)
(* follows them; they are used only to show that the properties below      *)
(* notice them.                                                            *)

(* sendLock->Acquire() returns.                                            *)
Acquire(h, t) ==
    /\ pc[h][t] = "Acquire" /\ sendLock[h] > 0
    /\ sendLock' = [sendLock EXCEPT ![h] = @ - 1]
    /\ Go(h, t, "Send")
    /\ UNCHANGED <<inVars, sent, messageSent, sendPending, sendBusy, args, got>>

Packet(h, t) ==
    [from |-> h, to |-> args[h][t].to, box |-> args[h][t].box, no |-> sent[h] + 1]

(* SendToSocket that tries again after it has succeeded.                   *)
WrongNetworkSend(h, t) ==
    /\ pc[h][t] = "Send"
    /\ sendPending' = [sendPending EXCEPT ![h] = TRUE]
    /\ sent' = [sent EXCEPT ![h] = @ + 1]
    /\ wire' = [wire EXCEPT ![args[h][t].to] = @ \o <<Packet(h, t), Packet(h, t)>>]
    /\ Go(h, t, "SentP")
    /\ UNCHANGED <<inHdr, available, worker, carrying, boxes, sendLock,
                   messageSent, sendBusy, args, got>>

(* NetworkOutput::Send, up to the P() on messageSent.  It leaves sendBusy  *)
(* as it is.  A packet is lost by chance, or by SendToSocket after ten     *)
(* tries, unless the network is reliable.                                  *)
NetworkSend(h, t) ==
    /\ pc[h][t] = "Send"
    /\ sendPending' = [sendPending EXCEPT ![h] = TRUE]
    /\ sent' = [sent EXCEPT ![h] = @ + 1]
    /\ \/ ~reliable /\ UNCHANGED wire
       \/ wire' = [wire EXCEPT ![args[h][t].to] = Append(@, Packet(h, t))]
    /\ Go(h, t, "SentP")
    /\ UNCHANGED <<inHdr, available, worker, carrying, boxes, sendLock,
                   messageSent, sendBusy, args, got>>

(* NetworkOutput::CallBack and PostOfficeOutput::CallBack: also when the   *)
(* packet was lost.                                                        *)
SendInterrupt(h) ==
    /\ sendPending[h]
    /\ sendPending' = [sendPending EXCEPT ![h] = FALSE]
    /\ sendBusy' = [sendBusy EXCEPT ![h] = FALSE]
    /\ messageSent' = [messageSent EXCEPT ![h] = @ + 1]
    /\ UNCHANGED <<inVars, sent, sendLock, pc, args, got>>

(* messageSent->P() returns.                                               *)
SentP(h, t) ==
    /\ pc[h][t] = "SentP" /\ messageSent[h] > 0
    /\ messageSent' = [messageSent EXCEPT ![h] = @ - 1]
    /\ Go(h, t, "Release")
    /\ UNCHANGED <<inVars, sent, sendLock, sendPending, sendBusy, args, got>>

(* sendLock->Release().                                                    *)
Release(h, t) ==
    /\ pc[h][t] = "Release"
    /\ sendLock' = [sendLock EXCEPT ![h] = @ + 1]
    /\ args' = [args EXCEPT ![h][t] = NoMail]
    /\ Go(h, t, "idle")
    /\ UNCHANGED <<inVars, sent, messageSent, sendPending, sendBusy, got>>

(* NetworkInput::CallBack with a packet in the socket and room for it      *)
(* (otherwise it only polls again), and PostOfficeInput::CallBack.         *)
PacketArrives(h) ==
    /\ inHdr[h] = NoMail /\ wire[h] # << >>
    /\ inHdr' = [inHdr EXCEPT ![h] = Head(wire[h])]
    /\ wire' = [wire EXCEPT ![h] = Tail(@)]
    /\ available' = [available EXCEPT ![h] = @ + 1]
    /\ UNCHANGED <<worker, carrying, boxes, outVars, pc, args, got>>

(* PostalDelivery: messageAvailable->P() returns.                          *)
WorkerP(h) ==
    /\ worker[h] = "P" /\ available[h] > 0
    /\ available' = [available EXCEPT ![h] = @ - 1]
    /\ worker' = [worker EXCEPT ![h] = "Receive"]
    /\ UNCHANGED <<wire, inHdr, carrying, boxes, outVars, pc, args, got>>

(* A NetworkInput::Receive that leaves the packet in the buffer.           *)
WrongWorkerReceives(h) ==
    /\ worker[h] = "Receive"
    /\ carrying' = [carrying EXCEPT ![h] = inHdr[h]]
    /\ worker' = [worker EXCEPT ![h] = "Put"]
    /\ UNCHANGED <<wire, inHdr, available, boxes, outVars, pc, args, got>>

(* PostalDelivery: NetworkInput::Receive empties the device's buffer.      *)
WorkerReceives(h) ==
    /\ worker[h] = "Receive"
    /\ carrying' = [carrying EXCEPT ![h] = inHdr[h]]
    /\ inHdr' = [inHdr EXCEPT ![h] = NoMail]
    /\ worker' = [worker EXCEPT ![h] = "Put"]
    /\ UNCHANGED <<wire, available, boxes, outVars, pc, args, got>>

(* PostalDelivery: MailBox::Put.                                           *)
WorkerPuts(h) ==
    /\ worker[h] = "Put"
    /\ boxes' = [boxes EXCEPT ![h][carrying[h].box] = Append(@, carrying[h])]
    /\ carrying' = [carrying EXCEPT ![h] = NoMail]
    /\ worker' = [worker EXCEPT ![h] = "P"]
    /\ UNCHANGED <<wire, inHdr, available, outVars, pc, args, got>>

(* MailBox::Get returns to PostOfficeInput::Receive.                       *)
ReceiveMail(h, t) ==
    /\ pc[h][t] = "Receive" /\ boxes[h][args[h][t]] # << >>
    /\ got' = [got EXCEPT ![h][args[h][t]] = Append(@, Head(boxes[h][args[h][t]]))]
    /\ boxes' = [boxes EXCEPT ![h][args[h][t]] = Tail(@)]
    /\ args' = [args EXCEPT ![h][t] = NoMail]
    /\ Go(h, t, "idle")
    /\ UNCHANGED <<wire, inHdr, available, worker, carrying, outVars>>

ClientStep(h, t) ==
    /\ \/ Acquire(h, t) \/ NetworkSend(h, t) \/ SentP(h, t) \/ Release(h, t)
       \/ ReceiveMail(h, t)
    /\ UNCHANGED reliable

Worker(h) ==
    (WorkerP(h) \/ WorkerReceives(h) \/ WorkerPuts(h)) /\ UNCHANGED reliable

Devices(h) == (SendInterrupt(h) \/ PacketArrives(h)) /\ UNCHANGED reliable

(* Interrupts come, and a thread that can run does.                        *)
Fairness ==
    \A h \in Host :
        /\ WF_postVars(SendInterrupt(h) /\ UNCHANGED reliable)
        /\ WF_postVars(PacketArrives(h) /\ UNCHANGED reliable)
        /\ WF_postVars(Worker(h))
        /\ \A t \in Thread : WF_postVars(ClientStep(h, t))
-----------------------------------------------------------------------------
PC == {"idle", "Acquire", "Send", "SentP", "Release", "Receive"}

(* Types.                                                                  *)
PostTypeOK ==
    /\ sent \in [Host -> 0 .. MaxMail]
    /\ inHdr \in [Host -> Mail \cup {NoMail}]
    /\ \A h \in Host : IF worker[h] = "Put" THEN carrying[h] \in Mail ELSE carrying[h] = NoMail
    /\ worker \in [Host -> {"P", "Receive", "Put"}]
    /\ \A f \in {available, sendLock, messageSent} : f \in [Host -> 0 .. 1]
    /\ \A f \in {sendPending, sendBusy} : f \in [Host -> BOOLEAN]
    /\ pc \in [Host -> [Thread -> PC]]

(* "Only one message can be sent to the network at any one time": a client *)
(* at NetworkOutput::Send finds the device idle and no left-over unit of   *)
(* messageSent, although the device's own flag never says that it is busy. *)
OneSendAtATime ==
    \A h \in Host :
        /\ sendLock[h] + Cardinality(At(h, {"Send", "SentP", "Release"})) = 1
        /\ At(h, {"Send"}) # {} => ~sendPending[h] /\ messageSent[h] = 0
        /\ At(h, {"SentP"}) # {} <=> sendPending[h] \/ messageSent[h] = 1

(* The one-packet buffer is not overwritten and not read twice: it is full *)
(* exactly while the postal worker has been told and has not taken it.     *)
BufferHandedOver ==
    \A h \in Host :
        inHdr[h] # NoMail <=> available[h] = 1 \/ worker[h] = "Receive"

(* The mail that is in a sequence, and in a place that holds at most one.  *)
Mails(s) == {s[i] : i \in 1 .. Len(s)}
InPlace(m) == IF m = NoMail THEN << >> ELSE <<m>>

(* The stages of the way to box b of h, the last one first.                *)
Stages(h, b) ==
    <<got[h][b], boxes[h][b], InPlace(carrying[h]), InPlace(inHdr[h]), wire[h]>>

(* Mail that machine h has, or that has been sent to it, for box b or, as  *)
(* long as the postal worker has not put it into a box, for any.           *)
OnTheWay(h, b) == UNION {Mails(Stages(h, b)[k]) : k \in 1 .. 5}

(* The mail in s that comes from one machine is in the order in which that *)
(* machine sent it; and the mail in s is older than the mail in r.         *)
InOrder(s) ==
    \A i, j \in 1 .. Len(s) : i < j /\ s[i].from = s[j].from => s[i].no < s[j].no
Older(s, r) ==
    \A m \in Mails(s), n \in Mails(r) : m.from = n.from => m.no < n.no

(* Clients receive mail only in the box that it was sent to, the mail of a *)
(* machine in the order in which it was sent, and no mail twice, whatever  *)
(* is lost.  With a reliable network every mail that has been sent is      *)
(* received, or on its way.  It rests on the devices: the sending and the  *)
(* receiving one handle one packet at a time.                              *)
MailArrives ==
    /\ PostTypeOK /\ OneSendAtATime /\ BufferHandedOver
    /\ \A h \in Host, b \in Box :
          /\ \A m \in OnTheWay(h, b) : m.to = h
          /\ \A m \in Mails(got[h][b]) \cup Mails(boxes[h][b]) : m.box = b
          /\ \A k \in 1 .. 5 :
                /\ InOrder(Stages(h, b)[k])
                /\ \A l \in k + 1 .. 5 : Older(Stages(h, b)[k], Stages(h, b)[l])
    /\ reliable =>
          \A g \in Host : \A n \in 1 .. sent[g] : \E h \in Host, b \in Box :
             \E m \in OnTheWay(h, b) : m.from = g /\ m.no = n
=============================================================================
