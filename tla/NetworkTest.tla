---------------------------- MODULE NetworkTest ----------------------------
(***************************************************************************)
(* Kernel::NetworkTest (kernel.cc), which two machines run against each    *)
(* other on top of the post office: send the first message to box 0 of the *)
(* other machine, wait for its first message, acknowledge it in the box    *)
(* that it names as "reply to", wait for the acknowledgement of one's own. *)
(* The thread main runs the test; any other thread of a machine in Busy    *)
(* sends a message to box 2 of the other machine, so that clients of the   *)
(* post office meet at its lock and mail for different boxes passes        *)
(* through the postal worker's hands.                                      *)
(***************************************************************************)
EXTENDS PostOffice

CONSTANTS FarHost,   \* the other machine
          Busy,      \* the machines where other threads send mail, too
          main       \* the thread that runs Kernel::NetworkTest

ASSUME NetworkTestAssumption ==
    /\ FarHost \in [Host -> Host] /\ \A h \in Host : FarHost[h] # h
    /\ {0, 1, 2} \subseteq Box /\ main \in Thread /\ Busy \subseteq Host
    /\ MaxMail >= Cardinality(Thread) + 1

VARIABLE step   \* step[h][t]: the statement of NetworkTest that is next

testVars == <<postVars, step>>

TestInit == PostInit /\ step = [h \in Host |-> [t \in Thread |-> "SendFirst"]]

To(h, t, s) == step' = [step EXCEPT ![h][t] = s] /\ UNCHANGED reliable

(* outMailHdr.from: both machines name box 1 in their first message.       *)
ReplyTo == 1

(* The first message that machine h got: inPktHdr after the first Receive. *)
First(h) == got[h][0][1]

SendFirst(h) ==
    /\ step[h][main] = "SendFirst" /\ CallSend(h, main, FarHost[h], 0)
    /\ To(h, main, "ReceiveFirst")

ReceiveFirst(h) ==
    /\ step[h][main] = "ReceiveFirst" /\ CallReceive(h, main, 0)
    /\ To(h, main, "SendAck")

(* An acknowledgement in the box of the first messages.                    *)
WrongSendAck(h) ==
    /\ step[h][main] = "SendAck" /\ CallSend(h, main, First(h).from, 0)
    /\ To(h, main, "ReceiveAck")

SendAck(h) ==
    /\ step[h][main] = "SendAck" /\ CallSend(h, main, First(h).from, ReplyTo)
    /\ To(h, main, "ReceiveAck")

(* A test that does not wait for the acknowledgement.                      *)
WrongReceiveAck(h) ==
    /\ step[h][main] = "ReceiveAck" /\ pc[h][main] = "idle"
    /\ To(h, main, "done")
    /\ UNCHANGED <<inVars, outVars, pc, args, got>>

ReceiveAck(h) ==
    /\ step[h][main] = "ReceiveAck" /\ CallReceive(h, main, 1)
    /\ To(h, main, "done")

(* Another client of the post office.                                      *)
OtherClient(h, t) ==
    /\ h \in Busy /\ t # main
    /\ step[h][t] = "SendFirst" /\ CallSend(h, t, FarHost[h], 2)
    /\ To(h, t, "done")

TestStep(h) ==
    \/ SendFirst(h) \/ ReceiveFirst(h) \/ SendAck(h) \/ ReceiveAck(h)

TestNext ==
    \E h \in Host :
        \/ TestStep(h) \/ \E t \in Thread : OtherClient(h, t)
        \/ /\ Devices(h) \/ Worker(h) \/ \E t \in Thread : ClientStep(h, t)
           /\ UNCHANGED step

(* The other clients need not do anything, but a call that they make goes  *)
(* on (Fairness).                                                          *)
TestSpec ==
    /\ TestInit /\ [][TestNext]_testVars
    /\ \A h \in Host : WF_testVars(TestStep(h))
    /\ Fairness
-----------------------------------------------------------------------------
Done(h) == step[h][main] = "done" /\ pc[h][main] = "idle"

(* A machine that has finished the test knows that the other one got its   *)
(* first message, and has itself got exactly one message in each box of    *)
(* the test, whatever the network loses.                                   *)
AckMeansReceived ==
    \A h \in Host :
        Done(h) => /\ got[FarHost[h]][0] # << >> /\ First(FarHost[h]).from = h
                   /\ \A b \in {0, 1} : Len(got[h][b]) = 1

(* On a reliable network both machines finish the test, whatever the other *)
(* clients do.                                                             *)
TestEnds == reliable ~> \A h \in Host : Done(h)
=============================================================================
