--------------------------- MODULE NetworkProofs ---------------------------
(***************************************************************************)
(* Proofs about the network, for any number of machines, threads and mail  *)
(* boxes, any bound on the mail, with losses and without: MailArrives (the *)
(* devices and the post office) and AckMeansReceived (the network test).   *)
(*                                                                         *)
(* The inductive invariant NetInv has three parts.  PostInv: the types,    *)
(* the lock and the semaphore of the sending device (SendInv), the buffer  *)
(* of the receiving one (BufferInv), the order of the mail in the five     *)
(* stages of its way to a box (WayInv), and that a reliable network loses  *)
(* none (NoneLost).  BoundInv: the calls under way fit under the bound on  *)
(* the mail.  TestInv: what the mail and the calls of the test mean, and   *)
(* how far the test is.                                                    *)
(***************************************************************************)
EXTENDS NetworkTest, TLAPS
-----------------------------------------------------------------------------
Sending == {"Acquire", "Send", "SentP", "Release"}
Letter == [to : Host, box : Box]

Arg == Letter \cup Box \cup {NoMail}

(* Types, also of what MailArrives leaves open.                            *)
MailTypes ==
    /\ sent \in [Host -> Nat]
    /\ wire \in [Host -> Seq(Mail)]
    /\ inHdr \in [Host -> Mail \cup {NoMail}]
    /\ carrying \in [Host -> Mail \cup {NoMail}]
    /\ boxes \in [Host -> [Box -> Seq(Mail)]]
    /\ got \in [Host -> [Box -> Seq(Mail)]]

DeviceTypes ==
    /\ worker \in [Host -> {"P", "Receive", "Put"}]
    /\ available \in [Host -> 0 .. 1]
    /\ sendLock \in [Host -> 0 .. 1]
    /\ messageSent \in [Host -> 0 .. 1]
    /\ sendPending \in [Host -> BOOLEAN]
    /\ sendBusy \in [Host -> BOOLEAN]

CallTypes ==
    /\ pc \in [Host -> [Thread -> PC]]
    /\ args \in [Host -> [Thread -> Arg]]
    /\ \A h \in Host, t \in Thread :
          /\ pc[h][t] \in Sending => args[h][t] \in Letter
          /\ pc[h][t] = "Receive" => args[h][t] \in Box

HasLock(h, t) == pc[h][t] \in {"Send", "SentP", "Release"}

(* The sending device and its lock, without counting.                      *)
SendAt(h) ==
    /\ sendLock[h] = 0 <=> \E t \in Thread : HasLock(h, t)
    /\ \A t, u \in Thread : HasLock(h, t) /\ HasLock(h, u) => t = u
    /\ \A t \in Thread : pc[h][t] = "Send" => ~sendPending[h] /\ messageSent[h] = 0
    /\ (\E t \in Thread : pc[h][t] = "SentP") <=> sendPending[h] \/ messageSent[h] = 1
    /\ ~(sendPending[h] /\ messageSent[h] = 1)

SendInv == \A h \in Host : SendAt(h)

(* The receiving device and the postal worker.                             *)
BufferAt(h) ==
    /\ inHdr[h] # NoMail <=> available[h] = 1 \/ worker[h] = "Receive"
    /\ ~(available[h] = 1 /\ worker[h] = "Receive")
    /\ carrying[h] # NoMail <=> worker[h] = "Put"

BufferInv == \A h \in Host : BufferAt(h)

(* The bound counts the mail of the calls under way.                       *)
BoundInv ==
    \A h \in Host : sent[h] + Cardinality(At(h, {"Acquire", "Send"})) <= MaxMail

(* Five stages in order.                                                   *)
Flow(a, b, c, d, e) ==
    /\ InOrder(a) /\ InOrder(b) /\ InOrder(c) /\ InOrder(d) /\ InOrder(e)
    /\ Older(a, b) /\ Older(a, c) /\ Older(a, d) /\ Older(a, e)
    /\ Older(b, c) /\ Older(b, d) /\ Older(b, e)
    /\ Older(c, d) /\ Older(c, e)
    /\ Older(d, e)

Way(a, b, c, d, e) == Mails(a) \cup Mails(b) \cup Mails(c) \cup Mails(d) \cup Mails(e)

FlowAt(h, b) ==
    Flow(got[h][b], boxes[h][b], InPlace(carrying[h]), InPlace(inHdr[h]), wire[h])
WayTo(h, b) ==
    Way(got[h][b], boxes[h][b], InPlace(carrying[h]), InPlace(inHdr[h]), wire[h])

(* What is on the way goes to its machine, has been sent and is in order.  *)
WayInv ==
    \A h \in Host, b \in Box :
        /\ \A m \in WayTo(h, b) : m.to = h /\ m.no <= sent[m.from]
        /\ \A m \in Mails(got[h][b]) \cup Mails(boxes[h][b]) : m.box = b
        /\ FlowAt(h, b)

(* A reliable network loses nothing.                                       *)
NoneLost ==
    reliable =>
        \A g \in Host : \A n \in 1 .. sent[g] : \E h \in Host, b \in Box :
            \E m \in WayTo(h, b) : m.from = g /\ m.no = n

PostInv == MailTypes /\ DeviceTypes /\ CallTypes /\ SendInv /\ BufferInv /\ WayInv /\ NoneLost

-----------------------------------------------------------------------------
(* One entry of a function, and of a function of functions, is changed.    *)
LEMMA EntrySet ==
    ASSUME NEW S, NEW V, NEW f \in [S -> V], NEW s \in S, NEW v \in V,
           NEW g, g = [f EXCEPT ![s] = v]
    PROVE  /\ g \in [S -> V] /\ g[s] = v
           /\ \A a \in S \ {s} : g[a] = f[a]
OBVIOUS

(* ... and one of a function of functions.                                 *)
LEMMA CellSet ==
    ASSUME NEW S, NEW T, NEW V, NEW f \in [S -> [T -> V]],
           NEW s \in S, NEW t \in T, NEW v \in V,
           NEW g, g = [f EXCEPT ![s][t] = v]
    PROVE  /\ g \in [S -> [T -> V]] /\ g[s][t] = v
           /\ \A a \in S, b \in T : a # s \/ b # t => g[a][b] = f[a][b]
<1> DEFINE r == [f[s] EXCEPT ![t] = v]
<1>1. f[s] \in [T -> V]
    BY Zenon
<1>2. r \in [T -> V] /\ r[t] = v /\ \A b \in T \ {t} : r[b] = f[s][b]
    BY <1>1, Zenon
<1>3. g = [f EXCEPT ![s] = r]
    OBVIOUS
<1> HIDE DEF r
<1>4. g \in [S -> [T -> V]] /\ g[s] = r /\ \A a \in S \ {s} : g[a] = f[a]
    BY <1>2, <1>3
<1> QED
    BY <1>2, <1>4

(* What the ends of a sequence are made of.                                *)
LEMMA MailsAppend ==
    ASSUME NEW S, NEW s \in Seq(S), NEW m
    PROVE  Mails(Append(s, m)) = Mails(s) \cup {m}
<1>1. Len(Append(s, m)) = Len(s) + 1 /\ Len(s) \in Nat
    OBVIOUS
<1>2. Append(s, m)[Len(s) + 1] = m /\ \A i \in 1 .. Len(s) : Append(s, m)[i] = s[i]
    OBVIOUS
<1> QED
    BY <1>1, <1>2 DEF Mails

(* The mail of a sequence of none or one.                                  *)
LEMMA MailsFew == ASSUME NEW m PROVE Mails(<< >>) = {} /\ Mails(<<m>>) = {m}
BY DEF Mails

(* The mail of a sequence is its first and the rest.                       *)
LEMMA MailsHead ==
    ASSUME NEW S, NEW s \in Seq(S), s # << >>
    PROVE  /\ Head(s) \in S /\ Tail(s) \in Seq(S)
           /\ Mails(s) = {Head(s)} \cup Mails(Tail(s))
<1>1. /\ Head(s) \in S /\ Tail(s) \in Seq(S) /\ Len(s) \in Nat /\ Len(s) > 0
      /\ Len(Tail(s)) = Len(s) - 1 /\ Head(s) = s[1]
      /\ \A i \in 1 .. Len(s) - 1 : Tail(s)[i] = s[i + 1]
    OBVIOUS
<1>2. \A m : m \in Mails(s) <=> m = Head(s) \/ m \in Mails(Tail(s))
    <2> SUFFICES ASSUME NEW m PROVE m \in Mails(s) <=> m = Head(s) \/ m \in Mails(Tail(s))
        BY Zenon
    <2>1. ASSUME NEW i \in 1 .. Len(s), m = s[i] PROVE m = Head(s) \/ m \in Mails(Tail(s))
        <3>1. CASE i = 1
            BY <1>1, <2>1, <3>1
        <3>2. CASE i > 1
            <4>1. i - 1 \in 1 .. Len(Tail(s)) /\ Tail(s)[i - 1] = m
                BY <1>1, <2>1, <3>2
            <4> QED
                BY <4>1, Zenon DEF Mails
        <3> QED
            BY <1>1, <3>1, <3>2
    <2>2. m = Head(s) => m \in Mails(s)
        BY <1>1 DEF Mails
    <2>3. ASSUME NEW i \in 1 .. Len(Tail(s)), m = Tail(s)[i] PROVE m \in Mails(s)
        <3>1. i + 1 \in 1 .. Len(s) /\ s[i + 1] = m
            BY <1>1, <2>3
        <3> QED
            BY <3>1 DEF Mails
    <2> QED
        BY <2>1, <2>2, <2>3, Zenon DEF Mails
<1> QED
    BY <1>1, <1>2, Zenon

(* Order at the ends of a sequence.                                        *)
LEMMA OrderAppend ==
    ASSUME NEW s \in Seq(Mail), NEW m \in Mail, InOrder(s), Older(s, <<m>>)
    PROVE  InOrder(Append(s, m))
<1> DEFINE r == Append(s, m)
<1>1. /\ Len(r) = Len(s) + 1 /\ Len(s) \in Nat
      /\ r[Len(s) + 1] = m /\ \A i \in 1 .. Len(s) : r[i] = s[i]
    OBVIOUS
<1>2. \A i \in 1 .. Len(s) : s[i].from = m.from => s[i].no < m.no
    BY MailsFew DEF Older, Mails
<1> HIDE DEF r
<1>3. InOrder(r)
    <2> SUFFICES ASSUME NEW i \in 1 .. Len(r), NEW j \in 1 .. Len(r), i < j, r[i].from = r[j].from
                 PROVE  r[i].no < r[j].no
        BY Zenon DEF InOrder
    <2>1. i \in 1 .. Len(s)
        BY <1>1
    <2>2. CASE j = Len(s) + 1
        BY <1>1, <1>2, <2>1, <2>2, Zenon
    <2>3. CASE j \in 1 .. Len(s)
        BY <1>1, <2>1, <2>3, Zenon DEF InOrder
    <2> QED
        BY <1>1, <2>2, <2>3, SMTT(30)
<1> QED
    BY <1>3, Zenon DEF r

(* The first of a sequence in order is older than the rest.                *)
LEMMA OrderTail ==
    ASSUME NEW s \in Seq(Mail), s # << >>, InOrder(s)
    PROVE  InOrder(Tail(s)) /\ Older(<<Head(s)>>, Tail(s))
<1> DEFINE r == Tail(s)
<1>1. /\ Len(s) \in Nat /\ Len(s) > 0 /\ Len(r) = Len(s) - 1 /\ Head(s) = s[1]
      /\ \A i \in 1 .. Len(r) : r[i] = s[i + 1] /\ i + 1 \in 1 .. Len(s)
    OBVIOUS
<1> HIDE DEF r
<1>2. InOrder(r)
    <2> SUFFICES ASSUME NEW i \in 1 .. Len(r), NEW j \in 1 .. Len(r), i < j, r[i].from = r[j].from
                 PROVE  r[i].no < r[j].no
        BY Zenon DEF InOrder
    <2>1. i + 1 \in 1 .. Len(s) /\ j + 1 \in 1 .. Len(s) /\ i + 1 < j + 1
        BY <1>1
    <2> QED
        BY <1>1, <2>1, Zenon DEF InOrder
<1>3. \A i \in 1 .. Len(r) : s[1].from = r[i].from => s[1].no < r[i].no
    <2> SUFFICES ASSUME NEW i \in 1 .. Len(r) PROVE s[1].from = r[i].from => s[1].no < r[i].no
        BY Zenon
    <2>1. 1 \in 1 .. Len(s) /\ i + 1 \in 1 .. Len(s) /\ 1 < i + 1
        BY <1>1
    <2> QED
        BY <1>1, <2>1, Zenon DEF InOrder
<1>4. Older(<<Head(s)>>, r)
    BY <1>1, <1>3, MailsFew DEF Older, Mails
<1> QED
    BY <1>2, <1>4 DEF r

(* None or one is in order.                                                *)
LEMMA OrderFew == ASSUME NEW m PROVE InOrder(<< >>) /\ InOrder(<<m>>)
BY DEF InOrder
-----------------------------------------------------------------------------
(* What moves on from one stage to the next keeps its place in the order.  *)
LEMMA MoveIntoBuffer ==
    ASSUME NEW a, NEW b, NEW c, NEW e \in Seq(Mail), e # << >>, Flow(a, b, c, << >>, e)
    PROVE  /\ Flow(a, b, c, <<Head(e)>>, Tail(e))
           /\ Way(a, b, c, <<Head(e)>>, Tail(e)) = Way(a, b, c, << >>, e)
<1>1. Mails(e) = {Head(e)} \cup Mails(Tail(e))
    BY MailsHead
<1>2. Mails(<<Head(e)>>) = {Head(e)} /\ Mails(<< >>) = {}
    BY MailsFew
<1>3. InOrder(Tail(e)) /\ Older(<<Head(e)>>, Tail(e)) /\ InOrder(<<Head(e)>>)
    BY OrderTail, OrderFew, Zenon DEF Flow
<1>4. \A s : Older(s, e) => Older(s, <<Head(e)>>) /\ Older(s, Tail(e))
    BY <1>1, <1>2, Zenon DEF Older
<1>5. Flow(a, b, c, <<Head(e)>>, Tail(e))
    BY <1>3, <1>4, Zenon DEF Flow
<1> QED
    BY <1>1, <1>2, <1>5, Zenon DEF Way

(* From the buffer of the device into the hand of the postal worker.       *)
LEMMA MoveIntoHand ==
    ASSUME NEW a, NEW b, NEW m, NEW e, Flow(a, b, << >>, <<m>>, e)
    PROVE  /\ Flow(a, b, <<m>>, << >>, e)
           /\ Way(a, b, <<m>>, << >>, e) = Way(a, b, << >>, <<m>>, e)
<1>1. Mails(<<m>>) = {m} /\ Mails(<< >>) = {}
    BY MailsFew, Zenon
<1>2. Older(<<m>>, << >>) /\ Older(<< >>, e)
    BY <1>1, Zenon DEF Older
<1> QED
    BY <1>1, <1>2, Zenon DEF Flow, Way

(* From there into a box, or into none that is looked at.                  *)
LEMMA MoveIntoBox ==
    ASSUME NEW a, NEW b \in Seq(Mail), NEW m \in Mail, NEW d, NEW e,
           Flow(a, b, <<m>>, d, e)
    PROVE  /\ Flow(a, Append(b, m), << >>, d, e)
           /\ Way(a, Append(b, m), << >>, d, e) = Way(a, b, <<m>>, d, e)
           /\ Flow(a, b, << >>, d, e)
           /\ Way(a, b, << >>, d, e) \subseteq Way(a, b, <<m>>, d, e)
<1>1. Mails(<<m>>) = {m} /\ Mails(<< >>) = {} /\ Mails(Append(b, m)) = Mails(b) \cup {m}
    BY MailsFew, MailsAppend
<1>2. InOrder(Append(b, m)) /\ InOrder(<< >>)
    BY OrderAppend, OrderFew, Zenon DEF Flow
<1>3. /\ Older(a, b) /\ Older(a, <<m>>) => Older(a, Append(b, m))
      /\ \A s : Older(b, s) /\ Older(<<m>>, s) => Older(Append(b, m), s)
      /\ \A s : Older(<< >>, s) /\ Older(s, << >>)
    BY <1>1, Zenon DEF Older
<1>4. Flow(a, Append(b, m), << >>, d, e) /\ Flow(a, b, << >>, d, e)
    BY <1>2, <1>3, Zenon DEF Flow
<1> QED
    BY <1>1, <1>4, Zenon DEF Way

(* From a box to the client that waits.                                    *)
LEMMA MoveToClient ==
    ASSUME NEW a \in Seq(Mail), NEW b \in Seq(Mail), b # << >>, NEW c, NEW d, NEW e,
           Flow(a, b, c, d, e)
    PROVE  /\ Flow(Append(a, Head(b)), Tail(b), c, d, e)
           /\ Way(Append(a, Head(b)), Tail(b), c, d, e) = Way(a, b, c, d, e)
<1> DEFINE m == Head(b)
           r == Tail(b)
<1>1. m \in Mail /\ r \in Seq(Mail) /\ Mails(b) = {m} \cup Mails(r)
    BY MailsHead, Zenon
<1>2. InOrder(r) /\ Older(<<m>>, r)
    BY OrderTail, Zenon DEF Flow
<1> HIDE DEF m, r
<1>3. Mails(<<m>>) = {m} /\ Mails(Append(a, m)) = Mails(a) \cup {m}
    BY MailsFew, MailsAppend
<1>4. /\ \A s : Older(s, b) => Older(s, <<m>>) /\ Older(s, r)
      /\ \A s : Older(b, s) => Older(<<m>>, s) /\ Older(r, s)
      /\ \A s : Older(a, s) /\ Older(<<m>>, s) => Older(Append(a, m), s)
    BY <1>1, <1>3, Zenon DEF Older
<1>5. InOrder(Append(a, m))
    BY <1>1, <1>4, OrderAppend, Zenon DEF Flow
<1>6. Flow(Append(a, m), r, c, d, e)
    BY <1>2, <1>4, <1>5, Zenon DEF Flow
<1>7. Way(Append(a, m), r, c, d, e) = Way(a, b, c, d, e)
    BY <1>1, <1>3, Zenon DEF Way
<1> QED
    BY <1>6, <1>7, Zenon DEF m, r

(* New mail comes after what has been sent before it.                      *)
LEMMA NewMail ==
    ASSUME NEW a, NEW b, NEW c, NEW d, NEW e \in Seq(Mail), NEW m \in Mail,
           Flow(a, b, c, d, e),
           \A n \in Way(a, b, c, d, e) : n.from = m.from => n.no < m.no
    PROVE  /\ Flow(a, b, c, d, Append(e, m))
           /\ Way(a, b, c, d, Append(e, m)) = Way(a, b, c, d, e) \cup {m}
<1>1. Mails(<<m>>) = {m} /\ Mails(Append(e, m)) = Mails(e) \cup {m}
    BY MailsFew, MailsAppend, Zenon
<1>2. \A s : Mails(s) \subseteq Way(a, b, c, d, e) => Older(s, <<m>>)
    BY <1>1, Zenon DEF Older
<1>3. \A s : Older(s, e) /\ Older(s, <<m>>) => Older(s, Append(e, m))
    BY <1>1, Zenon DEF Older
<1>4. Older(a, <<m>>) /\ Older(b, <<m>>) /\ Older(c, <<m>>) /\ Older(d, <<m>>) /\ Older(e, <<m>>)
    BY <1>2, Zenon DEF Way
<1>5. InOrder(Append(e, m))
    BY <1>4, OrderAppend, Zenon DEF Flow
<1>6. Flow(a, b, c, d, Append(e, m))
    BY <1>3, <1>4, <1>5, Zenon DEF Flow
<1> QED
    BY <1>1, <1>6, Zenon DEF Way
-----------------------------------------------------------------------------
(* What is on the way to a box is mail.                                    *)
LEMMA WayTypes ==
    ASSUME MailTypes, NEW h \in Host, NEW b \in Box
    PROVE  /\ WayTo(h, b) \subseteq Mail
           /\ got[h][b] \in Seq(Mail) /\ boxes[h][b] \in Seq(Mail) /\ wire[h] \in Seq(Mail)
<1>1. \A s \in Seq(Mail) : Mails(s) \subseteq Mail
    BY DEF Mails
<1>2. got[h][b] \in Seq(Mail) /\ boxes[h][b] \in Seq(Mail) /\ wire[h] \in Seq(Mail)
    BY DEF MailTypes
<1>3. carrying[h] \in Mail \cup {NoMail} /\ inHdr[h] \in Mail \cup {NoMail}
    BY Zenon DEF MailTypes
<1>4. Mails(InPlace(carrying[h])) \subseteq Mail /\ Mails(InPlace(inHdr[h])) \subseteq Mail
    BY <1>3, MailsFew DEF InPlace
<1> QED
    BY <1>1, <1>2, <1>4, Zenon DEF WayTo, Way

(* A step that leaves the mail where it is.                                *)
LEMMA MailStays ==
    ASSUME PostInv, UNCHANGED <<inVars, got, sent, reliable>>
    PROVE  /\ BufferInv' /\ WayInv' /\ NoneLost'
           /\ \A h \in Host, b \in Box : WayTo(h, b)' = WayTo(h, b)
<1>1. /\ wire' = wire /\ inHdr' = inHdr /\ available' = available /\ worker' = worker
      /\ carrying' = carrying /\ boxes' = boxes /\ got' = got /\ sent' = sent
      /\ reliable' = reliable
    BY Zenon DEF inVars
<1>2. \A h, b : WayTo(h, b)' = WayTo(h, b) /\ (FlowAt(h, b)' <=> FlowAt(h, b))
    BY <1>1, Zenon DEF WayTo, FlowAt
<1>3. BufferInv'
    BY <1>1, Zenon DEF PostInv, BufferInv, BufferAt
<1>4. WayInv'
    BY <1>1, <1>2 DEF PostInv, WayInv
<1>5. NoneLost'
    BY <1>1, <1>2 DEF PostInv, NoneLost
<1> QED
    BY <1>2, <1>3, <1>4, <1>5, Zenon

(* A step that moves mail on.                                              *)
MovesOn ==
    /\ sent' = sent /\ reliable' = reliable
    /\ \A h \in Host, b \in Box :
          /\ WayTo(h, b)' \subseteq WayTo(h, b)
          /\ \A m \in WayTo(h, b) : \E d \in Box : m \in WayTo(h, d)'
          /\ \A m \in Mails(got'[h][b]) \cup Mails(boxes'[h][b]) : m.box = b
          /\ FlowAt(h, b)'

(* Such a step loses no mail and brings none to the wrong machine.         *)
LEMMA MailMoves ==
    ASSUME PostInv, MovesOn
    PROVE  WayInv' /\ NoneLost'
<1>1. WayInv'
    BY DEF PostInv, WayInv, MovesOn
<1>2. NoneLost'
    <2> SUFFICES ASSUME reliable', NEW g \in Host, NEW n \in 1 .. sent'[g]
                 PROVE  \E h \in Host, b \in Box : \E m \in WayTo(h, b)' : m.from = g /\ m.no = n
        BY Zenon DEF NoneLost
    <2>1. PICK h \in Host, b \in Box : \E m \in WayTo(h, b) : m.from = g /\ m.no = n
        BY DEF PostInv, NoneLost, MovesOn
    <2> QED
        BY <2>1 DEF MovesOn
<1> QED
    BY <1>1, <1>2, Zenon

(* A machine where no client at the device takes a step.                   *)
LEMMA SendKept ==
    ASSUME NEW h \in Host, SendAt(h),
           sendLock'[h] = sendLock[h], messageSent'[h] = messageSent[h],
           sendPending'[h] = sendPending[h],
           \A t \in Thread :
              pc'[h][t] = pc[h][t] \/ {pc[h][t], pc'[h][t]} \subseteq {"idle", "Acquire", "Receive"}
    PROVE  SendAt(h)'
<1>1. \A t \in Thread :
         /\ HasLock(h, t)' <=> HasLock(h, t)
         /\ pc'[h][t] = "Send" <=> pc[h][t] = "Send"
         /\ pc'[h][t] = "SentP" <=> pc[h][t] = "SentP"
    BY Zenon DEF HasLock
<1> QED
    BY <1>1 DEF SendAt

(* A client goes from one place to another, with other arguments or none.  *)
SetArgs(h, t, a) == args' = [args EXCEPT ![h][t] = a]

(* ... with SetArgs for the new arguments.                                 *)
LEMMA ClientGoes ==
    ASSUME CallTypes, NEW h \in Host, NEW t \in Thread, NEW to \in PC, NEW a \in Arg,
           Go(h, t, to), SetArgs(h, t, a),
           to \in Sending => a \in Letter, to = "Receive" => a \in Box
    PROVE  /\ CallTypes' /\ pc'[h][t] = to /\ args'[h][t] = a
           /\ \A g \in Host, u \in Thread : g # h \/ u # t =>
                 pc'[g][u] = pc[g][u] /\ args'[g][u] = args[g][u]
<1>1. pc \in [Host -> [Thread -> PC]] /\ pc' = [pc EXCEPT ![h][t] = to]
      /\ args \in [Host -> [Thread -> Arg]]
    BY Zenon DEF CallTypes, Go
<1>2. /\ pc' \in [Host -> [Thread -> PC]] /\ pc'[h][t] = to
      /\ \A g \in Host, u \in Thread : g # h \/ u # t => pc'[g][u] = pc[g][u]
    BY <1>1, CellSet
<1>3. /\ args' \in [Host -> [Thread -> Arg]] /\ args'[h][t] = a
      /\ \A g \in Host, u \in Thread : g # h \/ u # t => args'[g][u] = args[g][u]
    BY <1>1, CellSet DEF SetArgs
<1>4. \A g \in Host, u \in Thread :
          /\ pc'[g][u] \in Sending => args'[g][u] \in Letter
          /\ pc'[g][u] = "Receive" => args'[g][u] \in Box
    BY <1>2, <1>3, SMTT(30) DEF CallTypes
<1> QED
    BY <1>2, <1>3, <1>4, Zenon DEF CallTypes

(* ... or with the same ones.                                              *)
LEMMA ClientGoesOn ==
    ASSUME CallTypes, NEW h \in Host, NEW t \in Thread, NEW to \in PC,
           Go(h, t, to), args' = args, pc[h][t] \in Sending, to \in Sending
    PROVE  /\ CallTypes' /\ pc'[h][t] = to
           /\ \A g \in Host, u \in Thread : g # h \/ u # t => pc'[g][u] = pc[g][u]
<1>1. pc \in [Host -> [Thread -> PC]] /\ pc' = [pc EXCEPT ![h][t] = to]
    BY Zenon DEF CallTypes, Go
<1>2. /\ pc' \in [Host -> [Thread -> PC]] /\ pc'[h][t] = to
      /\ \A g \in Host, u \in Thread : g # h \/ u # t => pc'[g][u] = pc[g][u]
    BY <1>1, CellSet
<1>3. to # "Receive"
    BY Zenon DEF Sending
<1> QED
    BY <1>2, <1>3 DEF CallTypes
-----------------------------------------------------------------------------
(* The calls.                                                              *)
LEMMA CallStep ==
    ASSUME PostInv, NEW h \in Host, NEW t \in Thread,
           \/ \E to \in Host, b \in Box : CallSend(h, t, to, b)
           \/ \E b \in Box : CallReceive(h, t, b),
           UNCHANGED reliable
    PROVE  PostInv'
<1>1. UNCHANGED <<wire, inHdr, available, worker, carrying, boxes, got,
                  sent, sendLock, messageSent, sendPending, sendBusy>>
    BY Zenon DEF CallSend, CallReceive, inVars, outVars
<1>2. PICK to \in {"Acquire", "Receive"}, a \in Arg :
         /\ pc[h][t] = "idle" /\ Go(h, t, to) /\ SetArgs(h, t, a)
         /\ to = "Acquire" => a \in Letter
         /\ to = "Receive" => a \in Box
    BY Zenon DEF CallSend, CallReceive, Letter, Arg, SetArgs
<1>3. /\ CallTypes' /\ pc'[h][t] = to
      /\ \A g \in Host, u \in Thread : g # h \/ u # t => pc'[g][u] = pc[g][u]
    <2>1. CallTypes /\ to \in PC /\ (to \in Sending => a \in Letter) /\ (to = "Receive" => a \in Box)
        BY <1>2, Zenon DEF PostInv, PC, Sending
    <2> QED
        BY <1>2, <2>1, ClientGoes
<1>4. MailTypes' /\ DeviceTypes'
    BY <1>1, Zenon DEF PostInv, MailTypes, DeviceTypes
<1>5. SendInv'
    <2>1. \A g \in Host, u \in Thread :
             pc'[g][u] = pc[g][u] \/ {pc[g][u], pc'[g][u]} \subseteq {"idle", "Acquire", "Receive"}
        BY <1>2, <1>3, Zenon
    <2> QED
        BY <1>1, <2>1, SendKept, Zenon DEF PostInv, SendInv
<1>6. BufferInv' /\ WayInv' /\ NoneLost'
    BY <1>1, MailStays, Zenon DEF inVars
<1> QED
    BY <1>3, <1>4, <1>5, <1>6, Zenon DEF PostInv

(* PostOfficeOutput::Send.                                                 *)
LEMMA AcquireStep ==
    ASSUME PostInv, NEW h \in Host, NEW t \in Thread, Acquire(h, t), UNCHANGED reliable
    PROVE  PostInv'
<1>1. UNCHANGED <<wire, inHdr, available, worker, carrying, boxes, got,
                  sent, messageSent, sendPending, sendBusy>>
    BY Zenon DEF Acquire, inVars
<1>2. /\ pc[h][t] = "Acquire" /\ sendLock[h] > 0 /\ Go(h, t, "Send") /\ args' = args
      /\ sendLock' = [sendLock EXCEPT ![h] = sendLock[h] - 1]
    BY Zenon DEF Acquire
<1>3. /\ CallTypes' /\ pc'[h][t] = "Send"
      /\ \A g \in Host, u \in Thread : g # h \/ u # t => pc'[g][u] = pc[g][u]
    BY <1>2, ClientGoesOn, Zenon DEF PostInv, PC, Sending
<1>4. sendLock \in [Host -> 0 .. 1] /\ sendLock[h] \in 0 .. 1
    BY Zenon DEF PostInv, DeviceTypes
<1>5. /\ sendLock[h] = 1
      /\ sendLock' \in [Host -> 0 .. 1] /\ sendLock'[h] = 0
      /\ \A g \in Host \ {h} : sendLock'[g] = sendLock[g]
    BY <1>2, <1>4
<1>6. MailTypes' /\ DeviceTypes'
    BY <1>1, <1>5, Zenon DEF PostInv, MailTypes, DeviceTypes
<1>7. SendAt(h)'
    <2>1. \A u \in Thread : ~HasLock(h, u)
        BY <1>5 DEF PostInv, SendInv, SendAt
    <2>2. ~sendPending[h] /\ messageSent[h] = 0
        <3>1. \A u \in Thread : pc[h][u] # "SentP"
            BY <2>1, Zenon DEF HasLock
        <3>2. ~(sendPending[h] \/ messageSent[h] = 1)
            BY <3>1, Zenon DEF PostInv, SendInv, SendAt
        <3>3. messageSent[h] \in 0 .. 1
            BY Zenon DEF PostInv, DeviceTypes
        <3> QED
            BY <3>2, <3>3
    <2>3. /\ \A u \in Thread : HasLock(h, u)' <=> u = t
          /\ \A u \in Thread : pc'[h][u] # "SentP"
        BY <1>3, <2>1, Zenon DEF HasLock
    <2> QED
        BY <1>1, <1>5, <2>2, <2>3 DEF SendAt
<1>8. SendInv'
    BY <1>1, <1>3, <1>5, <1>7, SendKept, Zenon DEF PostInv, SendInv
<1>9. BufferInv' /\ WayInv' /\ NoneLost'
    BY <1>1, MailStays, Zenon DEF inVars
<1> QED
    BY <1>3, <1>6, <1>8, <1>9, Zenon DEF PostInv

(* NetworkOutput::CallBack: the interrupt becomes a unit of messageSent.   *)
LEMMA SendInterruptStep ==
    ASSUME PostInv, NEW h \in Host, SendInterrupt(h), UNCHANGED reliable
    PROVE  PostInv'
<1>1. UNCHANGED <<wire, inHdr, available, worker, carrying, boxes, got,
                  sent, sendLock, pc, args>>
    BY Zenon DEF SendInterrupt, inVars
<1>2. /\ sendPending[h]
      /\ sendPending' = [sendPending EXCEPT ![h] = FALSE]
      /\ sendBusy' = [sendBusy EXCEPT ![h] = FALSE]
      /\ messageSent' = [messageSent EXCEPT ![h] = messageSent[h] + 1]
    BY Zenon DEF SendInterrupt
<1>3. /\ sendPending \in [Host -> BOOLEAN] /\ sendBusy \in [Host -> BOOLEAN]
      /\ messageSent \in [Host -> 0 .. 1] /\ messageSent[h] \in 0 .. 1
    BY Zenon DEF PostInv, DeviceTypes
<1>4. messageSent[h] = 0
    BY <1>2, <1>3 DEF PostInv, SendInv, SendAt
<1>5. /\ sendPending' \in [Host -> BOOLEAN] /\ sendPending'[h] = FALSE
      /\ \A g \in Host \ {h} : sendPending'[g] = sendPending[g]
      /\ sendBusy' \in [Host -> BOOLEAN]
    BY <1>2, <1>3, Zenon
<1>6. /\ messageSent' \in [Host -> 0 .. 1] /\ messageSent'[h] = 1
      /\ \A g \in Host \ {h} : messageSent'[g] = messageSent[g]
    BY <1>2, <1>3, <1>4
<1>7. MailTypes' /\ DeviceTypes' /\ CallTypes'
    BY <1>1, <1>5, <1>6, Zenon DEF PostInv, MailTypes, DeviceTypes, CallTypes
<1>8. SendAt(h)'
    <2>1. \E u \in Thread : pc[h][u] = "SentP"
        BY <1>2, Zenon DEF PostInv, SendInv, SendAt
    <2>2. \A u \in Thread : HasLock(h, u)' <=> HasLock(h, u)
        BY <1>1, Zenon DEF HasLock
    <2>3. \A u \in Thread : pc[h][u] # "Send"
        BY <1>2, Zenon DEF PostInv, SendInv, SendAt
    <2> QED
        BY <1>1, <1>5, <1>6, <2>1, <2>2, <2>3, Zenon DEF PostInv, SendInv, SendAt
<1>9. SendInv'
    BY <1>1, <1>5, <1>6, <1>8, SendKept, Zenon DEF PostInv, SendInv
<1>10. BufferInv' /\ WayInv' /\ NoneLost'
    BY <1>1, MailStays, Zenon DEF inVars
<1> QED
    BY <1>7, <1>9, <1>10, Zenon DEF PostInv

(* The client takes the unit of messageSent.                               *)
LEMMA SentPStep ==
    ASSUME PostInv, NEW h \in Host, NEW t \in Thread, SentP(h, t), UNCHANGED reliable
    PROVE  PostInv'
<1>1. UNCHANGED <<wire, inHdr, available, worker, carrying, boxes, got,
                  sent, sendLock, sendPending, sendBusy>>
    BY Zenon DEF SentP, inVars
<1>2. /\ pc[h][t] = "SentP" /\ messageSent[h] > 0 /\ Go(h, t, "Release") /\ args' = args
      /\ messageSent' = [messageSent EXCEPT ![h] = messageSent[h] - 1]
    BY Zenon DEF SentP
<1>3. /\ CallTypes' /\ pc'[h][t] = "Release"
      /\ \A g \in Host, u \in Thread : g # h \/ u # t => pc'[g][u] = pc[g][u]
    BY <1>2, ClientGoesOn, Zenon DEF PostInv, PC, Sending
<1>4. messageSent \in [Host -> 0 .. 1] /\ messageSent[h] \in 0 .. 1
    BY Zenon DEF PostInv, DeviceTypes
<1>5. /\ messageSent[h] = 1
      /\ messageSent' \in [Host -> 0 .. 1] /\ messageSent'[h] = 0
      /\ \A g \in Host \ {h} : messageSent'[g] = messageSent[g]
    BY <1>2, <1>4
<1>6. MailTypes' /\ DeviceTypes'
    BY <1>1, <1>5, Zenon DEF PostInv, MailTypes, DeviceTypes
<1>7. SendAt(h)'
    <2>1. \A u \in Thread : HasLock(h, u) => u = t
        BY <1>2, Zenon DEF PostInv, SendInv, SendAt, HasLock
    <2>2. ~sendPending[h] /\ sendLock[h] = 0
        BY <1>2, <1>5, Zenon DEF PostInv, SendInv, SendAt, HasLock
    <2>3. /\ \A u \in Thread : HasLock(h, u)' <=> u = t
          /\ \A u \in Thread : pc'[h][u] # "SentP" /\ pc'[h][u] # "Send"
        BY <1>3, <2>1, Zenon DEF HasLock
    <2> QED
        BY <1>1, <1>5, <2>2, <2>3 DEF SendAt
<1>8. SendInv'
    BY <1>1, <1>3, <1>5, <1>7, SendKept, Zenon DEF PostInv, SendInv
<1>9. BufferInv' /\ WayInv' /\ NoneLost'
    BY <1>1, MailStays, Zenon DEF inVars
<1> QED
    BY <1>3, <1>6, <1>8, <1>9, Zenon DEF PostInv

(* The client gives the lock back, and the device is idle.                 *)
LEMMA ReleaseStep ==
    ASSUME PostInv, NEW h \in Host, NEW t \in Thread, Release(h, t), UNCHANGED reliable
    PROVE  PostInv'
<1>1. UNCHANGED <<wire, inHdr, available, worker, carrying, boxes, got,
                  sent, messageSent, sendPending, sendBusy>>
    BY Zenon DEF Release, inVars
<1>2. /\ pc[h][t] = "Release" /\ Go(h, t, "idle") /\ SetArgs(h, t, NoMail)
      /\ sendLock' = [sendLock EXCEPT ![h] = sendLock[h] + 1]
    BY Zenon DEF Release, SetArgs
<1>3. /\ CallTypes' /\ pc'[h][t] = "idle"
      /\ \A g \in Host, u \in Thread : g # h \/ u # t => pc'[g][u] = pc[g][u]
    <2>1. CallTypes /\ NoMail \in Arg /\ "idle" \in PC /\ "idle" \notin Sending
        BY Zenon DEF PostInv, Arg, PC, Sending
    <2> QED
        BY <1>2, <2>1, ClientGoes
<1>4. sendLock \in [Host -> 0 .. 1]
    BY Zenon DEF PostInv, DeviceTypes
<1>5. /\ \A u \in Thread : HasLock(h, u) => u = t
      /\ sendLock[h] = 0
    BY <1>2, Zenon DEF PostInv, SendInv, SendAt, HasLock
<1>6. /\ sendLock' \in [Host -> 0 .. 1] /\ sendLock'[h] = 1
      /\ \A g \in Host \ {h} : sendLock'[g] = sendLock[g]
    BY <1>2, <1>4, <1>5
<1>7. MailTypes' /\ DeviceTypes'
    BY <1>1, <1>6, Zenon DEF PostInv, MailTypes, DeviceTypes
<1>8. SendAt(h)'
    <2>1. \A u \in Thread : pc[h][u] # "SentP" /\ ~HasLock(h, u)'
        BY <1>2, <1>3, <1>5, Zenon DEF HasLock
    <2>2. \A u \in Thread : pc'[h][u] # "SentP" /\ pc'[h][u] # "Send"
        BY <2>1, Zenon DEF HasLock
    <2> QED
        BY <1>1, <1>6, <2>1, <2>2 DEF PostInv, SendInv, SendAt
<1>9. SendInv'
    BY <1>1, <1>3, <1>6, <1>8, SendKept, Zenon DEF PostInv, SendInv
<1>10. BufferInv' /\ WayInv' /\ NoneLost'
    BY <1>1, MailStays, Zenon DEF inVars
<1> QED
    BY <1>3, <1>7, <1>9, <1>10, Zenon DEF PostInv

(* NetworkOutput::Send: the new mail has a number that no other mail has.  *)
LEMMA NetworkSendStep ==
    ASSUME PostInv, NEW h \in Host, NEW t \in Thread, NetworkSend(h, t), UNCHANGED reliable,
           sent[h] < MaxMail
    PROVE  /\ PostInv'
           /\ \A g \in Host, b \in Box : WayTo(g, b)' \subseteq WayTo(g, b) \cup {Packet(h, t)}
<1> DEFINE p == Packet(h, t)
           to == args[h][t].to
<1>1. UNCHANGED <<inHdr, available, worker, carrying, boxes, got,
                  sendLock, messageSent, sendBusy, args>>
    BY Zenon DEF NetworkSend
<1>2. /\ pc[h][t] = "Send" /\ Go(h, t, "SentP")
      /\ sendPending' = [sendPending EXCEPT ![h] = TRUE]
      /\ sent' = [sent EXCEPT ![h] = sent[h] + 1]
    BY Zenon DEF NetworkSend
<1>3. /\ CallTypes' /\ pc'[h][t] = "SentP"
      /\ \A g \in Host, u \in Thread : g # h \/ u # t => pc'[g][u] = pc[g][u]
    BY <1>1, <1>2, ClientGoesOn, Zenon DEF PostInv, PC, Sending
<1>4. args[h][t] \in Letter
    BY <1>2, Zenon DEF PostInv, CallTypes, Sending
<1>5. /\ sent \in [Host -> Nat] /\ sent[h] \in Nat
      /\ sent' \in [Host -> Nat] /\ sent'[h] = sent[h] + 1
      /\ \A g \in Host \ {h} : sent'[g] = sent[g]
    BY <1>2 DEF PostInv, MailTypes
<1>6. p \in Mail /\ p.from = h /\ p.to = to /\ p.no = sent[h] + 1 /\ to \in Host
    BY <1>4, <1>5, PostOfficeAssumption DEF Letter, Mail, Packet
<1>7. /\ sendPending' \in [Host -> BOOLEAN] /\ sendPending'[h] = TRUE
      /\ \A g \in Host \ {h} : sendPending'[g] = sendPending[g]
    BY <1>2, Zenon DEF PostInv, DeviceTypes
<1>8. wire \in [Host -> Seq(Mail)]
    BY Zenon DEF PostInv, MailTypes
<1>9. \/ ~reliable /\ wire' = wire
      \/ wire' = [wire EXCEPT ![to] = Append(wire[to], p)]
    BY Zenon DEF NetworkSend
<1> HIDE DEF p, to
<1>10. \/ ~reliable /\ wire' = wire
       \/ /\ wire' \in [Host -> Seq(Mail)] /\ wire'[to] = Append(wire[to], p)
          /\ \A g \in Host \ {to} : wire'[g] = wire[g]
    <2>1. CASE wire' = [wire EXCEPT ![to] = Append(wire[to], p)]
        <3>1. Append(wire[to], p) \in Seq(Mail)
            BY <1>6, <1>8
        <3> QED
            BY <1>6, <1>8, <2>1, <3>1, Zenon
    <2> QED
        BY <1>9, <2>1, Zenon
<1>11. MailTypes' /\ DeviceTypes'
    BY <1>1, <1>5, <1>7, <1>8, <1>10, Zenon DEF PostInv, MailTypes, DeviceTypes
<1>12. SendAt(h)'
    <2>1. \A u \in Thread : HasLock(h, u) => u = t
        BY <1>2, Zenon DEF PostInv, SendInv, SendAt, HasLock
    <2>2. messageSent[h] = 0 /\ sendLock[h] = 0
        BY <1>2, Zenon DEF PostInv, SendInv, SendAt, HasLock
    <2>3. /\ \A u \in Thread : HasLock(h, u)' <=> u = t
          /\ \A u \in Thread : pc'[h][u] # "Send"
        BY <1>3, <2>1, Zenon DEF HasLock
    <2> QED
        BY <1>1, <1>3, <1>7, <2>2, <2>3 DEF SendAt
<1>13. SendInv'
    BY <1>1, <1>3, <1>7, <1>12, SendKept, Zenon DEF PostInv, SendInv
<1>14. BufferInv'
    BY <1>1, Zenon DEF PostInv, BufferInv, BufferAt
<1>15. ASSUME NEW g \in Host, NEW b \in Box
       PROVE  /\ FlowAt(g, b)'
              /\ WayTo(g, b) \subseteq WayTo(g, b)'
              /\ WayTo(g, b)' \subseteq WayTo(g, b) \cup {p}
              /\ p \in WayTo(g, b)' => g = to \/ p \in WayTo(g, b)
              /\ wire' # wire /\ g = to => p \in WayTo(g, b)'
    <2>1. FlowAt(g, b) /\ \A m \in WayTo(g, b) : m.to = g /\ m.no <= sent[m.from]
        BY Zenon DEF PostInv, WayInv
    <2>2. CASE wire'[g] = wire[g] /\ (g = to => wire' = wire)
        BY <1>1, <2>1, <2>2, Zenon DEF FlowAt, WayTo
    <2>3. CASE g = to /\ wire'[g] = Append(wire[g], p)
        <3>1. WayTo(g, b) \subseteq Mail /\ wire[g] \in Seq(Mail)
            BY WayTypes, Zenon DEF PostInv
        <3>2. \A m \in WayTo(g, b) : m.from = p.from => m.no < p.no
            BY <2>1, <3>1, <1>5, <1>6, SMTT(30) DEF Mail
        <3>3. Flow(got[g][b], boxes[g][b], InPlace(carrying[g]), InPlace(inHdr[g]), Append(wire[g], p))
              /\ Way(got[g][b], boxes[g][b], InPlace(carrying[g]), InPlace(inHdr[g]), Append(wire[g], p))
                    = WayTo(g, b) \cup {p}
            BY <1>6, <2>1, <3>1, <3>2, NewMail DEF FlowAt, WayTo
        <3>4. FlowAt(g, b)' /\ WayTo(g, b)' = WayTo(g, b) \cup {p}
            BY <1>1, <2>3, <3>3, Zenon DEF FlowAt, WayTo
        <3> QED
            BY <2>3, <3>4, Zenon
    <2> QED
        BY <1>10, <2>2, <2>3, Zenon
<1>16. WayInv'
    <2> SUFFICES ASSUME NEW g \in Host, NEW b \in Box
                 PROVE  /\ \A m \in WayTo(g, b)' : m.to = g /\ m.no <= sent'[m.from]
                        /\ \A m \in Mails(got'[g][b]) \cup Mails(boxes'[g][b]) : m.box = b
                        /\ FlowAt(g, b)'
        BY Zenon DEF WayInv
    <2>1. WayTo(g, b) \subseteq Mail
        BY WayTypes, Zenon DEF PostInv
    <2>2. \A m \in WayTo(g, b) : m.to = g /\ m.no <= sent[m.from] /\ m.no \in Nat /\ m.from \in Host
        BY <2>1 DEF PostInv, WayInv, Mail
    <2>3. \A m \in WayTo(g, b) : m.to = g /\ m.no <= sent'[m.from]
        BY <2>2, <1>5
    <2>4. p \in WayTo(g, b)' => p.to = g /\ p.no <= sent'[p.from]
        BY <1>5, <1>6, <1>15, <2>3
    <2>5. \A m \in Mails(got'[g][b]) \cup Mails(boxes'[g][b]) : m.box = b
        BY <1>1, Zenon DEF PostInv, WayInv
    <2> QED
        BY <1>15, <2>3, <2>4, <2>5, Zenon
<1>17. NoneLost'
    <2> SUFFICES ASSUME reliable', NEW g \in Host, NEW n \in 1 .. sent'[g]
                 PROVE  \E k \in Host, b \in Box : \E m \in WayTo(k, b)' : m.from = g /\ m.no = n
        BY Zenon DEF NoneLost
    <2>1. CASE n \in 1 .. sent[g]
        <3>1. PICK k \in Host, b \in Box : \E m \in WayTo(k, b) : m.from = g /\ m.no = n
            BY <2>1 DEF PostInv, NoneLost
        <3> QED
            BY <3>1, <1>15, Zenon
    <2>2. CASE n \notin 1 .. sent[g]
        <3>1. g = h /\ n = sent[h] + 1
            BY <1>5, <2>2
        <3>2. wire'[to] = Append(wire[to], p)
            BY <1>10, Zenon
        <3>3. wire' # wire
            <4>1. wire[to] \in Seq(Mail)
                BY <1>6, <1>8, Zenon
            <4>2. Len(Append(wire[to], p)) # Len(wire[to])
                BY <4>1
            <4> QED
                BY <3>2, <4>2, Zenon
        <3>4. args[h][t].box \in Box
            BY <1>4, Zenon DEF Letter
        <3> QED
            BY <1>6, <1>15, <3>1, <3>3, <3>4
    <2> QED
        BY <2>1, <2>2, Zenon
<1> QED
    BY <1>3, <1>11, <1>13, <1>14, <1>15, <1>16, <1>17, Zenon DEF PostInv, p
-----------------------------------------------------------------------------
(* NetworkInput::CallBack.                                                 *)
LEMMA PacketArrivesStep ==
    ASSUME PostInv, NEW h \in Host, PacketArrives(h), UNCHANGED reliable
    PROVE  PostInv' /\ MovesOn
<1>1. UNCHANGED <<worker, carrying, boxes, got, sent, sendLock, messageSent,
                  sendPending, sendBusy, pc, args>>
    BY Zenon DEF PacketArrives, outVars
<1>2. /\ inHdr[h] = NoMail /\ wire[h] # << >>
      /\ inHdr' = [inHdr EXCEPT ![h] = Head(wire[h])]
      /\ wire' = [wire EXCEPT ![h] = Tail(wire[h])]
      /\ available' = [available EXCEPT ![h] = available[h] + 1]
    BY Zenon DEF PacketArrives
<1>3. /\ wire \in [Host -> Seq(Mail)] /\ inHdr \in [Host -> Mail \cup {NoMail}]
      /\ available \in [Host -> 0 .. 1] /\ available[h] \in 0 .. 1
    BY Zenon DEF PostInv, MailTypes, DeviceTypes
<1>4. Head(wire[h]) \in Mail /\ Tail(wire[h]) \in Seq(Mail)
    BY <1>2, <1>3, MailsHead, Zenon
<1>5. available[h] = 0 /\ worker[h] # "Receive"
    BY <1>2, <1>3 DEF PostInv, BufferInv, BufferAt
<1>6. /\ inHdr' \in [Host -> Mail \cup {NoMail}] /\ inHdr'[h] = Head(wire[h])
      /\ \A g \in Host \ {h} : inHdr'[g] = inHdr[g]
    BY <1>2, <1>3, <1>4, Zenon
<1>7. /\ wire' \in [Host -> Seq(Mail)] /\ wire'[h] = Tail(wire[h])
      /\ \A g \in Host \ {h} : wire'[g] = wire[g]
    BY <1>2, <1>3, <1>4, Zenon
<1>8. /\ available' \in [Host -> 0 .. 1] /\ available'[h] = 1
      /\ \A g \in Host \ {h} : available'[g] = available[g]
    BY <1>2, <1>3, <1>5
<1>9. MailTypes' /\ DeviceTypes' /\ CallTypes'
    BY <1>1, <1>6, <1>7, <1>8, Zenon DEF PostInv, MailTypes, DeviceTypes, CallTypes
<1>10. SendInv'
    BY <1>1, SendKept, Zenon DEF PostInv, SendInv
<1>11. BufferInv'
    <2>1. inHdr'[h] # NoMail
        BY <1>4, <1>6, PostOfficeAssumption, Zenon
    <2> QED
        BY <1>1, <1>5, <1>6, <1>8, <2>1, ZenonT(30) DEF PostInv, BufferInv, BufferAt
<1>12. ASSUME NEW g \in Host, NEW b \in Box
       PROVE  FlowAt(g, b)' /\ WayTo(g, b)' = WayTo(g, b)
    <2>1. FlowAt(g, b)
        BY Zenon DEF PostInv, WayInv
    <2>2. CASE g # h
        BY <1>1, <1>6, <1>7, <2>1, <2>2, Zenon DEF FlowAt, WayTo
    <2>3. CASE g = h
        <3>1. InPlace(inHdr[h]) = << >> /\ InPlace(inHdr'[h]) = <<Head(wire[h])>>
            BY <1>2, <1>4, <1>6, PostOfficeAssumption, Zenon DEF InPlace
        <3>2. Flow(got[h][b], boxes[h][b], InPlace(carrying[h]), << >>, wire[h])
            BY <2>1, <2>3, <3>1, Zenon DEF FlowAt
        <3>3. wire[h] \in Seq(Mail) /\ wire[h] # << >>
            BY <1>2, <1>3
        <3>4. /\ Flow(got[h][b], boxes[h][b], InPlace(carrying[h]), <<Head(wire[h])>>, Tail(wire[h]))
              /\ Way(got[h][b], boxes[h][b], InPlace(carrying[h]), <<Head(wire[h])>>, Tail(wire[h]))
                    = Way(got[h][b], boxes[h][b], InPlace(carrying[h]), << >>, wire[h])
            BY <3>2, <3>3, MoveIntoBuffer, Zenon
        <3> QED
            BY <1>1, <1>7, <2>3, <3>1, <3>4, Zenon DEF FlowAt, WayTo
    <2> QED
        BY <2>2, <2>3, Zenon
<1>13. MovesOn
    BY <1>1, <1>12, Zenon DEF MovesOn, PostInv, WayInv
<1> QED
    BY <1>9, <1>10, <1>11, <1>13, MailMoves, Zenon DEF PostInv

(* PostOfficeInput::PostalDelivery.                                        *)
LEMMA WorkerPStep ==
    ASSUME PostInv, NEW h \in Host, WorkerP(h), UNCHANGED reliable
    PROVE  PostInv' /\ MovesOn
<1>1. UNCHANGED <<wire, inHdr, carrying, boxes, got, sent, sendLock, messageSent,
                  sendPending, sendBusy, pc, args>>
    BY Zenon DEF WorkerP, outVars
<1>2. /\ worker[h] = "P" /\ available[h] > 0
      /\ available' = [available EXCEPT ![h] = available[h] - 1]
      /\ worker' = [worker EXCEPT ![h] = "Receive"]
    BY Zenon DEF WorkerP
<1>3. /\ worker \in [Host -> {"P", "Receive", "Put"}]
      /\ available \in [Host -> 0 .. 1] /\ available[h] \in 0 .. 1
    BY Zenon DEF PostInv, DeviceTypes
<1>4. /\ worker' \in [Host -> {"P", "Receive", "Put"}] /\ worker'[h] = "Receive"
      /\ \A g \in Host \ {h} : worker'[g] = worker[g]
    BY <1>2, <1>3, Zenon
<1>5. /\ available' \in [Host -> 0 .. 1] /\ available'[h] = 0 /\ available[h] = 1
      /\ \A g \in Host \ {h} : available'[g] = available[g]
    BY <1>2, <1>3
<1>6. MailTypes' /\ DeviceTypes' /\ CallTypes'
    BY <1>1, <1>4, <1>5, Zenon DEF PostInv, MailTypes, DeviceTypes, CallTypes
<1>7. SendInv'
    BY <1>1, SendKept, Zenon DEF PostInv, SendInv
<1>8. BufferInv'
    BY <1>1, <1>2, <1>4, <1>5 DEF PostInv, BufferInv, BufferAt
<1>9. \A g \in Host, b \in Box : FlowAt(g, b)' /\ WayTo(g, b)' = WayTo(g, b)
    BY <1>1, Zenon DEF PostInv, WayInv, FlowAt, WayTo
<1>10. MovesOn
    BY <1>1, <1>9, Zenon DEF MovesOn, PostInv, WayInv
<1> QED
    BY <1>6, <1>7, <1>8, <1>10, MailMoves, Zenon DEF PostInv

(* The postal worker takes the packet out of the buffer.                   *)
LEMMA WorkerReceivesStep ==
    ASSUME PostInv, NEW h \in Host, WorkerReceives(h), UNCHANGED reliable
    PROVE  PostInv' /\ MovesOn
<1>1. UNCHANGED <<wire, available, boxes, got, sent, sendLock, messageSent,
                  sendPending, sendBusy, pc, args>>
    BY Zenon DEF WorkerReceives, outVars
<1>2. /\ worker[h] = "Receive"
      /\ carrying' = [carrying EXCEPT ![h] = inHdr[h]]
      /\ inHdr' = [inHdr EXCEPT ![h] = NoMail]
      /\ worker' = [worker EXCEPT ![h] = "Put"]
    BY Zenon DEF WorkerReceives
<1>3. /\ worker \in [Host -> {"P", "Receive", "Put"}]
      /\ inHdr \in [Host -> Mail \cup {NoMail}] /\ carrying \in [Host -> Mail \cup {NoMail}]
    BY Zenon DEF PostInv, MailTypes, DeviceTypes
<1>4. /\ worker' \in [Host -> {"P", "Receive", "Put"}] /\ worker'[h] = "Put"
      /\ \A g \in Host \ {h} : worker'[g] = worker[g]
    BY <1>2, <1>3, Zenon
<1>5. /\ inHdr' \in [Host -> Mail \cup {NoMail}] /\ inHdr'[h] = NoMail
      /\ \A g \in Host \ {h} : inHdr'[g] = inHdr[g]
    BY <1>2, <1>3, Zenon
<1>6. /\ carrying' \in [Host -> Mail \cup {NoMail}] /\ carrying'[h] = inHdr[h]
      /\ \A g \in Host \ {h} : carrying'[g] = carrying[g]
    BY <1>2, <1>3, Zenon
<1>7. inHdr[h] # NoMail /\ carrying[h] = NoMail /\ available[h] # 1
    BY <1>2, Zenon DEF PostInv, BufferInv, BufferAt
<1>8. MailTypes' /\ DeviceTypes' /\ CallTypes'
    BY <1>1, <1>4, <1>5, <1>6, Zenon DEF PostInv, MailTypes, DeviceTypes, CallTypes
<1>9. SendInv'
    BY <1>1, SendKept, Zenon DEF PostInv, SendInv
<1>10. BufferInv'
    BY <1>1, <1>4, <1>5, <1>6, <1>7 DEF PostInv, BufferInv, BufferAt
<1>11. ASSUME NEW g \in Host, NEW b \in Box
       PROVE  FlowAt(g, b)' /\ WayTo(g, b)' = WayTo(g, b)
    <2>1. FlowAt(g, b)
        BY Zenon DEF PostInv, WayInv
    <2>2. CASE g # h
        BY <1>1, <1>5, <1>6, <2>1, <2>2, Zenon DEF FlowAt, WayTo
    <2>3. CASE g = h
        <3>1. /\ InPlace(carrying[h]) = << >> /\ InPlace(inHdr[h]) = <<inHdr[h]>>
              /\ InPlace(carrying'[h]) = <<inHdr[h]>> /\ InPlace(inHdr'[h]) = << >>
            BY <1>5, <1>6, <1>7 DEF InPlace
        <3>2. Flow(got[h][b], boxes[h][b], << >>, <<inHdr[h]>>, wire[h])
            BY <2>1, <2>3, <3>1, Zenon DEF FlowAt
        <3>3. /\ Flow(got[h][b], boxes[h][b], <<inHdr[h]>>, << >>, wire[h])
              /\ Way(got[h][b], boxes[h][b], <<inHdr[h]>>, << >>, wire[h])
                    = Way(got[h][b], boxes[h][b], << >>, <<inHdr[h]>>, wire[h])
            BY <3>2, MoveIntoHand, Zenon
        <3> QED
            BY <1>1, <2>3, <3>1, <3>3, Zenon DEF FlowAt, WayTo
    <2> QED
        BY <2>2, <2>3, Zenon
<1>12. MovesOn
    BY <1>1, <1>11, Zenon DEF MovesOn, PostInv, WayInv
<1> QED
    BY <1>8, <1>9, <1>10, <1>12, MailMoves, Zenon DEF PostInv

(* MailBox::Put, into the box that the mail names.                         *)
LEMMA WorkerPutsStep ==
    ASSUME PostInv, NEW h \in Host, WorkerPuts(h), UNCHANGED reliable
    PROVE  PostInv' /\ MovesOn
<1>1. UNCHANGED <<wire, inHdr, available, got, sent, sendLock, messageSent,
                  sendPending, sendBusy, pc, args>>
    BY Zenon DEF WorkerPuts, outVars
<1>2. /\ worker[h] = "Put"
      /\ carrying' = [carrying EXCEPT ![h] = NoMail]
      /\ worker' = [worker EXCEPT ![h] = "P"]
    BY Zenon DEF WorkerPuts
<1>3. /\ worker \in [Host -> {"P", "Receive", "Put"}]
      /\ carrying \in [Host -> Mail \cup {NoMail}] /\ boxes \in [Host -> [Box -> Seq(Mail)]]
    BY Zenon DEF PostInv, MailTypes, DeviceTypes
<1>4. PICK m \in Mail : m = carrying[h] /\ m # NoMail
    BY <1>2, <1>3, Zenon DEF PostInv, BufferInv, BufferAt
<1>5. PICK c \in Box : c = m.box
    BY <1>4, Zenon DEF Mail
<1>20. boxes' = [boxes EXCEPT ![h][c] = Append(boxes[h][c], m)]
    BY <1>4, <1>5, Zenon DEF WorkerPuts
<1>6. /\ worker' \in [Host -> {"P", "Receive", "Put"}] /\ worker'[h] = "P"
      /\ \A g \in Host \ {h} : worker'[g] = worker[g]
    BY <1>2, <1>3, Zenon
<1>7. /\ carrying' \in [Host -> Mail \cup {NoMail}] /\ carrying'[h] = NoMail
      /\ \A g \in Host \ {h} : carrying'[g] = carrying[g]
    BY <1>2, <1>3, Zenon
<1>8. /\ boxes' \in [Host -> [Box -> Seq(Mail)]] /\ boxes'[h][c] = Append(boxes[h][c], m)
      /\ \A g \in Host, b \in Box : g # h \/ b # c => boxes'[g][b] = boxes[g][b]
    <2>1. Append(boxes[h][c], m) \in Seq(Mail)
        BY <1>3, <1>5
    <2> QED
        BY <1>3, <1>20, <2>1, CellSet
<1>9. MailTypes' /\ DeviceTypes' /\ CallTypes'
    BY <1>1, <1>6, <1>7, <1>8, Zenon DEF PostInv, MailTypes, DeviceTypes, CallTypes
<1>10. SendInv'
    BY <1>1, SendKept, Zenon DEF PostInv, SendInv
<1>11. BufferInv'
    BY <1>1, <1>2, <1>6, <1>7, ZenonT(30) DEF PostInv, BufferInv, BufferAt
<1>12. InPlace(carrying[h]) = <<m>> /\ InPlace(carrying'[h]) = << >>
    BY <1>4, <1>7, Zenon DEF InPlace
<1>13. ASSUME NEW b \in Box
       PROVE  /\ Flow(got[h][b], Append(boxes[h][b], m), << >>, InPlace(inHdr[h]), wire[h])
              /\ Way(got[h][b], Append(boxes[h][b], m), << >>, InPlace(inHdr[h]), wire[h])
                    = WayTo(h, b)
              /\ Flow(got[h][b], boxes[h][b], << >>, InPlace(inHdr[h]), wire[h])
              /\ Way(got[h][b], boxes[h][b], << >>, InPlace(inHdr[h]), wire[h]) \subseteq WayTo(h, b)
    <2>1. Flow(got[h][b], boxes[h][b], <<m>>, InPlace(inHdr[h]), wire[h])
        BY <1>12 DEF PostInv, WayInv, FlowAt
    <2>2. boxes[h][b] \in Seq(Mail)
        BY <1>3, Zenon
    <2>3. WayTo(h, b) = Way(got[h][b], boxes[h][b], <<m>>, InPlace(inHdr[h]), wire[h])
        BY <1>12, Zenon DEF WayTo
    <2>4. /\ Flow(got[h][b], Append(boxes[h][b], m), << >>, InPlace(inHdr[h]), wire[h])
          /\ Way(got[h][b], Append(boxes[h][b], m), << >>, InPlace(inHdr[h]), wire[h])
                = Way(got[h][b], boxes[h][b], <<m>>, InPlace(inHdr[h]), wire[h])
          /\ Flow(got[h][b], boxes[h][b], << >>, InPlace(inHdr[h]), wire[h])
          /\ Way(got[h][b], boxes[h][b], << >>, InPlace(inHdr[h]), wire[h])
                \subseteq Way(got[h][b], boxes[h][b], <<m>>, InPlace(inHdr[h]), wire[h])
        BY <2>1, <2>2, MoveIntoBox, Zenon
    <2> QED
        BY <2>3, <2>4, Zenon
<1>14. FlowAt(h, c)' /\ WayTo(h, c)' = WayTo(h, c)
    BY <1>1, <1>5, <1>8, <1>12, <1>13, Zenon DEF FlowAt, WayTo
<1>15. ASSUME NEW b \in Box, b # c
       PROVE  FlowAt(h, b)' /\ WayTo(h, b)' \subseteq WayTo(h, b)
    BY <1>1, <1>8, <1>12, <1>13, <1>15, Zenon DEF FlowAt, WayTo
<1>16. ASSUME NEW g \in Host, g # h, NEW b \in Box
       PROVE  FlowAt(g, b)' /\ WayTo(g, b)' = WayTo(g, b)
    <2>1. FlowAt(g, b)
        BY Zenon DEF PostInv, WayInv
    <2> QED
        BY <1>1, <1>7, <1>8, <1>16, <2>1, Zenon DEF FlowAt, WayTo
<1>17. ASSUME NEW b \in Box, NEW n \in WayTo(h, b)
       PROVE  \E d \in Box : n \in WayTo(h, d)'
    <2>1. WayTo(h, b) = Way(got[h][b], boxes[h][b], <<m>>, InPlace(inHdr[h]), wire[h])
        BY <1>12, Zenon DEF WayTo
    <2>2. n = m \/ n \in Way(got[h][b], boxes[h][b], << >>, InPlace(inHdr[h]), wire[h])
        BY <2>1, <1>17, MailsFew DEF Way
    <2>3. CASE n = m
        <3>1. m \in WayTo(h, c)
            BY <1>12, MailsFew, Zenon DEF WayTo, Way
        <3> QED
            BY <1>5, <1>14, <2>3, <3>1, Zenon
    <2>4. CASE b # c /\ n \in Way(got[h][b], boxes[h][b], << >>, InPlace(inHdr[h]), wire[h])
        BY <1>1, <1>8, <1>12, <2>4, Zenon DEF WayTo
    <2> QED
        BY <1>14, <1>17, <2>2, <2>3, <2>4, Zenon
<1>18. \A g \in Host, b \in Box : \A n \in Mails(got'[g][b]) \cup Mails(boxes'[g][b]) : n.box = b
    <2>1. \A g \in Host, b \in Box : \A n \in Mails(got[g][b]) \cup Mails(boxes[g][b]) : n.box = b
        BY Zenon DEF PostInv, WayInv
    <2>2. boxes[h][c] \in Seq(Mail)
        BY <1>3, <1>5, Zenon
    <2>3. Mails(boxes'[h][c]) = Mails(boxes[h][c]) \cup {m}
        BY <1>8, <2>2, MailsAppend, Zenon
    <2>4. m.box = c
        BY <1>5, Zenon
    <2>5. ASSUME NEW g \in Host, NEW b \in Box,
                 NEW n \in Mails(got'[g][b]) \cup Mails(boxes'[g][b])
          PROVE  n.box = b
        <3>1. CASE g = h /\ b = c
            BY <1>1, <2>1, <2>3, <2>4, <2>5, <3>1, Zenon
        <3>2. CASE g # h \/ b # c
            BY <1>1, <1>8, <2>1, <2>5, <3>2, Zenon
        <3> QED
            BY <3>1, <3>2, Zenon
    <2> QED
        BY <2>5, Zenon
<1>19. MovesOn
    BY <1>1, <1>14, <1>15, <1>16, <1>17, <1>18, Zenon DEF MovesOn
<1> QED
    BY <1>9, <1>10, <1>11, <1>19, MailMoves, Zenon DEF PostInv

(* MailBox::Get, for a client that waits for mail in that box.             *)
LEMMA ReceiveMailStep ==
    ASSUME PostInv, NEW h \in Host, NEW t \in Thread, ReceiveMail(h, t), UNCHANGED reliable
    PROVE  PostInv' /\ MovesOn
<1>1. UNCHANGED <<wire, inHdr, available, worker, carrying, sent, sendLock, messageSent,
                  sendPending, sendBusy>>
    BY Zenon DEF ReceiveMail, outVars
<1>2. pc[h][t] = "Receive" /\ SetArgs(h, t, NoMail) /\ Go(h, t, "idle")
    BY Zenon DEF ReceiveMail, SetArgs
<1>3. PICK c \in Box : c = args[h][t]
    BY <1>2, Zenon DEF PostInv, CallTypes
<1>4. /\ boxes \in [Host -> [Box -> Seq(Mail)]] /\ got \in [Host -> [Box -> Seq(Mail)]]
    BY Zenon DEF PostInv, MailTypes
<1>20. /\ boxes[h][c] # << >>
       /\ got' = [got EXCEPT ![h][c] = Append(got[h][c], Head(boxes[h][c]))]
       /\ boxes' = [boxes EXCEPT ![h][c] = Tail(boxes[h][c])]
    BY <1>3, Zenon DEF ReceiveMail
<1>21. PICK m \in Mail : m = Head(boxes[h][c])
    BY <1>4, <1>20
<1>5. /\ Tail(boxes[h][c]) \in Seq(Mail) /\ got[h][c] \in Seq(Mail) /\ boxes[h][c] \in Seq(Mail)
      /\ Mails(boxes[h][c]) = {m} \cup Mails(Tail(boxes[h][c]))
    BY <1>4, <1>20, <1>21, MailsHead
<1>6. /\ boxes' \in [Host -> [Box -> Seq(Mail)]] /\ boxes'[h][c] = Tail(boxes[h][c])
      /\ \A g \in Host, b \in Box : g # h \/ b # c => boxes'[g][b] = boxes[g][b]
    BY <1>4, <1>5, <1>20, CellSet
<1>7. /\ got' \in [Host -> [Box -> Seq(Mail)]] /\ got'[h][c] = Append(got[h][c], m)
      /\ \A g \in Host, b \in Box : g # h \/ b # c => got'[g][b] = got[g][b]
    <2>1. Append(got[h][c], m) \in Seq(Mail)
        BY <1>5
    <2> QED
        BY <1>4, <1>20, <1>21, <2>1, CellSet
<1>8. /\ CallTypes' /\ pc'[h][t] = "idle"
      /\ \A g \in Host, u \in Thread : g # h \/ u # t => pc'[g][u] = pc[g][u]
    <2>1. CallTypes /\ NoMail \in Arg /\ "idle" \in PC /\ "idle" \notin Sending
        BY Zenon DEF PostInv, Arg, PC, Sending
    <2> QED
        BY <1>2, <2>1, ClientGoes
<1>9. MailTypes' /\ DeviceTypes'
    BY <1>1, <1>6, <1>7, Zenon DEF PostInv, MailTypes, DeviceTypes
<1>10. SendInv'
    BY <1>1, <1>2, <1>8, SendKept, Zenon DEF PostInv, SendInv
<1>11. BufferInv'
    BY <1>1, Zenon DEF PostInv, BufferInv, BufferAt
<1>12. FlowAt(h, c)' /\ WayTo(h, c)' = WayTo(h, c)
    <2>1. Flow(got[h][c], boxes[h][c], InPlace(carrying[h]), InPlace(inHdr[h]), wire[h])
        BY <1>3, Zenon DEF PostInv, WayInv, FlowAt
    <2>2. /\ Flow(Append(got[h][c], m), Tail(boxes[h][c]), InPlace(carrying[h]), InPlace(inHdr[h]), wire[h])
          /\ Way(Append(got[h][c], m), Tail(boxes[h][c]), InPlace(carrying[h]), InPlace(inHdr[h]), wire[h])
                = Way(got[h][c], boxes[h][c], InPlace(carrying[h]), InPlace(inHdr[h]), wire[h])
        BY <1>5, <1>20, <1>21, <2>1, MoveToClient
    <2> QED
        BY <1>1, <1>6, <1>7, <2>2, Zenon DEF FlowAt, WayTo
<1>13. ASSUME NEW g \in Host, NEW b \in Box, g # h \/ b # c
       PROVE  FlowAt(g, b)' /\ WayTo(g, b)' = WayTo(g, b)
    <2>1. FlowAt(g, b)
        BY Zenon DEF PostInv, WayInv
    <2> QED
        BY <1>1, <1>6, <1>7, <1>13, <2>1, Zenon DEF FlowAt, WayTo
<1>14. \A g \in Host, b \in Box : \A n \in Mails(got'[g][b]) \cup Mails(boxes'[g][b]) : n.box = b
    <2>1. \A g \in Host, b \in Box : \A n \in Mails(got[g][b]) \cup Mails(boxes[g][b]) : n.box = b
        BY Zenon DEF PostInv, WayInv
    <2>2. Mails(got'[h][c]) = Mails(got[h][c]) \cup {m}
        BY <1>5, <1>7, MailsAppend, Zenon
    <2>3. m.box = c /\ Mails(boxes'[h][c]) \subseteq Mails(boxes[h][c])
        BY <1>3, <1>5, <1>6, <2>1, Zenon
    <2>4. ASSUME NEW g \in Host, NEW b \in Box,
                 NEW n \in Mails(got'[g][b]) \cup Mails(boxes'[g][b])
          PROVE  n.box = b
        <3>1. CASE g = h /\ b = c
            BY <2>1, <2>2, <2>3, <2>4, <3>1, Zenon
        <3>2. CASE g # h \/ b # c
            BY <1>6, <1>7, <2>1, <2>4, <3>2, ZenonT(30)
        <3> QED
            BY <3>1, <3>2, Zenon
    <2> QED
        BY <2>4, Zenon
<1>15. MovesOn
    BY <1>1, <1>12, <1>13, <1>14, ZenonT(30) DEF MovesOn
<1> QED
    BY <1>8, <1>9, <1>10, <1>11, <1>15, MailMoves, Zenon DEF PostInv
(* What a message says of its sender: a first message goes to the other    *)
(* machine, an acknowledgement to the sender of the first message that the *)
(* machine has got.                                                        *)
Meant(g, to, b) ==
    /\ b = 0 => to = FarHost[g]
    /\ b = 1 => got[g][0] # << >> /\ First(g).from = to

(* The first message that a machine gets stays its first one.              *)
FirstStays ==
    \A g \in Host : got[g][0] # << >> => got'[g][0] # << >> /\ First(g)' = First(g)

MailMeant == \A h \in Host, b \in Box : \A m \in WayTo(h, b) : Meant(m.from, m.to, m.box)

CallsMeant ==
    \A h \in Host, t \in Thread :
        /\ pc[h][t] \in Sending => Meant(h, args[h][t].to, args[h][t].box)
        /\ pc[h][t] = "Receive" => t = main

(* How far the test is, and the number of mails that it has got in its     *)
(* boxes 0 and 1.                                                          *)
Progress(s, p, a, zero, one) ==
    /\ p = "Receive" => \/ s = "SendAck" /\ a = 0
                        \/ s = "done" /\ a = 1
    /\ zero = IF \/ s \in {"SendFirst", "ReceiveFirst"}
                 \/ s = "SendAck" /\ p = "Receive" THEN 0 ELSE 1
    /\ one = IF s = "done" /\ p # "Receive" THEN 1 ELSE 0

ProgressAt(h) ==
    Progress(step[h][main], pc[h][main], args[h][main], Len(got[h][0]), Len(got[h][1]))

Statement == {"SendFirst", "ReceiveFirst", "SendAck", "ReceiveAck", "done"}

TestInv ==
    /\ step \in [Host -> [Thread -> Statement]]
    /\ MailMeant /\ CallsMeant
    /\ \A h \in Host : ProgressAt(h)
-----------------------------------------------------------------------------
(* The test.  What a message says stays true.                              *)
LEMMA MeantStays ==
    ASSUME FirstStays, NEW g \in Host, NEW to, NEW b, Meant(g, to, b)
    PROVE  Meant(g, to, b)'
BY Zenon DEF FirstStays, Meant, First

(* Nothing received, nothing changed.                                      *)
LEMMA GotStays == ASSUME got' = got PROVE FirstStays
BY DEF FirstStays, First

(* Mail that was on its way or that a client means to send.                *)
LEMMA MailStaysMeant ==
    ASSUME PostInv, MailMeant, FirstStays, NEW P,
           \A m \in P : m.from \in Host /\ Meant(m.from, m.to, m.box),
           \A h \in Host, b \in Box : WayTo(h, b)' \subseteq WayTo(h, b) \cup P
    PROVE  MailMeant'
<1> SUFFICES ASSUME NEW h \in Host, NEW b \in Box, NEW m \in WayTo(h, b)'
             PROVE  Meant(m.from, m.to, m.box)'
    BY Zenon DEF MailMeant
<1>1. CASE m \in P
    BY <1>1, MeantStays, Zenon
<1>2. CASE m \in WayTo(h, b)
    <2>1. m \in Mail
        BY <1>2, WayTypes, Zenon DEF PostInv
    <2>2. m.from \in Host
        BY <2>1 DEF Mail
    <2> QED
        BY <1>2, <2>2, MeantStays DEF MailMeant
<1> QED
    BY <1>1, <1>2, Zenon

(* A step that is not one of the test, or the receipt of a mail.           *)
LEMMA TestGoesOn ==
    ASSUME PostInv, TestInv, step' = step, got' = got, NEW P,
           \A m \in P : m.from \in Host /\ Meant(m.from, m.to, m.box),
           \A h \in Host, b \in Box : WayTo(h, b)' \subseteq WayTo(h, b) \cup P,
           \A h \in Host, t \in Thread :
              /\ pc'[h][t] \in Sending => pc[h][t] \in Sending /\ args'[h][t] = args[h][t]
              /\ pc'[h][t] = "Receive" <=> pc[h][t] = "Receive"
              /\ pc[h][t] = "Receive" => args'[h][t] = args[h][t]
    PROVE  TestInv'
<1>1. FirstStays
    BY GotStays, Zenon
<1>2. MailMeant'
    BY <1>1, MailStaysMeant, Zenon DEF TestInv
<1>3. CallsMeant'
    BY <1>1, MeantStays DEF TestInv, CallsMeant
<1>4. ASSUME NEW h \in Host
      PROVE  ProgressAt(h)'
    <2>1. main \in Thread
        BY NetworkTestAssumption, Zenon
    <2>2. Progress(step[h][main], pc[h][main], args[h][main], Len(got[h][0]), Len(got[h][1]))
        BY Zenon DEF TestInv, ProgressAt
    <2>3. Progress(step[h][main], pc'[h][main], args'[h][main], Len(got[h][0]), Len(got[h][1]))
        BY <2>1, <2>2, Zenon DEF Progress
    <2> QED
        BY <2>3, Zenon DEF ProgressAt
<1> QED
    BY <1>2, <1>3, <1>4, Zenon DEF TestInv

(* A step that sends nothing.                                              *)
LEMMA NothingSent ==
    ASSUME PostInv, TestInv, step' = step, got' = got,
           \A h \in Host, b \in Box : WayTo(h, b)' \subseteq WayTo(h, b),
           \A h \in Host, t \in Thread :
              /\ pc'[h][t] \in Sending => pc[h][t] \in Sending /\ args'[h][t] = args[h][t]
              /\ pc'[h][t] = "Receive" <=> pc[h][t] = "Receive"
              /\ pc[h][t] = "Receive" => args'[h][t] = args[h][t]
    PROVE  TestInv'
<1> DEFINE P == {}
<1>1. /\ \A m \in P : m.from \in Host /\ Meant(m.from, m.to, m.box)
      /\ \A h \in Host, b \in Box : WayTo(h, b)' \subseteq WayTo(h, b) \cup P
    OBVIOUS
<1> HIDE DEF P
<1> QED
    BY <1>1, TestGoesOn, Zenon

(* A step of the test: a call.                                             *)
LEMMA TestCalls ==
    ASSUME PostInv, TestInv, NEW h \in Host, NEW t \in Thread,
           NEW to \in {"Acquire", "Receive"}, NEW a \in Arg, NEW s \in Statement,
           UNCHANGED <<inVars, got, sent, reliable>>,
           step' = [step EXCEPT ![h][t] = s], Go(h, t, to), SetArgs(h, t, a),
           to = "Acquire" => a \in Letter /\ Meant(h, a.to, a.box),
           to = "Receive" => a \in Box /\ t = main,
           t = main => Progress(s, to, a, Len(got[h][0]), Len(got[h][1]))
    PROVE  TestInv'
<1>1. main \in Thread
    BY NetworkTestAssumption, Zenon
<1>2. got' = got /\ FirstStays
    BY GotStays
<1>3. /\ step' \in [Host -> [Thread -> Statement]] /\ step'[h][t] = s
      /\ \A g \in Host, u \in Thread : g # h \/ u # t => step'[g][u] = step[g][u]
    BY CellSet DEF TestInv
<1>4. /\ pc'[h][t] = to /\ args'[h][t] = a
      /\ \A g \in Host, u \in Thread : g # h \/ u # t =>
            pc'[g][u] = pc[g][u] /\ args'[g][u] = args[g][u]
    <2>1. CallTypes /\ to \in PC /\ (to \in Sending => a \in Letter) /\ (to = "Receive" => a \in Box)
        BY Zenon DEF PostInv, PC, Sending
    <2> QED
        BY <2>1, ClientGoes
<1>5. MailMeant'
    <2>1. \A g \in Host, b \in Box : WayTo(g, b)' = WayTo(g, b)
        BY MailStays, Zenon
    <2> DEFINE P == {}
    <2>2. /\ \A m \in P : m.from \in Host /\ Meant(m.from, m.to, m.box)
          /\ \A g \in Host, b \in Box : WayTo(g, b)' \subseteq WayTo(g, b) \cup P
        BY <2>1, Zenon
    <2> HIDE DEF P
    <2> QED
        BY <1>2, <2>2, MailStaysMeant, Zenon DEF TestInv
<1>6. CallsMeant'
    <2>1. ASSUME NEW g \in Host, NEW u \in Thread, g # h \/ u # t
          PROVE  /\ pc'[g][u] \in Sending => Meant(g, args[g][u].to, args[g][u].box)'
                 /\ pc'[g][u] = "Receive" => u = main
        BY <1>2, <1>4, <2>1 DEF TestInv, CallsMeant, Meant, First
    <2>2. /\ pc'[h][t] \in Sending => Meant(h, args[h][t].to, args[h][t].box)'
          /\ pc'[h][t] = "Receive" => t = main
        <3>1. to \in Sending => Meant(h, a.to, a.box)'
            BY <1>2, MeantStays, Zenon DEF Sending
        <3> QED
            BY <1>4, <3>1, Zenon DEF Meant
    <2> QED
        BY <2>1, <2>2, Zenon DEF CallsMeant
<1>7. ASSUME NEW g \in Host
      PROVE  ProgressAt(g)'
    <2>1. CASE g = h /\ t = main
        BY <1>2, <1>3, <1>4, <2>1 DEF ProgressAt
    <2>2. CASE g # h \/ t # main
        <3>1. step'[g][main] = step[g][main] /\ pc'[g][main] = pc[g][main]
              /\ args'[g][main] = args[g][main]
            BY <1>1, <1>3, <1>4, <2>2
        <3> QED
            BY <1>2, <3>1, Zenon DEF TestInv, ProgressAt
    <2> QED
        BY <2>1, <2>2, ZenonT(30)
<1> QED
    BY <1>3, <1>5, <1>6, <1>7, Zenon DEF TestInv

(* The arguments of PostOfficeOutput::Send.                                *)
LEMMA LetterTo ==
    ASSUME NEW to \in Host, NEW b \in Box
    PROVE  \E a \in Letter : a = [to |-> to, box |-> b] /\ a.to = to /\ a.box = b
<1>1. [to |-> to, box |-> b] \in Letter
    BY DEF Letter
<1>2. [to |-> to, box |-> b].to = to /\ [to |-> to, box |-> b].box = b
    BY Zenon
<1> QED
    BY <1>1, <1>2, Zenon

(* The calls of Kernel::NetworkTest and of the other clients.              *)
LEMMA TestStepKeeps ==
    ASSUME PostInv, TestInv, NEW h \in Host,
           TestStep(h) \/ \E t \in Thread : OtherClient(h, t)
    PROVE  PostInv' /\ TestInv'
<1>1. /\ FarHost[h] \in Host /\ 0 \in Box /\ 1 \in Box /\ 2 \in Box /\ main \in Thread
      /\ Box \subseteq Arg /\ Letter \subseteq Arg
    BY NetworkTestAssumption, SMTT(30) DEF Arg
<1>2. /\ got[h][0] \in Seq(Mail) /\ got[h][1] \in Seq(Mail)
      /\ Progress(step[h][main], pc[h][main], args[h][main], Len(got[h][0]), Len(got[h][1]))
    BY <1>1 DEF PostInv, MailTypes, TestInv, ProgressAt
<1>3. /\ Meant(h, FarHost[h], 0) /\ Meant(h, FarHost[h], 2)
      /\ got[h][0] # << >> => Meant(h, First(h).from, 1)
    BY DEF Meant
<1>4. ASSUME SendFirst(h)
      PROVE  PostInv' /\ TestInv'
    <2>1. PICK a \in Letter : a = [to |-> FarHost[h], box |-> 0] /\ a.to = FarHost[h] /\ a.box = 0
        BY <1>1, LetterTo
    <2>2. /\ step[h][main] = "SendFirst" /\ pc[h][main] = "idle"
          /\ CallSend(h, main, FarHost[h], 0) /\ UNCHANGED reliable
          /\ step' = [step EXCEPT ![h][main] = "ReceiveFirst"]
          /\ Go(h, main, "Acquire") /\ SetArgs(h, main, a)
          /\ UNCHANGED <<inVars, got, sent, reliable>>
        BY <1>4, <2>1, Zenon DEF SendFirst, CallSend, To, SetArgs, outVars
    <2>3. Progress("ReceiveFirst", "Acquire", a, Len(got[h][0]), Len(got[h][1]))
        BY <1>2, <2>2, Zenon DEF Progress
    <2>4. PostInv'
        BY <1>1, <2>2, CallStep, Zenon
    <2> QED
        BY <1>1, <1>3, <2>1, <2>2, <2>3, <2>4, TestCalls, Zenon DEF Statement
<1>5. ASSUME ReceiveFirst(h)
      PROVE  PostInv' /\ TestInv'
    <2>1. /\ step[h][main] = "ReceiveFirst" /\ pc[h][main] = "idle"
          /\ CallReceive(h, main, 0) /\ UNCHANGED reliable
          /\ step' = [step EXCEPT ![h][main] = "SendAck"]
          /\ Go(h, main, "Receive") /\ SetArgs(h, main, 0)
          /\ UNCHANGED <<inVars, got, sent, reliable>>
        BY <1>5, Zenon DEF ReceiveFirst, CallReceive, To, SetArgs, outVars
    <2>2. Progress("SendAck", "Receive", 0, Len(got[h][0]), Len(got[h][1]))
        BY <1>2, <2>1, Zenon DEF Progress
    <2>3. PostInv'
        BY <1>1, <2>1, CallStep, Zenon
    <2> QED
        BY <1>1, <2>1, <2>2, <2>3, TestCalls, Zenon DEF Statement
<1>6. ASSUME SendAck(h)
      PROVE  PostInv' /\ TestInv'
    <2>1. step[h][main] = "SendAck" /\ pc[h][main] = "idle" /\ Len(got[h][0]) = 1
        BY <1>2, <1>6, Zenon DEF SendAck, CallSend, Progress
    <2>2. First(h) \in Mail /\ got[h][0] # << >>
        BY <1>2, <2>1 DEF First
    <2>3. PICK to \in Host : to = First(h).from
        BY <2>2, Zenon DEF Mail
    <2>4. PICK a \in Letter : a = [to |-> to, box |-> 1] /\ a.to = to /\ a.box = 1
        BY <1>1, LetterTo
    <2>5. /\ CallSend(h, main, to, 1) /\ UNCHANGED reliable
          /\ step' = [step EXCEPT ![h][main] = "ReceiveAck"]
          /\ Go(h, main, "Acquire") /\ SetArgs(h, main, a)
          /\ UNCHANGED <<inVars, got, sent, reliable>>
        BY <1>6, <2>3, <2>4, Zenon DEF SendAck, CallSend, To, SetArgs, outVars, ReplyTo
    <2>6. Progress("ReceiveAck", "Acquire", a, Len(got[h][0]), Len(got[h][1]))
        BY <1>2, <2>1, Zenon DEF Progress
    <2>7. PostInv'
        BY <1>1, <2>5, CallStep, Zenon
    <2>8. Meant(h, a.to, a.box)
        BY <1>3, <2>2, <2>3, <2>4, Zenon
    <2> QED
        BY <1>1, <2>4, <2>5, <2>6, <2>7, <2>8, TestCalls, Zenon DEF Statement
<1>7. ASSUME ReceiveAck(h)
      PROVE  PostInv' /\ TestInv'
    <2>1. /\ step[h][main] = "ReceiveAck" /\ pc[h][main] = "idle"
          /\ CallReceive(h, main, 1) /\ UNCHANGED reliable
          /\ step' = [step EXCEPT ![h][main] = "done"]
          /\ Go(h, main, "Receive") /\ SetArgs(h, main, 1)
          /\ UNCHANGED <<inVars, got, sent, reliable>>
        BY <1>7, Zenon DEF ReceiveAck, CallReceive, To, SetArgs, outVars
    <2>2. Progress("done", "Receive", 1, Len(got[h][0]), Len(got[h][1]))
        BY <1>2, <2>1, Zenon DEF Progress
    <2>3. PostInv'
        BY <1>1, <2>1, CallStep, Zenon
    <2> QED
        BY <1>1, <2>1, <2>2, <2>3, TestCalls, Zenon DEF Statement
<1>8. ASSUME NEW t \in Thread, OtherClient(h, t)
      PROVE  PostInv' /\ TestInv'
    <2>1. PICK a \in Letter : a = [to |-> FarHost[h], box |-> 2] /\ a.to = FarHost[h] /\ a.box = 2
        BY <1>1, LetterTo
    <2>2. /\ t # main /\ CallSend(h, t, FarHost[h], 2) /\ UNCHANGED reliable
          /\ step' = [step EXCEPT ![h][t] = "done"]
          /\ Go(h, t, "Acquire") /\ SetArgs(h, t, a)
          /\ UNCHANGED <<inVars, got, sent, reliable>>
        BY <1>8, <2>1, Zenon DEF OtherClient, CallSend, To, SetArgs, outVars
    <2>3. PostInv'
        BY <1>1, <2>2, CallStep, Zenon
    <2> QED
        BY <1>1, <1>3, <2>1, <2>2, <2>3, TestCalls, Zenon DEF Statement
<1> QED
    BY <1>4, <1>5, <1>6, <1>7, <1>8, Zenon DEF TestStep

(* The test gets the mail that it waits for.                               *)
LEMMA TestReceives ==
    ASSUME PostInv, TestInv, PostInv', MovesOn, step' = step,
           NEW h \in Host, NEW t \in Thread, ReceiveMail(h, t)
    PROVE  TestInv'
<1>1. pc[h][t] = "Receive" /\ SetArgs(h, t, NoMail) /\ Go(h, t, "idle") /\ t = main
    BY Zenon DEF ReceiveMail, SetArgs, TestInv, CallsMeant
<1>2. /\ got \in [Host -> [Box -> Seq(Mail)]]
      /\ Progress(step[h][main], "Receive", args[h][main], Len(got[h][0]), Len(got[h][1]))
    BY <1>1, Zenon DEF PostInv, MailTypes, TestInv, ProgressAt
<1>3. PICK c \in {0, 1} : c = args[h][main]
    BY <1>2, Zenon DEF Progress
<1>4. 0 \in Box /\ 1 \in Box /\ c \in Box
    BY NetworkTestAssumption, Zenon
<1>5. /\ got[h][c] = << >>
      /\ c = 0 => step[h][main] = "SendAck" /\ Len(got[h][1]) = 0
      /\ c = 1 => step[h][main] = "done" /\ Len(got[h][0]) = 1
    <2>1. got[h][c] \in Seq(Mail) /\ Len(got[h][c]) = 0
        BY <1>2, <1>3, <1>4, Zenon DEF Progress
    <2> QED
        BY <1>2, <1>3, <2>1 DEF Progress
<1>6. /\ boxes[h][c] # << >> /\ boxes \in [Host -> [Box -> Seq(Mail)]]
      /\ got' = [got EXCEPT ![h][c] = Append(got[h][c], Head(boxes[h][c]))]
    BY <1>1, <1>3, Zenon DEF ReceiveMail, PostInv, MailTypes
<1>7. PICK m \in Mail : m = Head(boxes[h][c])
    BY <1>4, <1>6, SMTT(30)
<1>8. /\ got'[h][c] = <<m>>
      /\ \A g \in Host, b \in Box : g # h \/ b # c => got'[g][b] = got[g][b]
    <2>1. got[h][c] \in Seq(Mail) /\ Append(got[h][c], m) = <<m>> /\ <<m>> \in Seq(Mail)
        BY <1>2, <1>4, <1>5
    <2>2. got' = [got EXCEPT ![h][c] = <<m>>]
        BY <1>6, <1>7, <2>1, Zenon
    <2> QED
        BY <1>2, <1>4, <2>1, <2>2, CellSet
<1>9. FirstStays
    BY <1>4, <1>5, <1>8, Zenon DEF FirstStays, First
<1>10. /\ pc'[h][main] = "idle"
       /\ \A g \in Host, u \in Thread : g # h \/ u # main =>
             pc'[g][u] = pc[g][u] /\ args'[g][u] = args[g][u]
    <2>1. CallTypes /\ NoMail \in Arg /\ "idle" \in PC /\ "idle" \notin Sending
        BY Zenon DEF PostInv, Arg, PC, Sending
    <2> QED
        BY <1>1, <2>1, ClientGoes
<1>11. MailMeant'
    <2> DEFINE P == {}
    <2>1. /\ \A n \in P : n.from \in Host /\ Meant(n.from, n.to, n.box)
          /\ \A g \in Host, b \in Box : WayTo(g, b)' \subseteq WayTo(g, b) \cup P
        BY Zenon DEF MovesOn
    <2> HIDE DEF P
    <2> QED
        BY <1>9, <2>1, MailStaysMeant, Zenon DEF TestInv
<1>12. CallsMeant'
    <2>1. \A g \in Host, u \in Thread : pc'[g][u] \in Sending \cup {"Receive"} =>
             pc'[g][u] = pc[g][u] /\ args'[g][u] = args[g][u]
        BY <1>10, Zenon DEF Sending
    <2> QED
        BY <1>9, <2>1 DEF TestInv, CallsMeant, Meant, FirstStays
<1>13. ASSUME NEW g \in Host
       PROVE  ProgressAt(g)'
    <2>1. CASE g # h
        <3>1. /\ got'[g][0] = got[g][0] /\ got'[g][1] = got[g][1]
              /\ pc'[g][main] = pc[g][main] /\ args'[g][main] = args[g][main]
            BY <1>1, <1>4, <1>8, <1>10, <2>1, Zenon
        <3> QED
            BY <3>1, Zenon DEF TestInv, ProgressAt
    <2>2. CASE g = h
        <3>1. Len(got'[h][0]) = 1 /\ Len(got'[h][1]) = IF c = 1 THEN 1 ELSE 0
            <4>1. Len(<<m>>) = 1
                BY Zenon
            <4>2. CASE c = 0
                BY <1>4, <1>5, <1>8, <4>1, <4>2, Zenon
            <4>3. CASE c = 1
                BY <1>4, <1>5, <1>8, <4>1, <4>3, Zenon
            <4> QED
                BY <4>2, <4>3, Zenon
        <3>2. Progress(step[h][main], "idle", args'[h][main], Len(got'[h][0]), Len(got'[h][1]))
            BY <1>5, <3>1, Zenon DEF Progress
        <3> QED
            BY <1>10, <2>2, <3>2, Zenon DEF ProgressAt
    <2> QED
        BY <2>1, <2>2, Zenon
<1> QED
    BY <1>11, <1>12, <1>13, Zenon DEF TestInv
-----------------------------------------------------------------------------
(* The bound on the mail, and the initial state.                           *)
INSTANCE FiniteSetTheorems

(* The threads somewhere are finitely many.                                *)
LEMMA ThreadsAt ==
    ASSUME NEW h \in Host, NEW S
    PROVE  /\ IsFiniteSet(At(h, S)) /\ Cardinality(At(h, S)) \in Nat
           /\ IsFiniteSet(At(h, S)') /\ Cardinality(At(h, S)') \in Nat
<1>1. IsFiniteSet(Thread) /\ At(h, S) \subseteq Thread /\ At(h, S)' \subseteq Thread
    BY PostOfficeAssumption, Zenon DEF At
<1>2. IsFiniteSet(At(h, S)) /\ IsFiniteSet(At(h, S)')
    BY <1>1, FS_Subset, Zenon
<1> QED
    BY <1>2, FS_CardinalityType, Zenon

(* The mail of the calls that have not reached the device yet.             *)
Claims(h) == At(h, {"Acquire", "Send"})

(* ... and so are these.                                                   *)
LEMMA ClaimsTypes ==
    ASSUME NEW h \in Host
    PROVE  /\ IsFiniteSet(Claims(h)) /\ Cardinality(Claims(h)) \in Nat
           /\ IsFiniteSet(Claims(h)') /\ Cardinality(Claims(h)') \in Nat
BY ThreadsAt, Zenon DEF Claims

(* A step that neither sends nor calls.                                    *)
LEMMA BoundStays ==
    ASSUME BoundInv, sent' = sent, \A h \in Host : Claims(h)' = Claims(h)
    PROVE  BoundInv'
BY Zenon DEF BoundInv, Claims

(* Who waits at the device has room for its mail.                          *)
LEMMA RoomToSend ==
    ASSUME PostInv, BoundInv, NEW h \in Host, NEW t \in Thread, pc[h][t] = "Send"
    PROVE  sent[h] < MaxMail
<1>1. t \in Claims(h)
    BY Zenon DEF Claims, At
<1>2. Cardinality(Claims(h)) # 0
    BY <1>1, ClaimsTypes, FS_EmptySet, Zenon
<1>3. sent[h] \in Nat /\ MaxMail \in Nat /\ sent[h] + Cardinality(Claims(h)) <= MaxMail
    BY PostOfficeAssumption, Zenon DEF PostInv, MailTypes, BoundInv, Claims
<1> QED
    BY <1>2, <1>3, ClaimsTypes

(* A call of Send claims one mail more, which the guard of CallSend        *)
(* admits.                                                                 *)
LEMMA BoundAtCall ==
    ASSUME PostInv, BoundInv, NEW h \in Host, NEW t \in Thread,
           pc[h][t] = "idle", pc'[h][t] = "Acquire", sent' = sent,
           sent[h] + Cardinality(Claims(h)) < MaxMail,
           \A g \in Host, u \in Thread : g # h \/ u # t => pc'[g][u] = pc[g][u]
    PROVE  BoundInv'
<1>1. t \notin Claims(h) /\ Claims(h)' = Claims(h) \cup {t}
    BY Zenon DEF Claims, At
<1>2. \A g \in Host \ {h} : Claims(g)' = Claims(g)
    BY Zenon DEF Claims, At
<1>3. Cardinality(Claims(h)') = Cardinality(Claims(h)) + 1
    BY <1>1, ClaimsTypes, FS_AddElement, Zenon
<1>4. sent[h] \in Nat /\ MaxMail \in Nat
    BY PostOfficeAssumption, Zenon DEF PostInv, MailTypes
<1>5. sent'[h] + Cardinality(Claims(h)') <= MaxMail
    BY <1>3, <1>4, ClaimsTypes
<1> QED
    BY <1>2, <1>5, Zenon DEF BoundInv, Claims

(* NetworkOutput::Send turns a claim into a mail that is sent.             *)
LEMMA BoundAtSend ==
    ASSUME PostInv, BoundInv, NEW h \in Host, NEW t \in Thread,
           pc[h][t] = "Send", pc'[h][t] = "SentP", sent' = [sent EXCEPT ![h] = sent[h] + 1],
           \A g \in Host, u \in Thread : g # h \/ u # t => pc'[g][u] = pc[g][u]
    PROVE  BoundInv'
<1>1. t \in Claims(h) /\ Claims(h)' = Claims(h) \ {t}
    BY Zenon DEF Claims, At
<1>2. \A g \in Host \ {h} : Claims(g)' = Claims(g)
    BY Zenon DEF Claims, At
<1>3. Cardinality(Claims(h)') = Cardinality(Claims(h)) - 1
    BY <1>1, ClaimsTypes, FS_RemoveElement, ZenonT(30)
<1>4. sent \in [Host -> Nat] /\ sent[h] \in Nat /\ MaxMail \in Nat
    BY PostOfficeAssumption, Zenon DEF PostInv, MailTypes
<1>5. sent'[h] = sent[h] + 1 /\ \A g \in Host \ {h} : sent'[g] = sent[g]
    BY <1>4, Zenon
<1>6. sent[h] + Cardinality(Claims(h)) <= MaxMail
    BY Zenon DEF BoundInv, Claims
<1>7. sent'[h] + Cardinality(Claims(h)') <= MaxMail
    BY <1>3, <1>4, <1>5, <1>6, ClaimsTypes, SMTT(30)
<1> QED
    BY <1>2, <1>5, <1>7, Zenon DEF BoundInv, Claims

(* At boot all is empty and idle.                                          *)
LEMMA NetStart == TestInit => PostInv /\ BoundInv /\ TestInv
<1> SUFFICES ASSUME TestInit
             PROVE  PostInv /\ BoundInv /\ TestInv
    BY Zenon
<1>1. << >> \in Seq(Mail) /\ Len(<< >>) = 0 /\ Mails(<< >>) = {} /\ InPlace(NoMail) = << >>
    BY DEF Mails, InPlace
<1>2. MailTypes /\ DeviceTypes /\ CallTypes
    <2>1. boxes = [h \in Host |-> [b \in Box |-> << >>]] /\ got = [h \in Host |-> [b \in Box |-> << >>]]
          /\ wire = [h \in Host |-> << >>] /\ sent = [h \in Host |-> 0]
          /\ inHdr = [h \in Host |-> NoMail] /\ carrying = [h \in Host |-> NoMail]
        BY Zenon DEF TestInit, PostInit
    <2>2. MailTypes
        BY <1>1, <2>1, Zenon DEF MailTypes
    <2>3. DeviceTypes
        BY DEF TestInit, PostInit, DeviceTypes
    <2>4. CallTypes
        BY Zenon DEF TestInit, PostInit, CallTypes, PC, Arg, Sending
    <2> QED
        BY <2>2, <2>3, <2>4, Zenon
<1>3. SendInv /\ BufferInv
    BY DEF TestInit, PostInit, SendInv, SendAt, HasLock, BufferInv, BufferAt
<1>4. \A h \in Host, b \in Box :
         /\ got[h][b] = << >> /\ boxes[h][b] = << >> /\ wire[h] = << >>
         /\ InPlace(carrying[h]) = << >> /\ InPlace(inHdr[h]) = << >>
    BY <1>1, Zenon DEF TestInit, PostInit
<1>5. Flow(<< >>, << >>, << >>, << >>, << >>) /\ Way(<< >>, << >>, << >>, << >>, << >>) = {}
    BY <1>1 DEF Flow, Way, InOrder, Older
<1>6. \A h \in Host, b \in Box : FlowAt(h, b) /\ WayTo(h, b) = {}
    BY <1>4, <1>5, Zenon DEF FlowAt, WayTo
<1>7. WayInv
    BY <1>1, <1>4, <1>6, Zenon DEF WayInv
<1>8. NoneLost
    <2>1. \A h \in Host : sent[h] = 0
        BY Zenon DEF TestInit, PostInit
    <2> QED
        BY <2>1 DEF NoneLost
<1>9. BoundInv
    <2>1. \A h \in Host : At(h, {"Acquire", "Send"}) = {} /\ sent[h] = 0
        BY Zenon DEF TestInit, PostInit, At
    <2> QED
        BY <2>1, FS_EmptySet, PostOfficeAssumption DEF BoundInv
<1>10. TestInv
    <2>1. main \in Thread /\ 0 \in Box /\ 1 \in Box
        BY NetworkTestAssumption, Zenon
    <2>2. \A h \in Host, t \in Thread : step[h][t] = "SendFirst" /\ pc[h][t] = "idle"
        BY Zenon DEF TestInit, PostInit
    <2>3. CallsMeant
        BY <2>2, Zenon DEF CallsMeant, Sending
    <2>4. \A h \in Host : ProgressAt(h)
        BY <1>1, <1>4, <2>1, <2>2, SMTT(30) DEF ProgressAt, Progress
    <2>5. step \in [Host -> [Thread -> Statement]]
        BY Zenon DEF TestInit, Statement
    <2> QED
        BY <1>6, <2>3, <2>4, <2>5, Zenon DEF TestInv, MailMeant
<1> QED
    BY <1>2, <1>3, <1>7, <1>8, <1>9, <1>10, Zenon DEF PostInv
-----------------------------------------------------------------------------
NetInv == PostInv /\ BoundInv /\ TestInv

(* A client on its way through PostOfficeOutput::Send.                     *)
LEMMA SenderKeeps ==
    ASSUME NetInv, NEW h \in Host, NEW t \in Thread, UNCHANGED <<step, reliable>>,
           Acquire(h, t) \/ NetworkSend(h, t) \/ SentP(h, t) \/ Release(h, t)
    PROVE  NetInv'
<1>1. PostInv /\ BoundInv /\ TestInv /\ CallTypes /\ step' = step
    BY Zenon DEF NetInv, PostInv
<1>2. ASSUME Acquire(h, t) \/ SentP(h, t) \/ Release(h, t)
      PROVE  NetInv'
    <2>1. PICK to \in {"Send", "Release", "idle"}, a \in Arg :
             /\ Go(h, t, to) /\ pc[h][t] \in Sending
             /\ to = "Send" <=> pc[h][t] = "Acquire"
             /\ to = "idle" \/ args' = args
             /\ to = "idle" => SetArgs(h, t, a)
             /\ pc[h][t] # "Send"
        BY <1>2, Zenon DEF Acquire, SentP, Release, SetArgs, Sending, Arg
    <2>2. /\ pc'[h][t] = to
          /\ \A g \in Host, u \in Thread : g # h \/ u # t =>
                pc'[g][u] = pc[g][u] /\ args'[g][u] = args[g][u]
        <3>1. CASE to = "idle"
            BY <1>1, <2>1, <3>1, ClientGoes, ZenonT(30) DEF PC, Sending
        <3>2. CASE to # "idle"
            BY <1>1, <2>1, <3>2, ClientGoesOn, SMTT(30) DEF PC, Sending
        <3> QED
            BY <3>1, <3>2, Zenon
    <2>3. UNCHANGED <<inVars, got, sent, reliable>> /\ got' = got /\ sent' = sent
        BY <1>2, Zenon DEF Acquire, SentP, Release
    <2>4. PostInv'
        BY <1>1, <1>2, AcquireStep, SentPStep, ReleaseStep, Zenon
    <2>5. \A g \in Host : Claims(g)' = Claims(g)
        BY <2>1, <2>2, Zenon DEF Claims, At
    <2>6. \A g \in Host, u \in Thread :
             /\ pc'[g][u] \in Sending => pc[g][u] \in Sending /\ args'[g][u] = args[g][u]
             /\ pc'[g][u] = "Receive" <=> pc[g][u] = "Receive"
             /\ pc[g][u] = "Receive" => args'[g][u] = args[g][u]
        BY <2>1, <2>2, Zenon DEF Sending
    <2>7. \A g \in Host, b \in Box : WayTo(g, b)' = WayTo(g, b)
        BY <1>1, <2>3, MailStays, Zenon
    <2> QED
        BY <1>1, <2>3, <2>4, <2>5, <2>6, <2>7, BoundStays, NothingSent, Zenon DEF NetInv
<1>3. ASSUME NetworkSend(h, t)
      PROVE  NetInv'
    <2>1. /\ pc[h][t] = "Send" /\ Go(h, t, "SentP") /\ args' = args /\ got' = got
          /\ sent' = [sent EXCEPT ![h] = sent[h] + 1]
        BY <1>3, Zenon DEF NetworkSend
    <2>2. /\ pc'[h][t] = "SentP"
          /\ \A g \in Host, u \in Thread : g # h \/ u # t => pc'[g][u] = pc[g][u]
        BY <1>1, <2>1, ClientGoesOn, Zenon DEF PC, Sending
    <2>3. sent[h] < MaxMail
        BY <1>1, <2>1, RoomToSend, Zenon
    <2>4. /\ PostInv'
          /\ \A g \in Host, b \in Box : WayTo(g, b)' \subseteq WayTo(g, b) \cup {Packet(h, t)}
        BY <1>1, <1>3, <2>3, NetworkSendStep, Zenon
    <2>5. BoundInv'
        BY <1>1, <2>1, <2>2, BoundAtSend, Zenon
    <2>6. PICK p : p = Packet(h, t)
        BY Zenon
    <2>7. p.from = h /\ Meant(p.from, p.to, p.box)
        <3>1. p.from = h /\ p.to = args[h][t].to /\ p.box = args[h][t].box
            BY <2>6, Zenon DEF Packet
        <3>2. Meant(h, args[h][t].to, args[h][t].box)
            BY <1>1, <2>1, Zenon DEF TestInv, CallsMeant, Sending
        <3> QED
            BY <3>1, <3>2, Zenon
    <2>8. PICK P : P = {p}
        BY Zenon
    <2>9. /\ \A m \in P : m.from \in Host /\ Meant(m.from, m.to, m.box)
          /\ \A g \in Host, b \in Box : WayTo(g, b)' \subseteq WayTo(g, b) \cup P
        BY <2>4, <2>6, <2>7, <2>8, Zenon
    <2>10. \A g \in Host, u \in Thread :
             /\ pc'[g][u] \in Sending => pc[g][u] \in Sending /\ args'[g][u] = args[g][u]
             /\ pc'[g][u] = "Receive" <=> pc[g][u] = "Receive"
             /\ pc[g][u] = "Receive" => args'[g][u] = args[g][u]
        BY <2>1, <2>2, Zenon DEF Sending
    <2> QED
        BY <1>1, <2>1, <2>4, <2>5, <2>9, <2>10, TestGoesOn, Zenon DEF NetInv
<1> QED
    BY <1>2, <1>3, Zenon

(* MailBox::Get.                                                           *)
LEMMA ReceiverKeeps ==
    ASSUME NetInv, NEW h \in Host, NEW t \in Thread, UNCHANGED <<step, reliable>>,
           ReceiveMail(h, t)
    PROVE  NetInv'
<1>1. PostInv /\ BoundInv /\ TestInv /\ step' = step /\ PostInv' /\ MovesOn
    BY ReceiveMailStep, Zenon DEF NetInv
<1>2. TestInv'
    BY <1>1, TestReceives, Zenon
<1>3. \A g \in Host : Claims(g)' = Claims(g)
    <2>1. CallTypes /\ pc[h][t] = "Receive" /\ Go(h, t, "idle") /\ SetArgs(h, t, NoMail)
        BY <1>1, ZenonT(30) DEF PostInv, ReceiveMail, SetArgs
    <2>2. /\ pc'[h][t] = "idle"
          /\ \A g \in Host, u \in Thread : g # h \/ u # t => pc'[g][u] = pc[g][u]
        BY <2>1, ClientGoes DEF PC, Sending, Arg
    <2> QED
        BY <2>1, <2>2, Zenon DEF Claims, At
<1> QED
    BY <1>1, <1>2, <1>3, BoundStays, Zenon DEF NetInv, MovesOn

(* The interrupt handlers and the postal worker.                           *)
LEMMA MachineKeeps ==
    ASSUME NetInv, NEW h \in Host, UNCHANGED step, Devices(h) \/ Worker(h)
    PROVE  NetInv'
<1>1. PostInv /\ BoundInv /\ TestInv /\ step' = step
    BY Zenon DEF NetInv
<1>2. /\ reliable' = reliable /\ pc' = pc /\ args' = args /\ got' = got /\ sent' = sent
      /\ \/ SendInterrupt(h) /\ UNCHANGED <<inVars, got, sent, reliable>>
         \/ PacketArrives(h) \/ WorkerP(h) \/ WorkerReceives(h) \/ WorkerPuts(h)
    BY Zenon DEF Devices, Worker, SendInterrupt, PacketArrives, WorkerP, WorkerReceives,
           WorkerPuts, outVars
<1>3. PostInv' /\ \A g \in Host, b \in Box : WayTo(g, b)' \subseteq WayTo(g, b)
    <2>1. CASE SendInterrupt(h) /\ UNCHANGED <<inVars, got, sent, reliable>>
        BY <1>1, <1>2, <2>1, SendInterruptStep, MailStays, Zenon
    <2>2. CASE PacketArrives(h) \/ WorkerP(h) \/ WorkerReceives(h) \/ WorkerPuts(h)
        <3>1. PostInv' /\ MovesOn
            BY <1>1, <1>2, <2>2, PacketArrivesStep, WorkerPStep, WorkerReceivesStep, WorkerPutsStep, Zenon
        <3> QED
            BY <3>1, Zenon DEF MovesOn
    <2> QED
        BY <1>2, <2>1, <2>2, Zenon
<1>4. BoundInv'
    BY <1>1, <1>2, Zenon DEF BoundInv, At
<1>5. TestInv'
    BY <1>1, <1>2, <1>3, NothingSent, Zenon
<1> QED
    BY <1>3, <1>4, <1>5, Zenon DEF NetInv

(* A call, which the bound lets through.                                   *)
LEMMA CallKeeps ==
    ASSUME NetInv, NEW h \in Host, TestStep(h) \/ \E t \in Thread : OtherClient(h, t)
    PROVE  NetInv'
<1>1. PostInv /\ BoundInv /\ TestInv /\ CallTypes
    BY Zenon DEF NetInv, PostInv
<1>2. PostInv' /\ TestInv'
    BY <1>1, TestStepKeeps, Zenon
<1>3. PICK t \in Thread, to \in {"Acquire", "Receive"} :
         /\ pc[h][t] = "idle" /\ Go(h, t, to) /\ sent' = sent
         /\ to = "Acquire" => sent[h] + Cardinality(Claims(h)) < MaxMail
    BY NetworkTestAssumption, Zenon DEF TestStep, SendFirst, ReceiveFirst, SendAck, ReceiveAck,
        OtherClient, CallSend, CallReceive, Claims, outVars
<1>4. /\ pc'[h][t] = to
      /\ \A g \in Host, u \in Thread : g # h \/ u # t => pc'[g][u] = pc[g][u]
    <2>1. pc \in [Host -> [Thread -> PC]] /\ to \in PC /\ pc' = [pc EXCEPT ![h][t] = to]
        BY <1>1, <1>3, Zenon DEF CallTypes, PC, Go
    <2> QED
        BY <2>1, CellSet, Zenon
<1>5. BoundInv'
    <2>1. CASE to = "Acquire"
        BY <1>1, <1>3, <1>4, <2>1, BoundAtCall, SMTT(30)
    <2>2. CASE to = "Receive"
        <3>1. \A g \in Host : Claims(g)' = Claims(g)
            BY <1>3, <1>4, <2>2, Zenon DEF Claims, At
        <3> QED
            BY <1>1, <1>3, <3>1, BoundStays, Zenon
    <2> QED
        BY <2>1, <2>2, Zenon
<1> QED
    BY <1>2, <1>5, Zenon DEF NetInv

(* A step of something else.                                               *)
LEMMA NetStays == ASSUME NetInv, UNCHANGED testVars PROVE NetInv'
<1>1. PostInv /\ BoundInv /\ TestInv
    BY Zenon DEF NetInv
<1>2. UNCHANGED <<inVars, got, sent, reliable>> /\ pc' = pc /\ args' = args /\ got' = got
      /\ sent' = sent /\ step' = step
    BY Zenon DEF testVars, postVars, outVars
<1>3. UNCHANGED <<sendLock, messageSent, sendPending, sendBusy, wire, inHdr, carrying, boxes,
                  worker, available>>
    BY Zenon DEF testVars, postVars, outVars, inVars
<1>4. /\ BufferInv' /\ WayInv' /\ NoneLost'
      /\ \A h \in Host, b \in Box : WayTo(h, b)' = WayTo(h, b)
    BY <1>1, <1>2, MailStays, Zenon
<1>5. MailTypes' /\ DeviceTypes' /\ CallTypes'
    BY <1>1, <1>2, <1>3, Zenon DEF PostInv, MailTypes, DeviceTypes, CallTypes
<1>6. SendInv'
    BY <1>1, <1>2, <1>3, SendKept, Zenon DEF PostInv, SendInv
<1>7. BoundInv'
    BY <1>1, <1>2, Zenon DEF BoundInv, At
<1>8. TestInv'
    BY <1>1, <1>2, <1>4, NothingSent, Zenon
<1> QED
    BY <1>4, <1>5, <1>6, <1>7, <1>8, Zenon DEF NetInv, PostInv

(* The inductive invariant holds throughout.                               *)
LEMMA NetHolds == TestSpec => []NetInv
<1>1. TestInit => NetInv
    BY NetStart, Zenon DEF NetInv
<1>2. ASSUME NetInv, [TestNext]_testVars
      PROVE  NetInv'
    <2>1. CASE UNCHANGED testVars
        BY <1>2, <2>1, NetStays, Zenon
    <2>2. CASE TestNext
        <3>1. PICK h \in Host :
                 \/ TestStep(h) \/ \E t \in Thread : OtherClient(h, t)
                 \/ /\ Devices(h) \/ Worker(h) \/ \E t \in Thread : ClientStep(h, t)
                    /\ UNCHANGED step
            BY <2>2, Zenon DEF TestNext
        <3>2. CASE TestStep(h) \/ \E t \in Thread : OtherClient(h, t)
            BY <1>2, <3>2, CallKeeps, Zenon
        <3>3. CASE (Devices(h) \/ Worker(h)) /\ UNCHANGED step
            BY <1>2, <3>3, MachineKeeps, Zenon
        <3>4. ASSUME NEW t \in Thread, ClientStep(h, t), UNCHANGED step
              PROVE  NetInv'
            BY <1>2, <3>4, SenderKeeps, ReceiverKeeps, Zenon DEF ClientStep
        <3> QED
            BY <3>1, <3>2, <3>3, <3>4, Zenon
    <2> QED
        BY <1>2, <2>1, <2>2, Zenon
<1> QED
    BY <1>1, <1>2, PTL DEF TestSpec

(* MailArrives, for any number of machines, threads and boxes, any bound   *)
(* on the mail, and whether the network is reliable or not: mail goes      *)
(* through the devices, the postal worker and the boxes of post.cc in      *)
(* order, once, and only to the box it was sent to; and without losses     *)
(* none is missing.                                                        *)
THEOREM MailIsDelivered == TestSpec => []MailArrives
<1>1. ASSUME NetInv
      PROVE  MailArrives
    <2>1. PostInv /\ BoundInv /\ MailTypes /\ DeviceTypes /\ CallTypes
        BY <1>1, Zenon DEF NetInv, PostInv
    <2>2. PostTypeOK
        <3>1. \A h \in Host : sent[h] \in 0 .. MaxMail
            <4>1. \A h \in Host : sent[h] \in Nat /\ sent[h] + Cardinality(Claims(h)) <= MaxMail
                BY <2>1, Zenon DEF MailTypes, BoundInv, Claims
            <4> QED
                BY <4>1, ClaimsTypes, PostOfficeAssumption
        <3>2. sent \in [Host -> 0 .. MaxMail]
            BY <2>1, <3>1, Zenon DEF MailTypes
        <3>3. \A h \in Host : IF worker[h] = "Put" THEN carrying[h] \in Mail ELSE carrying[h] = NoMail
            BY <2>1, Zenon DEF PostInv, BufferInv, BufferAt, MailTypes
        <3> QED
            BY <2>1, <3>2, <3>3, Zenon DEF PostTypeOK, MailTypes, DeviceTypes, CallTypes
    <2>3. OneSendAtATime
        <3> SUFFICES ASSUME NEW h \in Host
                     PROVE  /\ sendLock[h] + Cardinality(At(h, {"Send", "SentP", "Release"})) = 1
                            /\ At(h, {"Send"}) # {} => ~sendPending[h] /\ messageSent[h] = 0
                            /\ At(h, {"SentP"}) # {} <=> sendPending[h] \/ messageSent[h] = 1
            BY Zenon DEF OneSendAtATime
        <3>1. SendAt(h) /\ sendLock[h] \in 0 .. 1
            BY <2>1, Zenon DEF PostInv, SendInv, DeviceTypes
        <3>2. /\ At(h, {"Send"}) # {} => ~sendPending[h] /\ messageSent[h] = 0
              /\ At(h, {"SentP"}) # {} <=> sendPending[h] \/ messageSent[h] = 1
            BY <3>1, Zenon DEF SendAt, At
        <3>3. CASE sendLock[h] = 0
            <4>1. PICK t \in Thread : HasLock(h, t)
                BY <3>1, <3>3, Zenon DEF SendAt
            <4>2. At(h, {"Send", "SentP", "Release"}) = {t}
                BY <3>1, <4>1, Zenon DEF SendAt, HasLock, At
            <4>3. Cardinality(At(h, {"Send", "SentP", "Release"})) = 1
                BY <4>2, FS_Singleton, Zenon
            <4>4. sendLock[h] + Cardinality(At(h, {"Send", "SentP", "Release"})) = 1
                BY <3>3, <4>3
            <4> QED
                BY <3>2, <4>4, Zenon
        <3>4. CASE sendLock[h] # 0
            <4>1. At(h, {"Send", "SentP", "Release"}) = {}
                BY <3>1, <3>4, Zenon DEF SendAt, HasLock, At
            <4>2. Cardinality(At(h, {"Send", "SentP", "Release"})) = 0
                BY <4>1, FS_EmptySet, Zenon
            <4>3. sendLock[h] + Cardinality(At(h, {"Send", "SentP", "Release"})) = 1
                BY <3>1, <3>4, <4>2
            <4> QED
                BY <3>2, <4>3, Zenon
        <3> QED
            BY <3>3, <3>4, Zenon
    <2>4. BufferHandedOver
        BY <2>1, Zenon DEF PostInv, BufferInv, BufferAt, BufferHandedOver
    <2>5. ASSUME NEW h \in Host, NEW b \in Box
          PROVE  /\ OnTheWay(h, b) = WayTo(h, b)
                 /\ \A k \in 1 .. 5 :
                       /\ InOrder(Stages(h, b)[k])
                       /\ \A l \in k + 1 .. 5 : Older(Stages(h, b)[k], Stages(h, b)[l])
        <3>1. /\ Stages(h, b)[1] = got[h][b] /\ Stages(h, b)[2] = boxes[h][b]
              /\ Stages(h, b)[3] = InPlace(carrying[h]) /\ Stages(h, b)[4] = InPlace(inHdr[h])
              /\ Stages(h, b)[5] = wire[h]
            BY Zenon DEF Stages
        <3>2. 1 .. 5 = {1, 2, 3, 4, 5}
            OBVIOUS
        <3>3. OnTheWay(h, b) = WayTo(h, b)
            BY <3>1, <3>2 DEF OnTheWay, WayTo, Way
        <3>4. FlowAt(h, b)
            BY <2>1, Zenon DEF PostInv, WayInv
        <3>5. \A k \in 1 .. 5 : InOrder(Stages(h, b)[k])
            BY <3>1, <3>2, <3>4, ZenonT(30) DEF FlowAt, Flow
        <3>6. \A k, l \in 1 .. 5 : k < l => Older(Stages(h, b)[k], Stages(h, b)[l])
            BY <3>1, <3>2, <3>4, SMTT(30) DEF FlowAt, Flow
        <3> QED
            BY <3>3, <3>5, <3>6
    <2>6. \A h \in Host, b \in Box :
             /\ \A m \in OnTheWay(h, b) : m.to = h
             /\ \A m \in Mails(got[h][b]) \cup Mails(boxes[h][b]) : m.box = b
        BY <2>1, <2>5, SMTT(30) DEF PostInv, WayInv
    <2>7. reliable =>
             \A g \in Host : \A n \in 1 .. sent[g] : \E h \in Host, b \in Box :
                \E m \in OnTheWay(h, b) : m.from = g /\ m.no = n
        BY <2>1, <2>5 DEF PostInv, NoneLost
    <2> QED
        BY <2>2, <2>3, <2>4, <2>5, <2>6, <2>7, Zenon DEF MailArrives
<1> QED
    BY <1>1, NetHolds, PTL

(* AckMeansReceived, for the same instances: on any network, a machine     *)
(* that has finished Kernel::NetworkTest knows that the other one has got  *)
(* its first message.                                                      *)
THEOREM AckIsTrue == TestSpec => []AckMeansReceived
<1>1. ASSUME NetInv
      PROVE  AckMeansReceived
    <2> SUFFICES ASSUME NEW h \in Host, Done(h)
                 PROVE  /\ got[FarHost[h]][0] # << >> /\ First(FarHost[h]).from = h
                        /\ \A b \in {0, 1} : Len(got[h][b]) = 1
        BY Zenon DEF AckMeansReceived
    <2>1. PostInv /\ TestInv /\ 0 \in Box /\ 1 \in Box /\ MailTypes
        BY <1>1, NetworkTestAssumption, Zenon DEF NetInv, PostInv
    <2>2. Len(got[h][0]) = 1 /\ Len(got[h][1]) = 1
        BY <2>1, Zenon DEF TestInv, ProgressAt, Progress, Done
    <2>3. \A g \in Host, b \in {0, 1} :
             got[g][b] \in Seq(Mail) /\ (got[g][b] # << >> => got[g][b][1] \in Mails(got[g][b]))
        BY <2>1, SMTT(30) DEF MailTypes, Mails
    <2>4. \A g \in Host, b \in {0, 1} : \A m \in Mails(got[g][b]) :
             /\ m \in Mail /\ m.from \in Host /\ m.to = g /\ m.box = b
             /\ Meant(m.from, m.to, m.box)
        <3> SUFFICES ASSUME NEW g \in Host, NEW b \in {0, 1}, NEW m \in Mails(got[g][b])
                     PROVE  /\ m \in Mail /\ m.from \in Host /\ m.to = g /\ m.box = b
                            /\ Meant(m.from, m.to, m.box)
            BY Zenon
        <3>1. b \in Box /\ m \in WayTo(g, b)
            BY <2>1, Zenon DEF WayTo, Way
        <3>2. m \in Mail
            BY <2>1, <3>1, WayTypes, Zenon
        <3> QED
            BY <2>1, <3>1, <3>2 DEF PostInv, WayInv, TestInv, MailMeant, Mail
    <2>5. PICK m : m = got[h][1][1] /\ m \in Mails(got[h][1])
        BY <2>2, <2>3, SMTT(30)
    <2>6. m.from \in Host /\ Meant(m.from, h, 1)
        BY <2>4, <2>5
    <2>7. got[m.from][0] # << >> /\ First(m.from).from = h
        BY <2>6, Zenon DEF Meant
    <2>8. First(m.from) \in Mails(got[m.from][0])
        BY <2>3, <2>6, <2>7, Zenon DEF First
    <2>9. Meant(h, m.from, 0)
        BY <2>4, <2>6, <2>7, <2>8, Zenon
    <2>10. m.from = FarHost[h]
        BY <2>9, Zenon DEF Meant
    <2> QED
        BY <2>2, <2>7, <2>10, Zenon
<1> QED
    BY <1>1, NetHolds, PTL
====
